-------------------------- MODULE FieldsAllocProofs ---------------------------
(***************************************************************************)
(* Proofs about FieldsAlloc, for any pool size, any block sizes and any    *)
(* number of allocator objects: the counter of the pool is exact, blocks   *)
(* in use never overlap, and the allocator implements RegionAllocator.     *)
(***************************************************************************)
EXTENDS FieldsAlloc, FiniteSetTheorems, TLAPS

\* Where a block begins and ends.
LEMMA BlockEnds ==
    ASSUME NEW b \in Block
    PROVE  b.at \in Nat /\ b.len \in Nat /\ b.at + b.len \in Nat
  <1>1. b.at \in 0..Size /\ b.len \in Sizes
    BY DEF Block
  <1>2. b.at \in Nat
    BY <1>1, PoolAssumption
  <1>3. b.len \in Nat
    BY <1>1, SizesAssumption
  <1> QED BY <1>2, <1>3

LEMMA InitIInv == Init => IInv
  <1> SUFFICES ASSUME Init PROVE IInv
    OBVIOUS
  <1>1. TypeOK
    BY PoolAssumption, SizesAssumption DEF Init, TypeOK, Pool, NewPool
  <1>2. IsFiniteSet(live) /\ CountIsExact
    BY FS_EmptySet DEF Init, CountIsExact, NewPool
  <1>3. OwnedPoolExists /\ Disjoint /\ BelowPointer
    BY DEF Init, OwnedPoolExists, Disjoint, BelowPointer, NewPool
  <1> QED BY <1>1, <1>2, <1>3 DEF IInv

LEMMA CopyStep == IInv /\ Copy => IInv'
  <1> SUFFICES ASSUME IInv, Copy PROVE IInv'
    OBVIOUS
  <1>1. TypeOK'
    BY OwnersAssumption DEF IInv, TypeOK, Pool, Copy, Share
  <1>2. OwnedPoolExists'
    BY DEF IInv, TypeOK, Pool, OwnedPoolExists, Copy, Share
  <1> QED BY <1>1, <1>2 DEF IInv, CountIsExact, Disjoint, BelowPointer, Copy, Share

LEMMA DropStep == IInv /\ Drop => IInv'
  <1> SUFFICES ASSUME IInv, Drop PROVE IInv'
    OBVIOUS
  <1>1. TypeOK'
    BY DEF IInv, TypeOK, Pool, Drop, Destroy
  <1>2. OwnedPoolExists'
    BY DEF IInv, TypeOK, Pool, OwnedPoolExists, Drop, Destroy
  <1> QED BY <1>1, <1>2 DEF IInv, CountIsExact, Disjoint, BelowPointer, Drop, Destroy

\* A block that fits begins where all the others end.
LEMMA AllocateStep ==
    ASSUME IInv, NEW n \in Sizes, Allocate(n)
    PROVE  IInv'
  <1> USE PoolAssumption, SizesAssumption
  <1> DEFINE b == [at |-> pool.p, len |-> n]
  <1>1. CASE HasRoom(pool, n)
    <2>1. /\ live' = live \cup {b} /\ pool' = Alloc(pool, n)
          /\ refused' = 0 /\ owners' = owners
      BY <1>1 DEF Allocate
    <2>2. b \in Block /\ b.at = pool.p /\ b.len = n /\ n > 0 /\ pool.p + n < Size
      BY <1>1 DEF IInv, TypeOK, Pool, Block, HasRoom
    <2>3. \A c \in live : c \in Block /\ c.at + c.len <= pool.p
      BY DEF IInv, TypeOK, BelowPointer
    <2>4. b \notin live
      BY <2>2, <2>3 DEF IInv, TypeOK, Pool
    <2>5. TypeOK'
      BY <2>1, <2>2 DEF IInv, TypeOK, Pool, Alloc
    <2>6. IsFiniteSet(live') /\ CountIsExact'
      BY <2>1, <2>4, FS_AddElement DEF IInv, CountIsExact, Alloc
    <2>7. OwnedPoolExists'
      BY <2>1 DEF IInv, OwnedPoolExists, Alloc
    <2>8. Disjoint'
      BY <2>1, <2>2, <2>3 DEF IInv, Disjoint
    <2>9. BelowPointer'
      <3> HIDE DEF b
      <3>1. pool'.p = pool.p + n
        BY <2>1 DEF Alloc
      <3>2. \A c \in live : c.at + c.len \in Nat
        BY <2>3, BlockEnds
      <3>3. \A c \in live' : c.at + c.len <= pool'.p
        BY <2>1, <2>2, <2>3, <3>1, <3>2 DEF IInv, TypeOK, Pool
      <3> QED BY <2>1, <2>2, <3>1, <3>3 DEF BelowPointer
    <2> QED BY <2>5, <2>6, <2>7, <2>8, <2>9 DEF IInv
  <1>2. CASE ~HasRoom(pool, n)
    <2>1. refused' = n /\ UNCHANGED <<pool, live, owners>>
      BY <1>2 DEF Allocate
    <2> QED BY <2>1 DEF IInv, TypeOK, CountIsExact, OwnedPoolExists, Disjoint,
                        BelowPointer
  <1> QED BY <1>1, <1>2

\* The last block given back, and no other, takes the pointer to the start.
LEMMA DeallocateStep ==
    ASSUME IInv, NEW b \in live, Deallocate(b)
    PROVE  IInv'
  <1> USE PoolAssumption
  <1>1. /\ live' = live \ {b} /\ pool' = Dealloc(pool)
        /\ refused' = 0 /\ owners' = owners
    BY DEF Deallocate
  <1>2. IsFiniteSet(live') /\ Cardinality(live') = Cardinality(live) - 1
    BY <1>1, FS_RemoveElement DEF IInv
  <1>3. pool.count \in Nat \ {0}
    <2>1. Cardinality(live) # 0
      BY FS_EmptySet DEF IInv
    <2> QED BY <2>1 DEF IInv, TypeOK, Pool, CountIsExact
  <1>4. TypeOK'
    BY <1>1, <1>3 DEF IInv, TypeOK, Pool, Dealloc
  <1>5. CountIsExact'
    BY <1>1, <1>2 DEF IInv, CountIsExact, Dealloc
  <1>6. OwnedPoolExists'
    BY <1>1 DEF IInv, OwnedPoolExists, Dealloc
  <1>7. Disjoint'
    BY <1>1 DEF IInv, Disjoint
  <1>8. live' = {} <=> pool.count = 1
    BY <1>2, <1>3, FS_EmptySet DEF IInv, CountIsExact
  <1>9. BelowPointer'
    BY <1>1, <1>8 DEF IInv, BelowPointer, Dealloc
  <1> QED BY <1>2, <1>4, <1>5, <1>6, <1>7, <1>9, <1>1 DEF IInv

LEMMA NextIInv == IInv /\ [Next]_vars => IInv'
  <1> SUFFICES ASSUME IInv, [Next]_vars PROVE IInv'
    OBVIOUS
  <1>1. CASE UNCHANGED vars
    BY <1>1 DEF vars, IInv, TypeOK, CountIsExact, OwnedPoolExists, Disjoint,
                BelowPointer
  <1> QED BY <1>1, CopyStep, DropStep, AllocateStep, DeallocateStep DEF Next

\* The inductive invariant: the pointer of the pool bounds every block in use,
\* and the counter is their number (fields_alloc.h:34-68).
THEOREM Invariant == Spec => []IInv
  <1> QED BY InitIInv, NextIInv, PTL DEF Spec

\* The variables of the allocator keep their types.
THEOREM TypeCorrect == Spec => []TypeOK
  <1>1. IInv => TypeOK
    BY DEF IInv
  <1> QED BY <1>1, Invariant, PTL

\* The counter counts exactly the blocks in use.
THEOREM CounterExact == Spec => []CountIsExact
  <1>1. IInv => CountIsExact
    BY DEF IInv
  <1> QED BY <1>1, Invariant, PTL

\* While an allocator object exists, so does the pool, with an exact count.
THEOREM PoolOutlivesOwners == Spec => []OwnedPoolExists
  <1>1. IInv => OwnedPoolExists
    BY DEF IInv
  <1> QED BY <1>1, Invariant, PTL

-----------------------------------------------------------------------------
(* Refinement.                                                             *)

LEMMA AllocateRefines ==
    ASSUME IInv, NEW n \in Sizes, Allocate(n)
    PROVE  Region!Next
  <1> USE PoolAssumption, SizesAssumption
  <1> DEFINE b == [at |-> pool.p, len |-> n]
  <1>1. CASE HasRoom(pool, n)
    <2>1. pool.p \in 0..Size /\ n \in Nat /\ pool.p + n < Size
      BY <1>1 DEF IInv, TypeOK, Pool, HasRoom
    <2>2. Region!Bytes(b) \subseteq 0 .. Size - 1
      BY <2>1 DEF Region!Bytes
    <2>3. ASSUME NEW c \in live PROVE Region!Bytes(b) \cap Region!Bytes(c) = {}
      <3>1. c.at \in Nat /\ c.len \in Nat /\ c.at + c.len <= pool.p
        <4>1. c \in Block
          BY DEF IInv, TypeOK
        <4> QED BY <4>1, BlockEnds DEF IInv, BelowPointer
      <3> QED BY <2>1, <3>1 DEF Region!Bytes
    <2>4. Region!Allocate(b)
      BY <1>1, <2>2, <2>3 DEF Allocate, Region!Allocate
    <2> QED BY <2>1, <2>4 DEF Region!Next
  <1>2. CASE ~HasRoom(pool, n)
    <2>1. live = {} => n >= Size
      BY <1>2 DEF IInv, TypeOK, Pool, BelowPointer, HasRoom
    <2>2. Region!Refuse(n)
      BY <1>2, <2>1 DEF Allocate, Region!Refuse
    <2> QED BY <2>2 DEF Region!Next
  <1> QED BY <1>1, <1>2

\* fields_alloc implements the region allocator its comment describes: blocks in
\* use are disjoint and inside the pool, and a request is refused only while a
\* block is in use or when it could never be met.
THEOREM Refinement == Spec => ImplementsRegion
  <1>1. Init => Region!Init
    BY DEF Init, Region!Init
  <1>2. IInv /\ [Next]_vars => [Region!Next]_(Region!vars)
    <2> SUFFICES ASSUME IInv, [Next]_vars PROVE [Region!Next]_(Region!vars)
      OBVIOUS
    <2>1. CASE Copy \/ Drop \/ UNCHANGED vars
      BY <2>1 DEF Copy, Drop, vars, Region!vars
    <2>2. ASSUME NEW n \in Sizes, Allocate(n) PROVE Region!Next
      BY <2>2, AllocateRefines
    <2>3. ASSUME NEW b \in live, Deallocate(b) PROVE Region!Next
      BY <2>3 DEF Deallocate, Region!Deallocate, Region!Next
    <2> QED BY <2>1, <2>2, <2>3 DEF Next
  <1> QED BY <1>1, <1>2, Invariant, PTL DEF Spec, Region!Spec, ImplementsRegion
===============================================================================
