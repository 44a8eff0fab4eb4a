---------------------------- MODULE PoolAllocator ----------------------------
(* The pools of pool_allocator.c, as operators on the record of a pool.  All  *)
(* dynamic objects of DisastrOS live in such pools.  A block is known by its  *)
(* index; a caller only ever releases what getBlock gave it, so the address   *)
(* arithmetic and its UnalignedFree and OutOfRange are left out.              *)
EXTENDS Integers, FiniteSets

CONSTANT size_max   \* number of blocks

Indices     == 0 .. size_max - 1
NullIdx     == -1
DetachedIdx == -2

\* free_list links the free blocks, from first_idx on.
PoolAllocator_init ==
    [free_list |-> [i \in Indices |-> IF i = size_max - 1 THEN NullIdx ELSE i + 1],
     first_idx |-> 0,
     size      |-> size_max]

\* getBlock gives NULL when there is none.
HasBlock(a) == a.first_idx # NullIdx

\* The block handed out is the one at a.first_idx.
PoolAllocator_getBlock(a) ==
    [a EXCEPT !.free_list[a.first_idx] = DetachedIdx,
              !.first_idx = a.free_list[a.first_idx],
              !.size = @ - 1]

Detached(a, i) == a.free_list[i] = DetachedIdx

\* DoubleFree leaves the pool as it is.
PoolAllocator_releaseBlock(a, i) ==
    IF ~ Detached(a, i) THEN a
    ELSE [a EXCEPT !.free_list[i] = a.first_idx,
                   !.first_idx = i,
                   !.size = @ + 1]
-----------------------------------------------------------------------------
\* The blocks that the free list reaches, in order.
FreeChain(a) ==
    LET at[n \in 1 .. size_max] ==
            IF n = 1 THEN a.first_idx
            ELSE IF at[n-1] = NullIdx THEN NullIdx ELSE a.free_list[at[n-1]]
    IN  at

FreeBlocks(a) == {i \in Indices : ~ Detached(a, i)}

\* The free list reaches every free block, once, and size counts them.
PoolSound(a) ==
    LET c == FreeChain(a)
    IN  /\ a.size \in 0 .. size_max
        /\ FreeBlocks(a) = {c[n] : n \in 1 .. a.size}
        /\ Cardinality(FreeBlocks(a)) = a.size
        /\ a.size < size_max => c[a.size + 1] = NullIdx
=============================================================================
