----------------------------- MODULE MemoryFacts -----------------------------
(* Lemmas about pool_allocator.c and linked_list.c for any memory: when a free *)
(* list reaches every free block once, and when links and a head hold a list,  *)
(* and that each function of the two files keeps these.                        *)
EXTENDS PoolAllocator, LinkedList, SequenceFacts

\* at[n] is the n-th item that following f from first meets, null after the last.
IsWalk(at, f, first, null, N) ==
    at = [n \in 1 .. N |-> IF n = 1 THEN first
                           ELSE IF at[n-1] = null THEN null ELSE f[at[n-1]]]

\* Every chain of links has a walk of each length.
LEMMA WalkExists ==
    ASSUME NEW N \in Nat, NEW f, NEW first, NEW null
    PROVE  \E at : IsWalk(at, f, first, null, N)
<1> DEFINE T == {n \in Nat : \E at : IsWalk(at, f, first, null, n)}
<1>1. 0 \in T
  <2>1. IsWalk([n \in 1 .. 0 |-> null], f, first, null, 0)
    BY DEF IsWalk
  <2> QED BY <2>1
<1>2. ASSUME NEW n \in Nat, n \in T PROVE n + 1 \in T
  <2>1. PICK at : IsWalk(at, f, first, null, n)
    BY <1>2
  <2> DEFINE more == [k \in 1 .. n + 1 |->
                        IF k = 1 THEN first
                        ELSE IF at[k-1] = null THEN null ELSE f[at[k-1]]]
  <2>2. \A k \in 1 .. n : more[k] = at[k]
    BY <2>1 DEF IsWalk
  <2>3. \A k \in 1 .. n + 1 : k # 1 => more[k-1] = at[k-1]
    <3>1. \A k \in 1 .. n + 1 : k # 1 => k - 1 \in 1 .. n
      OBVIOUS
    <3> HIDE DEF more
    <3> QED BY <2>2, <3>1
  <2>4. IsWalk(more, f, first, null, n + 1)
    BY <2>3 DEF IsWalk
  <2> QED BY <2>4
<1>3. \A n \in Nat : n \in T
  <2> HIDE DEF T
  <2> QED BY <1>1, <1>2, Induction
<1> QED BY <1>3

\* One step of a walk.
LEMMA WalkStep ==
    ASSUME NEW N \in Nat, NEW f, NEW first, NEW null, NEW at,
           IsWalk(at, f, first, null, N)
    PROVE  \A k \in 1 .. N :
              at[k] = IF k = 1 THEN first
                      ELSE IF at[k-1] = null THEN null ELSE f[at[k-1]]
<1> DEFINE val(k) == IF k = 1 THEN first ELSE IF at[k-1] = null THEN null ELSE f[at[k-1]]
<1>1. at = [k \in 1 .. N |-> val(k)]
  BY DEF IsWalk
<1> HIDE DEF val
<1>2. \A k \in 1 .. N : at[k] = val(k)
  BY <1>1
<1> QED BY <1>2 DEF val

\* What a walk meets when the links lead through the elements of c.
LEMMA WalkAlong ==
    ASSUME NEW N \in Nat, NEW f, NEW first, NEW null, NEW at,
           IsWalk(at, f, first, null, N),
           NEW S, null \notin S, NEW c \in Seq(S),
           first = IF c = <<>> THEN null ELSE c[1],
           \A n \in 1 .. Len(c) : f[c[n]] = IF n = Len(c) THEN null ELSE c[n+1]
    PROVE  \A n \in 1 .. N : at[n] = IF n <= Len(c) THEN c[n] ELSE null
<1> DEFINE T == {n \in Nat : n + 1 <= N =>
                               at[n+1] = IF n + 1 <= Len(c) THEN c[n+1] ELSE null}
<1>1. 0 \in T
  BY WalkStep
<1>2. ASSUME NEW n \in Nat, n \in T PROVE n + 1 \in T
  <2>1. CASE n + 2 <= N
    <3>1. at[n+1] = IF n + 1 <= Len(c) THEN c[n+1] ELSE null
      BY <1>2, <2>1
    <3>2. at[n+2] = IF at[n+1] = null THEN null ELSE f[at[n+1]]
      <4>1. n + 2 \in 1 .. N /\ n + 2 # 1 /\ (n + 2) - 1 = n + 1
        BY <2>1
      <4>2. at[n+2] = IF n + 2 = 1 THEN first
                      ELSE IF at[(n+2)-1] = null THEN null ELSE f[at[(n+2)-1]]
        BY <4>1, WalkStep
      <4> QED BY <4>1, <4>2
    <3>3. CASE n + 1 <= Len(c)
      <4>1. c[n+1] \in S /\ n + 1 \in 1 .. Len(c)
        BY <3>3
      <4>2. at[n+2] = f[c[n+1]]
        BY <3>1, <3>2, <3>3, <4>1
      <4> QED BY <3>3, <4>1, <4>2
    <3>4. CASE ~ (n + 1 <= Len(c))
      BY <3>1, <3>2, <3>4
    <3> QED BY <3>3, <3>4
  <2> QED BY <2>1
<1>3. \A n \in Nat : n \in T
  <2> HIDE DEF T
  <2> QED BY <1>1, <1>2, Induction
<1>4. ASSUME NEW n \in 1 .. N PROVE at[n] = IF n <= Len(c) THEN c[n] ELSE null
  <2>1. n - 1 \in Nat /\ (n - 1) + 1 = n
    OBVIOUS
  <2>2. n - 1 \in T
    BY <1>3, <2>1
  <2> QED BY <2>1, <2>2
<1> QED BY <1>4
-----------------------------------------------------------------------------
\* The free chain of PoolAllocator.tla is the walk along the free list.
LEMMA FreeChainWalks ==
    ASSUME size_max \in Nat, NEW a
    PROVE  IsWalk(FreeChain(a), a.free_list, a.first_idx, NullIdx, size_max)
<1> DEFINE W(at) == at = [n \in 1 .. size_max |->
                            IF n = 1 THEN a.first_idx
                            ELSE IF at[n-1] = NullIdx THEN NullIdx ELSE a.free_list[at[n-1]]]
<1>1. FreeChain(a) = CHOOSE at : W(at)
  BY DEF FreeChain
<1>2. \E at : W(at)
  <2>1. \E at : IsWalk(at, a.free_list, a.first_idx, NullIdx, size_max)
    BY WalkExists
  <2> QED BY <2>1 DEF IsWalk
<1> HIDE DEF W
<1>3. W(FreeChain(a))
  BY <1>1, <1>2
<1> QED BY <1>3 DEF W, IsWalk
-----------------------------------------------------------------------------
Pools == [free_list : [Indices -> Indices \cup {NullIdx, DetachedIdx}],
          first_idx : Indices \cup {NullIdx},
          size      : Nat]

\* The free list of the pool leads through the indices of c, which are all the
\* free blocks.
IsFreeList(a, c) ==
    /\ a \in Pools
    /\ c \in Seq(Indices) /\ Distinct(c)
    /\ a.first_idx = IF c = <<>> THEN NullIdx ELSE c[1]
    /\ \A n \in 1 .. Len(c) :
          a.free_list[c[n]] = IF n = Len(c) THEN NullIdx ELSE c[n+1]
    /\ FreeBlocks(a) = ToSet(c)
    /\ a.size = Len(c)

\* The three values of a free_list entry differ.
LEMMA Numbers ==
    ASSUME size_max \in Nat
    PROVE  /\ NullIdx \notin Indices /\ DetachedIdx \notin Indices
           /\ NullIdx # DetachedIdx
           /\ IsFiniteSet(Indices) /\ Cardinality(Indices) = size_max
<1>1. 0 \in Int /\ size_max - 1 \in Int
  OBVIOUS
<1>2. IsFiniteSet(0 .. size_max - 1) /\ Cardinality(0 .. size_max - 1) = size_max
  BY <1>1, FS_Interval
<1> QED BY <1>2 DEF Indices, NullIdx, DetachedIdx

\* What a run checks of a pool follows from its free list.
LEMMA FreeListSound ==
    ASSUME size_max \in Nat, NEW a, NEW c, IsFreeList(a, c)
    PROVE  PoolSound(a)
<1> DEFINE at == FreeChain(a)
<1>1. \A n \in 1 .. size_max : at[n] = IF n <= Len(c) THEN c[n] ELSE NullIdx
  <2>1. IsWalk(at, a.free_list, a.first_idx, NullIdx, size_max)
    BY FreeChainWalks
  <2> HIDE DEF at
  <2> QED BY <2>1, WalkAlong, Numbers DEF IsFreeList
<1> HIDE DEF at
<1>2. /\ Cardinality(ToSet(c)) = Len(c) /\ Len(c) \in Nat
      /\ ToSet(c) \subseteq Indices
  BY DistinctLength, ToSetType DEF IsFreeList
<1>3. Len(c) <= size_max
  BY <1>2, Numbers, FS_Subset
<1>4. ToSet(c) = {at[n] : n \in 1 .. Len(c)}
  <2>1. \A n \in 1 .. Len(c) : at[n] = c[n]
    BY <1>1, <1>2, <1>3
  <2>2. DOMAIN c = 1 .. Len(c)
    BY DEF IsFreeList
  <2> QED BY <2>1, <2>2 DEF ToSet
<1>5. Len(c) < size_max => at[Len(c) + 1] = NullIdx
  BY <1>1, <1>2
<1> QED BY <1>2, <1>3, <1>4, <1>5 DEF PoolSound, IsFreeList, at

\* After PoolAllocator_init the free list is sound: it holds every block.
LEMMA PoolInit ==
    ASSUME size_max \in Nat \ {0}
    PROVE  \E c : IsFreeList(PoolAllocator_init, c)
<1> DEFINE c == [n \in 1 .. size_max |-> n - 1]
           a == PoolAllocator_init
<1>1. c \in Seq(Indices) /\ Len(c) = size_max /\ DOMAIN c = 1 .. size_max
  BY DEF Indices
<1>2. Distinct(c)
  BY <1>1 DEF Distinct
<1>3. a \in Pools
  BY DEF PoolAllocator_init, Indices, Pools
<1>4. FreeBlocks(a) = Indices
  BY Numbers DEF FreeBlocks, Detached, PoolAllocator_init, Indices
<1>5. ToSet(c) = Indices
  <2>1. \A i \in Indices : i + 1 \in 1 .. size_max /\ c[i + 1] = i
    BY DEF Indices
  <2>2. \A n \in 1 .. size_max : c[n] \in Indices
    BY DEF Indices
  <2> HIDE DEF c
  <2> QED BY <1>1, <2>1, <2>2 DEF ToSet
<1>6. \A n \in 1 .. size_max :
        a.free_list[c[n]] = IF n = size_max THEN NullIdx ELSE c[n+1]
  BY DEF PoolAllocator_init, Indices
<1>7. a.first_idx = c[1] /\ a.size = size_max
  BY DEF PoolAllocator_init
<1> HIDE DEF a, c
<1>8. IsFreeList(a, c)
  BY <1>1, <1>2, <1>3, <1>4, <1>5, <1>6, <1>7 DEF IsFreeList
<1> QED BY <1>8 DEF a

\* A record by its fields.
LEMMA IsRecord ==
    ASSUME NEW F, NEW I, NEW S, NEW b,
           DOMAIN b = {"free_list", "first_idx", "size"}, b = [x \in DOMAIN b |-> b[x]],
           b.free_list \in F, b.first_idx \in I, b.size \in S
    PROVE  b \in [free_list : F, first_idx : I, size : S]
OBVIOUS

\* What PoolAllocator_getBlock changes, field by field.
LEMMA GetBlockFields ==
    ASSUME NEW a \in Pools, NEW b, b = PoolAllocator_getBlock(a)
    PROVE  /\ b.free_list = [a.free_list EXCEPT ![a.first_idx] = DetachedIdx]
           /\ b.first_idx = a.free_list[a.first_idx]
           /\ b.size = a.size - 1
           /\ DOMAIN b = {"free_list", "first_idx", "size"}
           /\ b = [x \in DOMAIN b |-> b[x]]
BY DEF PoolAllocator_getBlock, Pools

\* getBlock takes the first of the list.
LEMMA PoolGet ==
    ASSUME size_max \in Nat, NEW a, NEW c, IsFreeList(a, c)
    PROVE  /\ HasBlock(a) <=> c # <<>>
           /\ HasBlock(a) => /\ a.first_idx = Head(c) /\ a.first_idx \in Indices
                             /\ IsFreeList(PoolAllocator_getBlock(a), Tail(c))
                             /\ FreeBlocks(PoolAllocator_getBlock(a))
                                  = FreeBlocks(a) \ {a.first_idx}
<1>1. HasBlock(a) <=> c # <<>>
  BY Numbers DEF HasBlock, IsFreeList
<1>2. ASSUME c # <<>>
      PROVE  /\ a.first_idx = Head(c) /\ a.first_idx \in Indices
             /\ IsFreeList(PoolAllocator_getBlock(a), Tail(c))
             /\ FreeBlocks(PoolAllocator_getBlock(a)) = FreeBlocks(a) \ {a.first_idx}
  <2> DEFINE b == PoolAllocator_getBlock(a)
             i == a.first_idx
             d == Tail(c)
  <2>1. /\ i = Head(c) /\ i = c[1] /\ i \in Indices
        /\ d \in Seq(Indices) /\ Len(d) = Len(c) - 1
        /\ \A n \in 1 .. Len(d) : d[n] = c[n+1]
        /\ Len(c) \in Nat \ {0}
    BY <1>2 DEF IsFreeList
  <2>2. Distinct(d) /\ ToSet(c) = ToSet(d) \cup {i} /\ i \notin ToSet(d)
    <3>1. c \in Seq(Indices) /\ Distinct(c) /\ c # <<>>
      BY <1>2 DEF IsFreeList
    <3>2. /\ ToSet(c) = ToSet(d) \cup {Head(c)}
          /\ Distinct(c) <=> Distinct(d) /\ Head(c) \notin ToSet(d)
      BY <3>1, TailList
    <3> QED BY <2>1, <3>1, <3>2
  <2>3. /\ b.free_list = [a.free_list EXCEPT ![i] = DetachedIdx]
        /\ b.first_idx = a.free_list[i] /\ b.size = Len(c) - 1
        /\ DOMAIN b = {"free_list", "first_idx", "size"}
        /\ b = [x \in DOMAIN b |-> b[x]]
    <3>1. a \in Pools /\ a.size = Len(c)
      BY DEF IsFreeList
    <3>2. b = PoolAllocator_getBlock(a)
      OBVIOUS
    <3> HIDE DEF b
    <3> QED BY <3>1, <3>2, GetBlockFields
  <2>4. b.first_idx = IF d = <<>> THEN NullIdx ELSE d[1]
    <3> HIDE DEF b, d, i
    <3>1. d = <<>> <=> Len(c) = 1
      BY <2>1
    <3>2. 1 \in 1 .. Len(c) /\ 1 + 1 = 2
      BY <2>1
    <3>3. a.free_list[c[1]] = IF 1 = Len(c) THEN NullIdx ELSE c[2]
      BY <3>2 DEF IsFreeList
    <3>4. d # <<>> => d[1] = c[2]
      <4>1. d # <<>> => 1 \in 1 .. Len(d)
        BY <2>1
      <4> QED BY <2>1, <3>2, <4>1
    <3> QED BY <2>1, <2>3, <3>1, <3>3, <3>4
  <2>5. b \in Pools
    <3>1. b.free_list \in [Indices -> Indices \cup {NullIdx, DetachedIdx}]
      BY <2>1, <2>3 DEF IsFreeList, Pools
    <3>2. b.first_idx \in Indices \cup {NullIdx}
      <4> HIDE DEF b, d
      <4>1. d # <<>> => d[1] \in Indices
        BY <2>1
      <4> QED BY <2>4, <4>1
    <3>3. b.size \in Nat
      BY <2>1, <2>3
    <3> HIDE DEF b
    <3> QED BY <2>3, <3>1, <3>2, <3>3, IsRecord DEF Pools
  <2>6. FreeBlocks(b) = FreeBlocks(a) \ {i}
    BY <2>1, <2>3 DEF FreeBlocks, Detached, IsFreeList, Pools
  <2>7. \A n \in 1 .. Len(d) :
           b.free_list[d[n]] = IF n = Len(d) THEN NullIdx ELSE d[n+1]
    <3> SUFFICES ASSUME NEW n \in 1 .. Len(d)
                 PROVE  b.free_list[d[n]] = IF n = Len(d) THEN NullIdx ELSE d[n+1]
      OBVIOUS
    <3>1. d[n] \in ToSet(d) /\ d[n] \in Indices
      <4> HIDE DEF d
      <4> QED BY <2>1, ToSetType
    <3>2. b.free_list[d[n]] = a.free_list[c[n+1]]
      <4> HIDE DEF b, d
      <4> QED BY <2>1, <2>2, <2>3, <3>1 DEF IsFreeList
    <3>3. n + 1 \in 1 .. Len(c)
      BY <2>1
    <3>4. a.free_list[c[n+1]] = IF n + 1 = Len(c) THEN NullIdx ELSE c[n+2]
      BY <3>3 DEF IsFreeList
    <3>5. n # Len(d) => d[n+1] = c[n+2]
      <4>1. n # Len(d) => n + 1 \in 1 .. Len(d) /\ (n + 1) + 1 = n + 2
        <5> HIDE DEF d
        <5> QED BY <2>1
      <4> HIDE DEF d
      <4> QED BY <2>1, <4>1
    <3> HIDE DEF b, d
    <3> QED BY <2>1, <3>2, <3>4, <3>5
  <2>8. ToSet(d) = FreeBlocks(a) \ {i}
    BY <2>2 DEF IsFreeList
  <2> HIDE DEF b, d
  <2>9. IsFreeList(b, d)
    BY <2>1, <2>2, <2>3, <2>4, <2>5, <2>6, <2>7, <2>8 DEF IsFreeList
  <2> QED BY <2>1, <2>6, <2>9 DEF b, d
<1> QED BY <1>1, <1>2

\* releaseBlock puts an allocated block first.
LEMMA PoolRelease ==
    ASSUME size_max \in Nat, NEW a, NEW c, IsFreeList(a, c),
           NEW i \in Indices, Detached(a, i)
    PROVE  /\ IsFreeList(PoolAllocator_releaseBlock(a, i), <<i>> \o c)
           /\ FreeBlocks(PoolAllocator_releaseBlock(a, i)) = FreeBlocks(a) \cup {i}
<1> DEFINE b == PoolAllocator_releaseBlock(a, i)
           d == <<i>> \o c
<1>1. i \notin ToSet(c)
  BY DEF IsFreeList, FreeBlocks
<1>2. /\ d \in Seq(Indices) /\ Distinct(d) /\ ToSet(d) = ToSet(c) \cup {i}
  BY <1>1, WithOne DEF IsFreeList
<1>3. /\ Len(d) = Len(c) + 1 /\ d[1] = i /\ Len(c) \in Nat
      /\ \A n \in 1 .. Len(c) : d[n+1] = c[n]
  BY DEF IsFreeList
<1>4. /\ b.free_list = [a.free_list EXCEPT ![i] = a.first_idx]
      /\ b.first_idx = i /\ b.size = Len(c) + 1
      /\ b = [free_list |-> b.free_list, first_idx |-> b.first_idx, size |-> b.size]
  BY DEF PoolAllocator_releaseBlock, IsFreeList, Pools
<1>5. b \in Pools
  <2>1. b.free_list \in [Indices -> Indices \cup {NullIdx, DetachedIdx}]
    BY <1>4 DEF IsFreeList, Pools
  <2> HIDE DEF b
  <2> QED BY <1>3, <1>4, <2>1 DEF Pools
<1>6. FreeBlocks(b) = FreeBlocks(a) \cup {i}
  BY <1>4, Numbers DEF FreeBlocks, Detached, IsFreeList, Pools
<1>7. \A n \in 1 .. Len(d) :
         b.free_list[d[n]] = IF n = Len(d) THEN NullIdx ELSE d[n+1]
  <2> SUFFICES ASSUME NEW n \in 1 .. Len(d)
               PROVE  b.free_list[d[n]] = IF n = Len(d) THEN NullIdx ELSE d[n+1]
    OBVIOUS
  <2>1. CASE n = 1
    <3>1. b.free_list[d[n]] = a.first_idx
      BY <1>3, <1>4, <2>1 DEF IsFreeList, Pools
    <3>2. c = <<>> <=> Len(d) = 1
      BY <1>3 DEF IsFreeList
    <3>3. c # <<>> => d[2] = c[1]
      <4>1. c # <<>> => 1 \in 1 .. Len(c) /\ 1 + 1 = 2
        BY <1>3 DEF IsFreeList
      <4> HIDE DEF d
      <4> QED BY <1>3, <4>1
    <3> HIDE DEF b, d
    <3> QED BY <2>1, <3>1, <3>2, <3>3 DEF IsFreeList
  <2>2. CASE n # 1
    <3> DEFINE m == n - 1
    <3>1. m \in 1 .. Len(c) /\ n = m + 1 /\ (n = Len(d) <=> m = Len(c))
      BY <1>3, <2>2
    <3> HIDE DEF m
    <3>2. d[n] = c[m] /\ c[m] \in ToSet(c) /\ c[m] \in Indices
      <4>1. c[m] \in ToSet(c) /\ c[m] \in Indices
        BY <3>1, ToSetType DEF IsFreeList
      <4> HIDE DEF d
      <4> QED BY <1>3, <3>1, <4>1
    <3>3. b.free_list[d[n]] = a.free_list[c[m]]
      <4> HIDE DEF b, d
      <4> QED BY <1>1, <1>4, <3>2 DEF IsFreeList
    <3>4. a.free_list[c[m]] = IF m = Len(c) THEN NullIdx ELSE c[m+1]
      BY <3>1 DEF IsFreeList
    <3>5. m # Len(c) => d[n+1] = c[m+1]
      <4>1. m # Len(c) => m + 1 \in 1 .. Len(c) /\ n + 1 = (m + 1) + 1
        BY <1>3, <3>1
      <4> HIDE DEF d
      <4> QED BY <1>3, <4>1
    <3> HIDE DEF b, d
    <3> QED BY <3>1, <3>3, <3>4, <3>5
  <2> QED BY <2>1, <2>2
<1>8. d # <<>>
  BY <1>3
<1> HIDE DEF b, d
<1>9. IsFreeList(b, d)
  BY <1>2, <1>3, <1>4, <1>5, <1>6, <1>7, <1>8 DEF IsFreeList
<1> QED BY <1>6, <1>9 DEF b, d

\* A loop that releases the blocks of a list leaves all of them free.
LEMMA MaxOfRange ==
    ASSUME NEW n \in Nat, NEW t \in SUBSET (1 .. n + 1), n + 1 \in t
    PROVE  Max(t) = n + 1
<1>1. \A x \in t : n + 1 >= x /\ x \in Nat
  OBVIOUS
<1>2. \A y \in t : (\A x \in t : y >= x) => y = n + 1
  BY <1>1
<1> QED BY <1>1, <1>2 DEF Max

IsRelease(iter, a, s, n) ==
    iter = [t \in SUBSET (1 .. n) |->
              IF t = {} THEN a
              ELSE PoolAllocator_releaseBlock(iter[t \ {Max(t)}], s[Max(t)])]

\* Releasing the blocks of s one after the other is a sequence of pools.
LEMMA ReleaseExists ==
    ASSUME NEW a, NEW s, NEW n \in Nat
    PROVE  \E iter : IsRelease(iter, a, s, n)
<1> DEFINE T == {k \in Nat : \E iter : IsRelease(iter, a, s, k)}
<1>1. 0 \in T
  <2>1. IsRelease([t \in SUBSET (1 .. 0) |-> a], a, s, 0)
    BY DEF IsRelease
  <2> QED BY <2>1
<1>2. ASSUME NEW k \in Nat, k \in T PROVE k + 1 \in T
  <2>1. PICK iter : IsRelease(iter, a, s, k)
    BY <1>2
  <2> DEFINE more == [t \in SUBSET (1 .. k + 1) |->
                        IF k + 1 \in t
                          THEN PoolAllocator_releaseBlock(iter[t \ {k + 1}], s[k + 1])
                          ELSE iter[t]]
  <2>2. ASSUME NEW t \in SUBSET (1 .. k + 1)
        PROVE  more[t] = IF t = {} THEN a
                         ELSE PoolAllocator_releaseBlock(more[t \ {Max(t)}], s[Max(t)])
    <3>1. CASE k + 1 \in t
      <4>1. Max(t) = k + 1 /\ t \ {k + 1} \in SUBSET (1 .. k + 1) /\ k + 1 \notin t \ {k + 1}
        BY <3>1, MaxOfRange
      <4>2. more[t \ {k + 1}] = iter[t \ {k + 1}]
        BY <4>1
      <4> QED BY <3>1, <4>1, <4>2
    <3>2. CASE k + 1 \notin t
      <4> DEFINE u == t \ {Max(t)}
      <4>1. t \in SUBSET (1 .. k) /\ u \in SUBSET (1 .. k + 1) /\ k + 1 \notin u
        <5>1. \A x \in 1 .. k + 1 : x # k + 1 => x \in 1 .. k
          OBVIOUS
        <5> HIDE DEF more
        <5>2. \A x \in t : x \in 1 .. k
          BY <3>2, <5>1
        <5> QED BY <3>2, <5>2
      <4>2. more[t] = iter[t] /\ more[u] = iter[u]
        BY <3>2, <4>1
      <4> HIDE DEF more
      <4> QED BY <2>1, <4>1, <4>2 DEF IsRelease
    <3> QED BY <3>1, <3>2
  <2>3. IsRelease(more, a, s, k + 1)
    <3>1. more = [t \in SUBSET (1 .. k + 1) |-> more[t]]
      OBVIOUS
    <3> HIDE DEF more
    <3> QED BY <2>2, <3>1 DEF IsRelease
  <2> QED BY <2>3
<1>3. \A k \in Nat : k \in T
  <2> HIDE DEF T
  <2> QED BY <1>1, <1>2, Induction
<1> QED BY <1>3

\* Releasing distinct blocks that are in use keeps the free list sound, whatever
\* their order, and frees exactly these blocks: mq_free and m_free.
LEMMA ReleaseAll ==
    ASSUME size_max \in Nat, NEW a, NEW c, IsFreeList(a, c),
           NEW s \in Seq(Indices), Distinct(s), \A n \in 1 .. Len(s) : Detached(a, s[n]),
           NEW b, b = FoldLeft(PoolAllocator_releaseBlock, a, s)
    PROVE  /\ \E d : IsFreeList(b, d)
           /\ FreeBlocks(b) = FreeBlocks(a) \cup ToSet(s)
<1>1. PICK iter : IsRelease(iter, a, s, Len(s)) /\ b = iter[1 .. Len(s)]
  <2> DEFINE P(iter) == iter = [t \in SUBSET (DOMAIN s) |->
                                 IF t = {} THEN a
                                 ELSE PoolAllocator_releaseBlock(iter[t \ {Max(t)}], s[Max(t)])]
  <2>1. b = (CHOOSE iter : P(iter))[DOMAIN s]
    BY Zenon DEF FoldLeft, MapThenFoldSet
  <2>2. DOMAIN s = 1 .. Len(s) /\ Len(s) \in Nat
    OBVIOUS
  <2>3. \A iter : P(iter) <=> IsRelease(iter, a, s, Len(s))
    BY <2>2 DEF IsRelease
  <2> HIDE DEF P
  <2>4. \E iter : P(iter)
    BY <2>2, <2>3, ReleaseExists
  <2>5. P(CHOOSE iter : P(iter))
    BY <2>4
  <2> QED BY <2>1, <2>2, <2>3, <2>5
<1> DEFINE T == {n \in Nat : n <= Len(s) =>
                   /\ \E d : IsFreeList(iter[1 .. n], d)
                   /\ FreeBlocks(iter[1 .. n]) = FreeBlocks(a) \cup {s[k] : k \in 1 .. n}}
<1>2. 0 \in T
  <2>1. 1 .. 0 = {} /\ iter[{}] = a
    BY <1>1 DEF IsRelease
  <2> QED BY <2>1
<1>3. ASSUME NEW n \in Nat, n \in T PROVE n + 1 \in T
  <2> SUFFICES ASSUME n + 1 <= Len(s)
               PROVE  /\ \E d : IsFreeList(iter[1 .. n + 1], d)
                      /\ FreeBlocks(iter[1 .. n + 1])
                           = FreeBlocks(a) \cup {s[k] : k \in 1 .. n + 1}
    OBVIOUS
  <2> DEFINE e == iter[1 .. n]
             i == s[n + 1]
  <2>1. PICK d : IsFreeList(e, d)
    BY <1>3
  <2>2. FreeBlocks(e) = FreeBlocks(a) \cup {s[k] : k \in 1 .. n}
    BY <1>3
  <2>3. iter[1 .. n + 1] = PoolAllocator_releaseBlock(e, i)
    <3>1. /\ 1 .. n + 1 \in SUBSET (1 .. Len(s)) /\ 1 .. n + 1 # {} /\ n + 1 \in 1 .. n + 1
          /\ (1 .. n + 1) \ {n + 1} = 1 .. n
      OBVIOUS
    <3>2. Max(1 .. n + 1) = n + 1
      BY <3>1, MaxOfRange
    <3> QED BY <1>1, <3>1, <3>2 DEF IsRelease
  <2>4. i \in Indices /\ i \notin FreeBlocks(a) /\ \A k \in 1 .. n : s[k] # i
    BY DEF Distinct, FreeBlocks
  <2>5. Detached(e, i)
    <3> HIDE DEF e, i
    <3>1. i \notin FreeBlocks(e)
      BY <2>2, <2>4
    <3> QED BY <2>4, <3>1 DEF FreeBlocks
  <2>6. {s[k] : k \in 1 .. n + 1} = {s[k] : k \in 1 .. n} \cup {i}
    <3>1. 1 .. n + 1 = (1 .. n) \cup {n + 1}
      OBVIOUS
    <3> QED BY <3>1
  <2> HIDE DEF e, i
  <2>7. /\ IsFreeList(PoolAllocator_releaseBlock(e, i), <<i>> \o d)
        /\ FreeBlocks(PoolAllocator_releaseBlock(e, i)) = FreeBlocks(e) \cup {i}
    BY <2>1, <2>4, <2>5, PoolRelease
  <2> QED BY <2>2, <2>3, <2>6, <2>7
<1>4. Len(s) \in T
  <2> HIDE DEF T
  <2> QED BY <1>2, <1>3, Induction
<1>5. ToSet(s) = {s[k] : k \in 1 .. Len(s)}
  BY DEF ToSet
<1> QED BY <1>1, <1>4, <1>5
-----------------------------------------------------------------------------
Links == [first : [Heads -> Items \cup {NULL}], last : [Heads -> Items \cup {NULL}],
          size  : [Heads -> Int],
          prev  : [Items -> Items \cup {NULL}], next : [Items -> Items \cup {NULL}]]

\* The list of h consists of the items of c, from either end.
IsList(l, h, c) ==
    /\ c \in Seq(Items) /\ Distinct(c)
    /\ l.first[h] = IF c = <<>> THEN NULL ELSE c[1]
    /\ l.last[h]  = IF c = <<>> THEN NULL ELSE c[Len(c)]
    /\ l.size[h]  = Len(c)
    /\ \A n \in 1 .. Len(c) : /\ l.next[c[n]] = IF n = Len(c) THEN NULL ELSE c[n+1]
                              /\ l.prev[c[n]] = IF n = 1 THEN NULL ELSE c[n-1]

\* The chain of LinkedList.tla is the walk along next, cut where NULL begins.
LEMMA ChainWalks ==
    ASSUME Cardinality(Items) \in Nat, NEW l, NEW h
    PROVE  \E at : /\ IsWalk(at, l.next, l.first[h], NULL, Cardinality(Items))
                   /\ Chain(l, h) = SubSeq(at, 1, Cardinality({n \in DOMAIN at : at[n] # NULL}))
<1> DEFINE P(at) == at = [n \in 1 .. Cardinality(Items) |->
                            IF n = 1 THEN l.first[h]
                            ELSE IF at[n-1] = NULL THEN NULL ELSE l.next[at[n-1]]]
           walk == CHOOSE at : P(at)
<1>1. Chain(l, h) = SubSeq(walk, 1, Cardinality({n \in DOMAIN walk : walk[n] # NULL}))
  BY Zenon DEF Chain
<1>2. \A at : P(at) <=> IsWalk(at, l.next, l.first[h], NULL, Cardinality(Items))
  BY DEF IsWalk
<1> HIDE DEF P
<1>3. \E at : P(at)
  BY <1>2, WalkExists
<1>4. P(walk)
  BY <1>3
<1> QED BY <1>1, <1>2, <1>4

\* The loops of the code visit the items of c, in order.
LEMMA ChainOf ==
    ASSUME IsFiniteSet(Items), NULL \notin Items, NEW l, NEW h, NEW c, IsList(l, h, c)
    PROVE  Chain(l, h) = c
<1> DEFINE N == Cardinality(Items)
<1>1. N \in Nat
  BY FS_CardinalityType
<1>2. PICK at : /\ IsWalk(at, l.next, l.first[h], NULL, N)
                /\ Chain(l, h) = SubSeq(at, 1, Cardinality({n \in DOMAIN at : at[n] # NULL}))
  BY <1>1, ChainWalks
<1> HIDE DEF N
<1>3. \A n \in 1 .. N : at[n] = IF n <= Len(c) THEN c[n] ELSE NULL
  BY <1>1, <1>2, WalkAlong DEF IsList
<1>4. Len(c) \in Nat /\ Len(c) <= N
  <2>1. /\ Cardinality(ToSet(c)) = Len(c) /\ Len(c) \in Nat
        /\ ToSet(c) \subseteq Items
    BY DistinctLength, ToSetType DEF IsList
  <2> QED BY <2>1, FS_Subset DEF N
<1>5. \A n \in 1 .. Len(c) : c[n] \in Items
  BY DEF IsList
<1>6. {n \in DOMAIN at : at[n] # NULL} = 1 .. Len(c)
  <2>1. DOMAIN at = 1 .. N
    BY <1>2 DEF IsWalk
  <2> QED BY <1>1, <1>3, <1>4, <1>5, <2>1
<1>7. Cardinality(1 .. Len(c)) = Len(c)
  <2>1. 1 \in Int /\ Len(c) \in Int
    BY <1>4
  <2>2. Cardinality(1 .. Len(c)) = IF 1 > Len(c) THEN 0 ELSE Len(c) - 1 + 1
    BY <2>1, FS_Interval
  <2> QED BY <1>4, <2>2
<1>8. SubSeq(at, 1, Len(c)) = c
  <2>1. SubSeq(at, 1, Len(c)) = [n \in 1 .. Len(c) |-> at[n]]
    BY <1>4
  <2>2. \A n \in 1 .. Len(c) : at[n] = c[n]
    BY <1>1, <1>3, <1>4
  <2>3. c = [n \in 1 .. Len(c) |-> c[n]]
    BY DEF IsList
  <2> QED BY <2>1, <2>2, <2>3
<1> QED BY <1>2, <1>6, <1>7, <1>8

\* A head and links that hold the sequence c both ways are sound.
LEMMA IsListSound ==
    ASSUME IsFiniteSet(Items), NULL \notin Items, NEW l, NEW h, NEW c, IsList(l, h, c)
    PROVE  ListSound(l, h)
<1>1. Chain(l, h) = c
  BY ChainOf
<1>2. DOMAIN c = 1 .. Len(c) /\ Len(c) \in Nat /\ (c # <<>> => Len(c) \in 1 .. Len(c))
  BY DEF IsList
<1> QED BY <1>1, <1>2 DEF ListSound, IsList, Distinct

\* A list stays as long as its head and the links of its items do.
LEMMA SameList ==
    ASSUME NEW l, NEW k, NEW h, NEW c, IsList(l, h, c),
           k.first[h] = l.first[h], k.last[h] = l.last[h], k.size[h] = l.size[h],
           \A i \in ToSet(c) : k.next[i] = l.next[i] /\ k.prev[i] = l.prev[i]
    PROVE  IsList(k, h, c)
<1>1. \A n \in 1 .. Len(c) : c[n] \in ToSet(c)
  BY ToSetType DEF IsList
<1> QED BY <1>1 DEF IsList

\* Nothing of the list of a head changes.
Untouched(k, l, g) ==
    k.first[g] = l.first[g] /\ k.last[g] = l.last[g] /\ k.size[g] = l.size[g]

IsLinks(l) ==
    /\ DOMAIN l = {"first", "last", "size", "prev", "next"}
    /\ l = [x \in DOMAIN l |-> l[x]]

\* A record with the five fields of these types is one of Links.
LEMMA IsRecord5 ==
    ASSUME NEW l, IsLinks(l),
           l.first \in [Heads -> Items \cup {NULL}], l.last \in [Heads -> Items \cup {NULL}],
           l.size \in [Heads -> Int],
           l.prev \in [Items -> Items \cup {NULL}], l.next \in [Items -> Items \cup {NULL}]
    PROVE  l \in Links
BY DEF IsLinks, Links

\* The five fields of a member of Links and their types.
LEMMA FieldsOf ==
    ASSUME NEW l \in Links
    PROVE  /\ IsLinks(l)
           /\ l.first \in [Heads -> Items \cup {NULL}] /\ l.last \in [Heads -> Items \cup {NULL}]
           /\ l.size \in [Heads -> Int]
           /\ l.prev \in [Items -> Items \cup {NULL}] /\ l.next \in [Items -> Items \cup {NULL}]
BY DEF IsLinks, Links

\* What List_init changes, field by field.
LEMMA InitFields ==
    ASSUME NEW l, IsLinks(l), NEW h, NEW k, k = List_init(l, h)
    PROVE  /\ IsLinks(k)
           /\ k.next = l.next /\ k.prev = l.prev
           /\ k.first = [l.first EXCEPT ![h] = NULL]
           /\ k.last = [l.last EXCEPT ![h] = NULL]
           /\ k.size = [l.size EXCEPT ![h] = 0]
BY DEF List_init, IsLinks

\* List_insert, field by field, of an item without links.
LEMMA InsertFields ==
    ASSUME NULL \notin Items, NEW l \in Links, NEW h \in Heads, NEW i \in Items,
           NEW p \in Items \cup {NULL}, NEW x \in Items \cup {NULL},
           ~ Linked(l, i), p # i, x # i,
           x = (IF p = NULL THEN l.first[h] ELSE l.next[p]),
           NEW k, k = List_insert(l, h, p, i)
    PROVE  /\ k \in Links
           /\ \A j \in Items : k.prev[j] = IF j = x THEN i ELSE IF j = i THEN p ELSE l.prev[j]
           /\ \A j \in Items : k.next[j] = IF j = i THEN x ELSE IF j = p THEN i ELSE l.next[j]
           /\ k.first[h] = IF p = NULL THEN i ELSE l.first[h]
           /\ k.last[h] = IF x = NULL THEN i ELSE l.last[h]
           /\ k.size[h] = l.size[h] + 1
           /\ \A g \in Heads \ {h} : Untouched(k, l, g)
<1>1. /\ IsLinks(l)
      /\ l.first \in [Heads -> Items \cup {NULL}] /\ l.last \in [Heads -> Items \cup {NULL}]
      /\ l.size \in [Heads -> Int]
      /\ l.prev \in [Items -> Items \cup {NULL}] /\ l.next \in [Items -> Items \cup {NULL}]
  BY FieldsOf
<1>2. IsLinks(k)
  BY <1>1 DEF List_insert, IsLinks
<1>3. k.prev = SetIf([l.prev EXCEPT ![i] = p], x, i)
  BY <1>1 DEF List_insert, IsLinks
<1>4. k.next = IF x = NULL THEN SetIf(l.next, p, i) ELSE [SetIf(l.next, p, i) EXCEPT ![i] = x]
  BY <1>1 DEF List_insert, IsLinks
<1>5. k.first = [l.first EXCEPT ![h] = IF p = NULL THEN i ELSE @]
  BY <1>1 DEF List_insert, IsLinks
<1>6. k.last = [l.last EXCEPT ![h] = IF x = NULL THEN i ELSE @]
  BY <1>1 DEF List_insert, IsLinks
<1>7. k.size = [l.size EXCEPT ![h] = @ + 1]
  BY <1>1 DEF List_insert, IsLinks
<1>8. /\ k.prev \in [Items -> Items \cup {NULL}]
      /\ \A j \in Items : k.prev[j] = IF j = x THEN i ELSE IF j = i THEN p ELSE l.prev[j]
  BY <1>1, <1>3 DEF SetIf
<1>9. /\ k.next \in [Items -> Items \cup {NULL}]
      /\ \A j \in Items : k.next[j] = IF j = i THEN x ELSE IF j = p THEN i ELSE l.next[j]
  BY <1>1, <1>4 DEF SetIf, Linked
<1>10. /\ k.first \in [Heads -> Items \cup {NULL}] /\ k.last \in [Heads -> Items \cup {NULL}]
       /\ k.size \in [Heads -> Int]
  BY <1>1, <1>5, <1>6, <1>7
<1>11. k \in Links
  BY <1>2, <1>8, <1>9, <1>10, IsRecord5
<1>12. /\ k.first[h] = IF p = NULL THEN i ELSE l.first[h]
       /\ k.last[h] = IF x = NULL THEN i ELSE l.last[h]
       /\ k.size[h] = l.size[h] + 1
       /\ \A g \in Heads \ {h} : Untouched(k, l, g)
  BY <1>1, <1>5, <1>6, <1>7 DEF Untouched
<1> QED BY <1>8, <1>9, <1>11, <1>12

\* List_detach, field by field.
LEMMA DetachFields ==
    ASSUME NULL \notin Items, NEW l \in Links, NEW h \in Heads, NEW i \in Items,
           NEW p, p = l.prev[i], NEW x, x = l.next[i], p # i, x # i,
           NEW k, k = List_detach(l, h, i)
    PROVE  /\ k \in Links
           /\ \A j \in Items : k.prev[j] = IF j = i THEN NULL ELSE IF j = x THEN p ELSE l.prev[j]
           /\ \A j \in Items : k.next[j] = IF j = i THEN NULL ELSE IF j = p THEN x ELSE l.next[j]
           /\ k.first[h] = IF i = l.first[h] THEN x ELSE l.first[h]
           /\ k.last[h] = IF i = l.last[h] THEN p ELSE l.last[h]
           /\ k.size[h] = l.size[h] - 1
           /\ \A g \in Heads \ {h} : Untouched(k, l, g)
<1>1. /\ IsLinks(l)
      /\ l.first \in [Heads -> Items \cup {NULL}] /\ l.last \in [Heads -> Items \cup {NULL}]
      /\ l.size \in [Heads -> Int] /\ p \in Items \cup {NULL} /\ x \in Items \cup {NULL}
      /\ l.prev \in [Items -> Items \cup {NULL}] /\ l.next \in [Items -> Items \cup {NULL}]
  BY FieldsOf
<1>2. IsLinks(k)
  BY <1>1 DEF List_detach, IsLinks
<1>3. k.prev = [SetIf(l.prev, x, p) EXCEPT ![i] = NULL]
  BY <1>1 DEF List_detach, IsLinks
<1>4. k.next = [SetIf(l.next, p, x) EXCEPT ![i] = NULL]
  BY <1>1 DEF List_detach, IsLinks
<1>5. k.first = [l.first EXCEPT ![h] = IF i = @ THEN x ELSE @]
  BY <1>1 DEF List_detach, IsLinks
<1>6. k.last = [l.last EXCEPT ![h] = IF i = @ THEN p ELSE @]
  BY <1>1 DEF List_detach, IsLinks
<1>7. k.size = [l.size EXCEPT ![h] = @ - 1]
  BY <1>1 DEF List_detach, IsLinks
<1>8. /\ k.prev \in [Items -> Items \cup {NULL}]
      /\ \A j \in Items : k.prev[j] = IF j = i THEN NULL ELSE IF j = x THEN p ELSE l.prev[j]
  BY <1>1, <1>3 DEF SetIf
<1>9. /\ k.next \in [Items -> Items \cup {NULL}]
      /\ \A j \in Items : k.next[j] = IF j = i THEN NULL ELSE IF j = p THEN x ELSE l.next[j]
  BY <1>1, <1>4 DEF SetIf
<1>10. /\ k.first \in [Heads -> Items \cup {NULL}] /\ k.last \in [Heads -> Items \cup {NULL}]
       /\ k.size \in [Heads -> Int]
  BY <1>1, <1>5, <1>6, <1>7
<1>11. k \in Links
  BY <1>2, <1>8, <1>9, <1>10, IsRecord5
<1>12. /\ k.first[h] = IF i = l.first[h] THEN x ELSE l.first[h]
       /\ k.last[h] = IF i = l.last[h] THEN p ELSE l.last[h]
       /\ k.size[h] = l.size[h] - 1
       /\ \A g \in Heads \ {h} : Untouched(k, l, g)
  BY <1>1, <1>5, <1>6, <1>7 DEF Untouched
<1> QED BY <1>8, <1>9, <1>11, <1>12

\* List_init makes the list empty and touches no link and no other list.
LEMMA InitList ==
    ASSUME NEW l \in Links, NEW h \in Heads, NEW k, k = List_init(l, h)
    PROVE  /\ k \in Links /\ IsList(k, h, <<>>)
           /\ k.next = l.next /\ k.prev = l.prev
           /\ \A g \in Heads \ {h} : Untouched(k, l, g)
<1>1. /\ IsLinks(l)
      /\ l.first \in [Heads -> Items \cup {NULL}] /\ l.last \in [Heads -> Items \cup {NULL}]
      /\ l.size \in [Heads -> Int]
      /\ l.prev \in [Items -> Items \cup {NULL}] /\ l.next \in [Items -> Items \cup {NULL}]
  BY FieldsOf
<1>2. /\ IsLinks(k)
      /\ k.next = l.next /\ k.prev = l.prev
      /\ k.first = [l.first EXCEPT ![h] = NULL]
      /\ k.last = [l.last EXCEPT ![h] = NULL]
      /\ k.size = [l.size EXCEPT ![h] = 0]
  BY <1>1, InitFields
<1>3. k \in Links
  <2>1. /\ k.first \in [Heads -> Items \cup {NULL}] /\ k.last \in [Heads -> Items \cup {NULL}]
        /\ k.size \in [Heads -> Int]
    BY <1>1, <1>2
  <2> QED BY <1>1, <1>2, <2>1, IsRecord5
<1>4. IsList(k, h, <<>>)
  BY <1>1, <1>2, EmptyList DEF IsList
<1> QED BY <1>1, <1>2, <1>3, <1>4 DEF Untouched

\* List_insert of an item without links after the n-th item (0: at the front)
\* puts it there, touches only this list, and keeps both directions in step.
LEMMA InsertInList ==
    ASSUME NULL \notin Items, NEW l \in Links, NEW h \in Heads, NEW c, IsList(l, h, c),
           NEW i \in Items, i \notin ToSet(c), ~ Linked(l, i),
           NEW n \in 0 .. Len(c), NEW p, p = (IF n = 0 THEN NULL ELSE c[n]),
           NEW k, k = List_insert(l, h, p, i)
    PROVE  /\ k \in Links /\ IsList(k, h, InsertAt(c, n + 1, i))
           /\ \A j \in Items : j \notin ToSet(c) \cup {i} =>
                 k.next[j] = l.next[j] /\ k.prev[j] = l.prev[j]
           /\ \A g \in Heads \ {h} : Untouched(k, l, g)
<1> DEFINE d == InsertAt(c, n + 1, i)
           x == IF n = Len(c) THEN NULL ELSE c[n+1]
<1>1. /\ IsLinks(l)
      /\ l.first \in [Heads -> Items \cup {NULL}] /\ l.last \in [Heads -> Items \cup {NULL}]
      /\ l.size \in [Heads -> Int]
      /\ l.prev \in [Items -> Items \cup {NULL}] /\ l.next \in [Items -> Items \cup {NULL}]
  BY FieldsOf
<1>2. /\ c \in Seq(Items) /\ Distinct(c) /\ Len(c) \in Nat
      /\ \A m \in 1 .. Len(c) : c[m] \in Items /\ c[m] # i /\ c[m] # NULL
      /\ \A m, r \in 1 .. Len(c) : c[m] = c[r] => m = r
      /\ c = <<>> <=> Len(c) = 0
  BY ToSetType DEF IsList, Distinct
<1>3. x = IF p = NULL THEN l.first[h] ELSE l.next[p]
  BY <1>2 DEF IsList
<1>4. /\ x \in Items \cup {NULL} /\ x # i /\ p \in Items \cup {NULL} /\ p # i
      /\ p = NULL <=> n = 0
      /\ x = NULL <=> n = Len(c)
  BY <1>2
<1>5. /\ k \in Links
      /\ \A j \in Items : /\ k.prev[j] = IF j = x THEN i ELSE IF j = i THEN p ELSE l.prev[j]
                          /\ k.next[j] = IF j = i THEN x ELSE IF j = p THEN i ELSE l.next[j]
      /\ k.first[h] = IF p = NULL THEN i ELSE l.first[h]
      /\ k.last[h] = IF x = NULL THEN i ELSE l.last[h]
      /\ k.size[h] = l.size[h] + 1
      /\ \A g \in Heads \ {h} : Untouched(k, l, g)
  <2> HIDE DEF x
  <2> QED BY <1>3, <1>4, InsertFields
<1>6. /\ Len(d) = Len(c) + 1 /\ d \in Seq(Items) /\ Distinct(d) /\ d # <<>>
      /\ \A m \in 1 .. Len(c) + 1 :
            d[m] = IF m < n + 1 THEN c[m] ELSE IF m = n + 1 THEN i ELSE c[m-1]
  <2>1. n + 1 \in 1 .. Len(c) + 1
    BY <1>2
  <2>2. /\ DOMAIN d = 1 .. Len(c) + 1
        /\ \A m \in 1 .. Len(c) + 1 :
              d[m] = IF m < n + 1 THEN c[m] ELSE IF m = n + 1 THEN i ELSE c[m-1]
    BY <1>2, <2>1, InsertPlaces
  <2>3. d \in Seq(Items) /\ Distinct(d)
    BY <1>2, <2>1, InsertList
  <2> HIDE DEF d
  <2>4. Len(d) = Len(c) + 1
    BY <1>2, <2>2, <2>3
  <2> QED BY <1>2, <2>2, <2>3, <2>4
<1> HIDE DEF x, d
<1>9. k.first[h] = d[1] /\ k.last[h] = d[Len(d)] /\ k.size[h] = Len(d)
  <2>1. k.first[h] = d[1]
    BY <1>1, <1>2, <1>4, <1>5, <1>6 DEF IsList
  <2>2. k.last[h] = d[Len(d)]
    BY <1>1, <1>2, <1>4, <1>5, <1>6 DEF IsList
  <2>3. k.size[h] = Len(d)
    BY <1>1, <1>5, <1>6 DEF IsList
  <2> QED BY <2>1, <2>2, <2>3
<1>10. ASSUME NEW m \in 1 .. Len(d)
       PROVE  /\ k.next[d[m]] = IF m = Len(d) THEN NULL ELSE d[m+1]
              /\ k.prev[d[m]] = IF m = 1 THEN NULL ELSE d[m-1]
  <2>0. /\ m \in Nat /\ m >= 1 /\ m <= Len(c) + 1 /\ n \in Nat /\ n <= Len(c)
        /\ m # Len(d) => m + 1 \in 1 .. Len(c) + 1
        /\ m # 1 => m - 1 \in 1 .. Len(c) + 1
    BY <1>2, <1>6
  <2>1. CASE m < n + 1
    <3>1. m \in 1 .. Len(c) /\ d[m] = c[m] /\ m # Len(d)
      BY <1>2, <1>6, <2>0, <2>1
    <3>2. k.next[d[m]] = d[m+1]
      <4>1. CASE m = n
        BY <1>2, <1>4, <1>6, <1>5, <2>0, <3>1, <4>1
      <4>2. CASE m < n
        <5>1. c[m] # p /\ l.next[c[m]] = c[m+1] /\ d[m+1] = c[m+1]
          BY <1>2, <1>4, <1>6, <2>0, <3>1, <4>2 DEF IsList
        <5> QED BY <1>2, <1>5, <3>1, <5>1
      <4> QED BY <2>0, <2>1, <4>1, <4>2
    <3>3. k.prev[d[m]] = IF m = 1 THEN NULL ELSE d[m-1]
      <4>1. c[m] # x /\ l.prev[c[m]] = (IF m = 1 THEN NULL ELSE c[m-1])
        BY <1>2, <2>0, <2>1, <3>1 DEF IsList, x
      <4>2. m # 1 => d[m-1] = c[m-1]
        BY <1>6, <2>0, <2>1
      <4> QED BY <1>2, <1>5, <3>1, <4>1, <4>2
    <3> QED BY <3>1, <3>2, <3>3
  <2>2. CASE m = n + 1
    <3>1. d[m] = i
      BY <1>6, <2>0, <2>2
    <3>2. m # Len(d) => d[m+1] = c[n+1]
      BY <1>6, <2>0, <2>2
    <3>3. m # 1 => d[m-1] = c[n]
      BY <1>6, <2>0, <2>2
    <3> QED BY <1>4, <1>6, <1>5, <2>0, <2>2, <3>1, <3>2, <3>3 DEF x
  <2>3. CASE m > n + 1
    <3> DEFINE r == m - 1
    <3>1. r \in 1 .. Len(c) /\ r > n /\ d[m] = c[r] /\ r + 1 = m
      BY <1>2, <1>6, <2>0, <2>3
    <3> HIDE DEF r
    <3>2. k.next[d[m]] = IF m = Len(d) THEN NULL ELSE d[m+1]
      <4>1. c[r] # p /\ l.next[c[r]] = (IF r = Len(c) THEN NULL ELSE c[r+1])
        BY <1>2, <2>0, <3>1 DEF IsList
      <4>2. r # Len(c) => d[m+1] = c[r+1]
        BY <1>6, <2>0, <3>1
      <4> QED BY <1>2, <1>6, <1>5, <2>0, <3>1, <4>1, <4>2
    <3>3. k.prev[d[m]] = IF m = 1 THEN NULL ELSE d[m-1]
      <4>1. CASE r = n + 1
        <5>1. x = c[r] /\ d[m-1] = i /\ m # 1
          BY <1>2, <1>6, <2>0, <3>1, <4>1 DEF x
        <5> QED BY <1>2, <1>5, <3>1, <5>1
      <4>2. CASE r > n + 1
        <5>1. n + 1 \in 1 .. Len(c) /\ n # Len(c) /\ n + 1 # r
          BY <1>2, <2>0, <3>1, <4>2
        <5>2. c[r] # x
          BY <1>2, <3>1, <5>1 DEF x
        <5>3. l.prev[c[r]] = c[r-1]
          BY <1>2, <2>0, <3>1, <4>2 DEF IsList
        <5>4. d[m-1] = c[r-1]
          <6>1. r \in 1 .. Len(c) + 1 /\ r > n + 1 /\ m - 1 = r
            BY <1>2, <2>0, <3>1, <4>2
          <6> QED BY <1>6, <2>0, <6>1
        <5> QED BY <1>2, <1>5, <2>0, <3>1, <5>2, <5>3, <5>4
      <4> QED BY <2>0, <3>1, <4>1, <4>2
    <3> QED BY <3>2, <3>3
  <2> QED BY <2>0, <2>1, <2>2, <2>3
<1>11. IsList(k, h, d)
  BY <1>6, <1>9, <1>10 DEF IsList
<1>12. \A j \in Items : j \notin ToSet(c) \cup {i} =>
          k.next[j] = l.next[j] /\ k.prev[j] = l.prev[j]
  <2>1. (p # NULL => p \in ToSet(c)) /\ (x # NULL => x \in ToSet(c))
    BY <1>2, <1>4, ToSetType DEF x
  <2> QED BY <1>5, <2>1
<1> QED BY <1>5, <1>11, <1>12 DEF d

\* The first item of a list leaves it, without links.
LEMMA DetachFirst ==
    ASSUME NULL \notin Items, NEW l \in Links, NEW h \in Heads, NEW c, IsList(l, h, c),
           c # <<>>, NEW i, i = l.first[h],
           NEW k, k = List_detach(l, h, i)
    PROVE  /\ i = Head(c) /\ i \in Items
           /\ k \in Links /\ IsList(k, h, Tail(c))
           /\ k.next[i] = NULL /\ k.prev[i] = NULL
           /\ \A j \in Items : j \notin ToSet(c) =>
                 k.next[j] = l.next[j] /\ k.prev[j] = l.prev[j]
           /\ \A g \in Heads \ {h} : Untouched(k, l, g)
<1> DEFINE d == Tail(c)
           x == IF Len(c) = 1 THEN NULL ELSE c[2]
<1>1. /\ c \in Seq(Items) /\ Distinct(c) /\ Len(c) \in Nat \ {0}
      /\ \A m \in 1 .. Len(c) : c[m] \in Items /\ c[m] # NULL
      /\ \A m, r \in 1 .. Len(c) : c[m] = c[r] => m = r
      /\ i = c[1] /\ i = Head(c) /\ 1 \in 1 .. Len(c)
      /\ Len(c) # 1 => 2 \in 1 .. Len(c)
  <2>1. /\ c \in Seq(Items) /\ Distinct(c) /\ i = c[1]
    BY DEF IsList
  <2>2. Len(c) \in Nat \ {0} /\ Head(c) = c[1] /\ DOMAIN c = 1 .. Len(c)
    BY <2>1
  <2>3. \A m \in 1 .. Len(c) : c[m] \in Items
    BY <2>1
  <2>4. \A m \in 1 .. Len(c) : c[m] # NULL
    BY <2>3
  <2>5. \A m, r \in 1 .. Len(c) : c[m] = c[r] => m = r
    BY <2>1, <2>2 DEF Distinct
  <2>6. 1 \in 1 .. Len(c) /\ (Len(c) # 1 => 2 \in 1 .. Len(c))
    BY <2>2
  <2> QED BY <2>1, <2>2, <2>3, <2>4, <2>5, <2>6
<1>2. l.prev[i] = NULL /\ l.next[i] = x /\ x # i /\ i # NULL
  <2>1. /\ l.next[c[1]] = IF 1 = Len(c) THEN NULL ELSE c[1+1]
        /\ l.prev[c[1]] = IF 1 = 1 THEN NULL ELSE c[1-1]
    BY <1>1 DEF IsList
  <2> QED BY <1>1, <2>1
<1>3. /\ k \in Links
      /\ \A j \in Items : k.prev[j] = IF j = i THEN NULL ELSE IF j = x THEN NULL ELSE l.prev[j]
      /\ \A j \in Items : k.next[j] = IF j = i THEN NULL ELSE IF j = NULL THEN x ELSE l.next[j]
      /\ k.first[h] = IF i = l.first[h] THEN x ELSE l.first[h]
      /\ k.last[h] = IF i = l.last[h] THEN NULL ELSE l.last[h]
      /\ k.size[h] = l.size[h] - 1
      /\ \A g \in Heads \ {h} : Untouched(k, l, g)
  <2> HIDE DEF x
  <2>1. i \in Items
    BY <1>1
  <2> QED BY <1>2, <2>1, DetachFields
<1>4. /\ d \in Seq(Items) /\ Len(d) = Len(c) - 1
      /\ \A m \in 1 .. Len(d) : d[m] = c[m+1] /\ m + 1 \in 1 .. Len(c)
      /\ d = <<>> <=> Len(c) = 1
  <2>1. d \in Seq(Items) /\ Len(d) = Len(c) - 1 /\ \A m \in 1 .. Len(d) : d[m] = c[m+1]
    BY <1>1
  <2> HIDE DEF d
  <2> QED BY <1>1, <2>1
<1>5. Distinct(d)
  BY <1>1, TailList
<1> HIDE DEF d
<1>6. k.first[h] = (IF d = <<>> THEN NULL ELSE d[1]) /\ k.size[h] = Len(d)
  <2>1. d # <<>> => d[1] = c[2]
    <3>1. d # <<>> => 1 \in 1 .. Len(d) /\ 1 + 1 = 2
      BY <1>1, <1>4
    <3> QED BY <1>4, <3>1
  <2>2. k.size[h] = Len(c) - 1
    BY <1>3 DEF IsList
  <2> QED BY <1>1, <1>3, <1>4, <2>1, <2>2
<1>7. k.last[h] = IF d = <<>> THEN NULL ELSE d[Len(d)]
  <2>1. l.last[h] = c[Len(c)]
    BY DEF IsList
  <2>2. CASE d = <<>>
    BY <1>1, <1>3, <1>4, <2>1, <2>2
  <2>3. CASE d # <<>>
    <3>1. Len(d) \in 1 .. Len(d) /\ Len(d) + 1 = Len(c) /\ Len(c) \in 1 .. Len(c) /\ Len(c) # 1
      BY <1>1, <1>4, <2>3
    <3>2. d[Len(d)] = c[Len(c)] /\ c[Len(c)] # c[1]
      BY <1>1, <1>4, <3>1
    <3> QED BY <1>1, <1>3, <2>1, <2>3, <3>2
  <2> QED BY <2>2, <2>3
<1>8. ASSUME NEW m \in 1 .. Len(d)
      PROVE  /\ k.next[d[m]] = IF m = Len(d) THEN NULL ELSE d[m+1]
             /\ k.prev[d[m]] = IF m = 1 THEN NULL ELSE d[m-1]
  <2> DEFINE r == m + 1
  <2>1. /\ r \in 1 .. Len(c) /\ r # 1 /\ d[m] = c[r] /\ c[r] \in Items
        /\ m = Len(d) <=> r = Len(c)
        /\ m # Len(d) => d[m+1] = c[r+1]
        /\ m # 1 => d[m-1] = c[r-1]
    <3>1. /\ m \in Nat /\ m >= 1 /\ m <= Len(d) /\ r - 1 = m
          /\ m # Len(d) => m + 1 \in 1 .. Len(d)
          /\ m # 1 => m - 1 \in 1 .. Len(d) /\ (m - 1) + 1 = r - 1
      BY <1>1, <1>4
    <3> QED BY <1>1, <1>4, <3>1
  <2> HIDE DEF r
  <2>2. /\ l.next[c[r]] = IF r = Len(c) THEN NULL ELSE c[r+1]
        /\ l.prev[c[r]] = c[r-1]
    BY <2>1 DEF IsList
  <2>3. c[r] # i /\ c[r] # NULL /\ (c[r] = x <=> m = 1)
    <3>1. c[r] # i /\ c[r] # NULL
      BY <1>1, <2>1
    <3>2. m = 1 <=> r = 2
      BY DEF r
    <3>3. Len(c) # 1
      BY <1>1, <2>1
    <3> QED BY <1>1, <2>1, <3>1, <3>2, <3>3
  <2> HIDE DEF x
  <2> QED BY <1>3, <2>1, <2>2, <2>3
<1>9. IsList(k, h, d)
  BY <1>4, <1>5, <1>6, <1>7, <1>8 DEF IsList
<1>10. \A j \in Items : j \notin ToSet(c) =>
          k.next[j] = l.next[j] /\ k.prev[j] = l.prev[j]
  <2>1. i \in ToSet(c) /\ (x # NULL => x \in ToSet(c))
    BY <1>1, ToSetType
  <2> HIDE DEF x
  <2> QED BY <1>3, <2>1
<1>11. i \in Items /\ k.next[i] = NULL /\ k.prev[i] = NULL
  BY <1>1, <1>3
<1> QED BY <1>1, <1>3, <1>9, <1>10, <1>11 DEF d

\* List_insert after the last item, as all queues of the code are filled.
LEMMA AppendToList ==
    ASSUME NULL \notin Items, NEW l \in Links, NEW h \in Heads, NEW c, IsList(l, h, c),
           NEW i \in Items, i \notin ToSet(c), ~ Linked(l, i),
           NEW k, k = List_insert(l, h, l.last[h], i)
    PROVE  /\ k \in Links /\ IsList(k, h, Append(c, i))
           /\ \A j \in Items : j \notin ToSet(c) \cup {i} =>
                 k.next[j] = l.next[j] /\ k.prev[j] = l.prev[j]
           /\ \A g \in Heads \ {h} : Untouched(k, l, g)
<1> DEFINE n == Len(c)
           p == l.last[h]
           d == InsertAt(c, n + 1, i)
<1>1. c \in Seq(Items) /\ n \in Nat /\ n \in 0 .. Len(c) /\ p = IF n = 0 THEN NULL ELSE c[n]
  BY DEF IsList
<1> HIDE DEF n, p
<1>2. d = Append(c, i)
  <2>1. n + 1 \in 1 .. Len(c) + 1 /\ n = Len(c)
    BY <1>1 DEF n
  <2>2. /\ DOMAIN d = 1 .. n + 1
        /\ \A m \in 1 .. n + 1 : d[m] = IF m < n + 1 THEN c[m] ELSE IF m = n + 1 THEN i ELSE c[m-1]
    BY <1>1, <2>1, InsertPlaces
  <2>3. d \in Seq(Items)
    BY <1>1, <2>1, InsertList
  <2> HIDE DEF d
  <2>4. \A m \in 1 .. n + 1 : d[m] = IF m = n + 1 THEN i ELSE c[m]
    BY <1>1, <2>2
  <2>5. Len(d) = n + 1
    BY <1>1, <2>2, <2>3
  <2> QED BY <1>1, <2>1, <2>3, <2>4, <2>5
<1> HIDE DEF d
<1>3. k = List_insert(l, h, p, i)
  BY DEF p
<1>4. /\ k \in Links /\ IsList(k, h, InsertAt(c, n + 1, i))
      /\ \A j \in Items : j \notin ToSet(c) \cup {i} =>
            k.next[j] = l.next[j] /\ k.prev[j] = l.prev[j]
      /\ \A g \in Heads \ {h} : Untouched(k, l, g)
  BY <1>1, <1>3, InsertInList
<1> QED BY <1>2, <1>4 DEF d
-----------------------------------------------------------------------------
IsDetach(iter, l, h, s, n) ==
    iter = [t \in SUBSET (1 .. n) |->
              IF t = {} THEN l
              ELSE List_detach(iter[t \ {Max(t)}], h, s[Max(t)])]

\* Detaching the items of s one after the other is a sequence of lists.
LEMMA DetachExists ==
    ASSUME NEW l, NEW h, NEW s, NEW n \in Nat
    PROVE  \E iter : IsDetach(iter, l, h, s, n)
<1> DEFINE T == {k \in Nat : \E iter : IsDetach(iter, l, h, s, k)}
<1>1. 0 \in T
  <2>1. IsDetach([t \in SUBSET (1 .. 0) |-> l], l, h, s, 0)
    BY DEF IsDetach
  <2> QED BY <2>1
<1>2. ASSUME NEW k \in Nat, k \in T PROVE k + 1 \in T
  <2>1. PICK iter : IsDetach(iter, l, h, s, k)
    BY <1>2
  <2> DEFINE more == [t \in SUBSET (1 .. k + 1) |->
                        IF k + 1 \in t
                          THEN List_detach(iter[t \ {k + 1}], h, s[k + 1])
                          ELSE iter[t]]
  <2>2. ASSUME NEW t \in SUBSET (1 .. k + 1)
        PROVE  more[t] = IF t = {} THEN l
                         ELSE List_detach(more[t \ {Max(t)}], h, s[Max(t)])
    <3>1. CASE k + 1 \in t
      <4>1. Max(t) = k + 1 /\ t \ {k + 1} \in SUBSET (1 .. k + 1) /\ k + 1 \notin t \ {k + 1}
        BY <3>1, MaxOfRange
      <4>2. more[t \ {k + 1}] = iter[t \ {k + 1}]
        BY <4>1
      <4> QED BY <3>1, <4>1, <4>2
    <3>2. CASE k + 1 \notin t
      <4> DEFINE u == t \ {Max(t)}
      <4>1. t \in SUBSET (1 .. k) /\ u \in SUBSET (1 .. k + 1) /\ k + 1 \notin u
        <5>1. \A x \in 1 .. k + 1 : x # k + 1 => x \in 1 .. k
          OBVIOUS
        <5> HIDE DEF more
        <5>2. \A x \in t : x \in 1 .. k
          BY <3>2, <5>1
        <5> QED BY <3>2, <5>2
      <4>2. more[t] = iter[t] /\ more[u] = iter[u]
        BY <3>2, <4>1
      <4> HIDE DEF more
      <4> QED BY <2>1, <4>1, <4>2 DEF IsDetach
    <3> QED BY <3>1, <3>2
  <2>3. IsDetach(more, l, h, s, k + 1)
    <3>1. more = [t \in SUBSET (1 .. k + 1) |-> more[t]]
      OBVIOUS
    <3> HIDE DEF more
    <3> QED BY <2>2, <3>1 DEF IsDetach
  <2> QED BY <2>3
<1>3. \A k \in Nat : k \in T
  <2> HIDE DEF T
  <2> QED BY <1>1, <1>2, Induction
<1> QED BY <1>3

\* A loop that detaches items from the first on leaves the rest of the list.
DetachAll(l, h, s) == FoldLeft(LAMBDA m, i : List_detach(m, h, i), l, s)

\* Detaching the first g items one after the other leaves the rest as a list.
LEMMA DetachPrefix ==
    ASSUME NULL \notin Items, NEW l \in Links, NEW h \in Heads, NEW c, IsList(l, h, c),
           NEW g \in 0 .. Len(c), NEW s, s = SubSeq(c, 1, g),
           NEW k, k = DetachAll(l, h, s)
    PROVE  k \in Links /\ IsList(k, h, SubSeq(c, g + 1, Len(c)))
<1>1. /\ c \in Seq(Items) /\ Len(c) \in Nat /\ g \in Nat
      /\ s \in Seq(Items) /\ Len(s) = g /\ DOMAIN s = 1 .. g
      /\ \A n \in 1 .. g : s[n] = c[n]
  <2>1. c \in Seq(Items) /\ Len(c) \in Nat /\ g \in Nat
    BY DEF IsList
  <2>2. s \in Seq(Items) /\ DOMAIN s = 1 .. g /\ \A n \in 1 .. g : s[n] = c[n]
    BY <2>1, CutPlaces
  <2> QED BY <2>1, <2>2
<1>2. PICK iter : IsDetach(iter, l, h, s, g) /\ k = iter[1 .. g]
  <2> DEFINE P(iter) == iter = [t \in SUBSET (DOMAIN s) |->
                                 IF t = {} THEN l
                                 ELSE List_detach(iter[t \ {Max(t)}], h, s[Max(t)])]
  <2>1. k = (CHOOSE iter : P(iter))[DOMAIN s]
    BY Zenon DEF DetachAll, FoldLeft, MapThenFoldSet
  <2>2. \A iter : P(iter) <=> IsDetach(iter, l, h, s, g)
    BY <1>1 DEF IsDetach
  <2> HIDE DEF P
  <2>3. \E iter : P(iter)
    BY <1>1, <2>2, DetachExists
  <2>4. P(CHOOSE iter : P(iter))
    BY <2>3
  <2> QED BY <1>1, <2>1, <2>2, <2>4
<1> DEFINE Rest(n) == SubSeq(c, n + 1, Len(c))
           T == {n \in Nat : n <= g =>
                   iter[1 .. n] \in Links /\ IsList(iter[1 .. n], h, Rest(n))}
<1>3. \A n \in 0 .. Len(c) :
         /\ Rest(n) \in Seq(Items) /\ Len(Rest(n)) = Len(c) - n
         /\ \A j \in 1 .. Len(c) - n : Rest(n)[j] = c[n + j]
  <2> SUFFICES ASSUME NEW n \in 0 .. Len(c)
               PROVE  /\ Rest(n) \in Seq(Items) /\ Len(Rest(n)) = Len(c) - n
                      /\ \A j \in 1 .. Len(c) - n : Rest(n)[j] = c[n + j]
    OBVIOUS
  <2>1. /\ Rest(n) \in Seq(Items) /\ DOMAIN Rest(n) = 1 .. Len(c) - n
        /\ \A j \in 1 .. Len(c) - n : Rest(n)[j] = c[n + j]
    BY <1>1, CutPlaces
  <2> HIDE DEF Rest
  <2>2. Len(Rest(n)) = Len(c) - n
    BY <1>1, <2>1
  <2> QED BY <2>1, <2>2
<1> HIDE DEF Rest
<1>4. 0 \in T
  <2>1. 1 .. 0 = {} /\ iter[{}] = l
    BY <1>2 DEF IsDetach
  <2>2. Rest(0) = c
    <3>1. /\ Rest(0) \in Seq(Items) /\ Len(Rest(0)) = Len(c)
          /\ \A j \in 1 .. Len(c) : Rest(0)[j] = c[j]
      BY <1>1, <1>3
    <3> QED BY <1>1, <3>1
  <2> QED BY <2>1, <2>2
<1>5. ASSUME NEW n \in Nat, n \in T PROVE n + 1 \in T
  <2> SUFFICES ASSUME n + 1 <= g
               PROVE  iter[1 .. n + 1] \in Links /\ IsList(iter[1 .. n + 1], h, Rest(n + 1))
    OBVIOUS
  <2> DEFINE e == iter[1 .. n]
             i == s[n + 1]
  <2>1. e \in Links /\ IsList(e, h, Rest(n))
    BY <1>1, <1>5
  <2>2. iter[1 .. n + 1] = List_detach(e, h, i)
    <3>1. /\ 1 .. n + 1 \in SUBSET (1 .. g) /\ 1 .. n + 1 # {} /\ n + 1 \in 1 .. n + 1
          /\ (1 .. n + 1) \ {n + 1} = 1 .. n
      <4>1. g \in Nat /\ n + 1 <= g
        BY <1>1
      <4>2. 1 .. n + 1 \in SUBSET (1 .. g)
        BY <4>1
      <4>3. 1 .. n + 1 # {} /\ n + 1 \in 1 .. n + 1
        OBVIOUS
      <4>4. (1 .. n + 1) \ {n + 1} = 1 .. n
        OBVIOUS
      <4> QED BY <4>2, <4>3, <4>4
    <3>2. Max(1 .. n + 1) = n + 1
      BY <3>1, MaxOfRange
    <3> QED BY <1>2, <3>1, <3>2 DEF IsDetach
  <2>3. /\ n \in 0 .. Len(c) /\ n + 1 \in 0 .. Len(c) /\ n + 1 \in 1 .. g
        /\ 1 \in 1 .. Len(c) - n
    BY <1>1
  <2>4. /\ Rest(n) \in Seq(Items) /\ Len(Rest(n)) = Len(c) - n /\ Rest(n) # <<>>
        /\ Rest(n)[1] = i
    BY <1>1, <1>3, <2>3
  <2>5. Tail(Rest(n)) = Rest(n + 1)
    <3>1. /\ Tail(Rest(n)) \in Seq(Items) /\ Len(Tail(Rest(n))) = Len(c) - (n + 1)
          /\ \A j \in 1 .. Len(c) - (n + 1) : Tail(Rest(n))[j] = Rest(n)[j + 1]
      BY <2>4
    <3>2. \A j \in 1 .. Len(c) - (n + 1) :
             Rest(n)[j + 1] = c[(n + 1) + j] /\ Rest(n + 1)[j] = c[(n + 1) + j]
      <4>1. \A j \in 1 .. Len(c) - (n + 1) :
               j + 1 \in 1 .. Len(c) - n /\ n + (j + 1) = (n + 1) + j
        BY <1>1
      <4> QED BY <1>3, <2>3, <4>1
    <3>3. Rest(n + 1) \in Seq(Items) /\ Len(Rest(n + 1)) = Len(c) - (n + 1)
      BY <1>3, <2>3
    <3> QED BY <3>1, <3>2, <3>3
  <2>6. i = e.first[h]
    BY <2>1, <2>4 DEF IsList
  <2> HIDE DEF e, i
  <2>7. /\ List_detach(e, h, i) \in Links
        /\ IsList(List_detach(e, h, i), h, Tail(Rest(n)))
    BY <2>1, <2>4, <2>6, DetachFirst
  <2> QED BY <2>2, <2>5, <2>7
<1>6. g \in T
  <2> HIDE DEF T
  <2> QED BY <1>1, <1>4, <1>5, Induction
<1> QED BY <1>1, <1>2, <1>6 DEF Rest

\* What SelectInSeq gives of the places whose items pass its test.
LEMMA FirstPlace ==
    ASSUME NEW N \in Nat, NEW I \in SUBSET (1 .. N), NEW k,
           k = IF I # {} THEN Min(I) ELSE 0
    PROVE  /\ I = {} => k = 0
           /\ I # {} => k \in I /\ \A i \in I : k <= i
<1>1. I \in SUBSET Nat
  OBVIOUS
<1> QED BY <1>1, MinInSet

\* The links after an item is made anew.
Unlinked(l, i) == [l EXCEPT !.prev[i] = NULL, !.next[i] = NULL]

\* Clearing the links of one item touches no list head and no other item.
LEMMA Unlink ==
    ASSUME NEW l \in Links, NEW i \in Items,
           NEW k, k = Unlinked(l, i)
    PROVE  /\ k \in Links /\ ~ Linked(k, i)
           /\ \A g \in Heads : Untouched(k, l, g)
           /\ \A j \in Items \ {i} : k.next[j] = l.next[j] /\ k.prev[j] = l.prev[j]
<1>1. /\ IsLinks(l)
      /\ l.first \in [Heads -> Items \cup {NULL}] /\ l.last \in [Heads -> Items \cup {NULL}]
      /\ l.size \in [Heads -> Int]
      /\ l.prev \in [Items -> Items \cup {NULL}] /\ l.next \in [Items -> Items \cup {NULL}]
  BY FieldsOf
<1>2. IsLinks(k)
  BY <1>1 DEF Unlinked, IsLinks
<1>3. /\ k.prev = [l.prev EXCEPT ![i] = NULL] /\ k.next = [l.next EXCEPT ![i] = NULL]
      /\ k.first = l.first /\ k.last = l.last /\ k.size = l.size
  BY <1>1 DEF Unlinked, IsLinks
<1>4. k \in Links
  <2>1. /\ k.prev \in [Items -> Items \cup {NULL}] /\ k.next \in [Items -> Items \cup {NULL}]
        /\ k.first \in [Heads -> Items \cup {NULL}] /\ k.last \in [Heads -> Items \cup {NULL}]
        /\ k.size \in [Heads -> Int]
    BY <1>1, <1>3
  <2> QED BY <1>2, <2>1, IsRecord5
<1> QED BY <1>1, <1>3, <1>4 DEF Linked, Untouched
=============================================================================
