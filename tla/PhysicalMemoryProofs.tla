------------------------- MODULE PhysicalMemoryProofs -------------------------
(***************************************************************************)
(* Proofs about PhysicalMemory for every set of threads and handles, every *)
(* choice of the block sizes, every capacity and every purge request.      *)
(***************************************************************************)
EXTENDS PhysicalMemory, TotalsProofs

-----------------------------------------------------------------------------
(* Where a handle is, handle by handle. *)

InLarge(h) == \E c \in kLargeBlockSizes : h \in large_free_[c]
InDoomed(h) == \E t \in Threads : h \in to_destroy[t]

Placed ==
  /\ \A h \in Handles :
       block_size[h] # 0 <=>
         \/ h \in small_free_ \/ h \in small_held
         \/ InLarge(h) \/ h \in large_held \/ InDoomed(h)
  /\ \A h \in Handles :
       /\ h \in small_free_ =>
            ~ (h \in small_held \/ InLarge(h) \/ h \in large_held \/ InDoomed(h))
       /\ h \in small_held => ~ (InLarge(h) \/ h \in large_held \/ InDoomed(h))
       /\ InLarge(h) => ~ (h \in large_held \/ InDoomed(h))
       /\ h \in large_held => ~ InDoomed(h)
  /\ \A s, t \in Threads : s # t =>
       \A h \in Handles : h \in to_destroy[s] => h \notin to_destroy[t]

LEMMA PlacedIsOneOwner == TypeOK /\ Placed => OneOwner
<1> SUFFICES ASSUME TypeOK, Placed PROVE OneOwner OBVIOUS
<1>1. /\ \A h : h \in LargeCached <=> h \in Handles /\ InLarge(h)
      /\ \A h : h \in Doomed <=> h \in Handles /\ InDoomed(h)
      /\ \A h : h \in created <=> h \in Handles /\ block_size[h] # 0
  BY DEF TypeOK, LargeCached, Doomed, created, InLarge, InDoomed
<1>2. /\ \A s \in Threads : \A h \in to_destroy[s] : h \in Handles
      /\ \A h : h \in small_free_ \/ h \in small_held \/ h \in large_held => h \in Handles
  BY DEF TypeOK
<1>3. \A s, t \in Threads : s # t => to_destroy[s] \intersect to_destroy[t] = {}
  BY <1>2 DEF Placed
<1> HIDE DEF InLarge, InDoomed
<1>4. created = small_free_ \union small_held \union LargeCached
                  \union large_held \union Doomed
  BY <1>1, <1>2 DEF Placed
<1>5. /\ small_free_ \intersect (small_held \union LargeCached \union large_held
                                   \union Doomed) = {}
      /\ small_held \intersect (LargeCached \union large_held \union Doomed) = {}
      /\ LargeCached \intersect (large_held \union Doomed) = {}
      /\ large_held \intersect Doomed = {}
  BY <1>1, <1>2 DEF Placed
<1>q. QED BY <1>3, <1>4, <1>5 DEF OneOwner

(* What is inductive: the types, the places, and the sizes of the blocks   *)
(* of a pool, which say where freeLargeBlock files a block.                *)
BlocksInv == TypeOK /\ Placed /\ PoolsIsolated

LEMMA InitBlocks == Init => BlocksInv
  BY DEF Init, BlocksInv, TypeOK, Placed, PoolsIsolated, InLarge, InDoomed

LEMMA NextBlocks == BlocksInv /\ [Next]_vars => BlocksInv'
<1> SUFFICES ASSUME BlocksInv, [Next]_vars PROVE BlocksInv' OBVIOUS
<1> USE SizesAssumption DEF BlocksInv, TypeOK, Placed, PoolsIsolated, InLarge, InDoomed
<1>1. ASSUME NEW h \in Handles, allocSmallBlock(h) PROVE BlocksInv'
  BY <1>1 DEF allocSmallBlock, createBlock, created
<1>2. ASSUME NEW h \in Handles, freeSmallBlock(h) PROVE BlocksInv'
  BY <1>2 DEF freeSmallBlock
<1>3. ASSUME NEW h \in Handles, NEW c \in kLargeBlockSizes, allocLargeBlock(c, h)
      PROVE  BlocksInv'
  BY <1>3 DEF allocLargeBlock, createBlock, created
<1>4. ASSUME NEW h \in Handles, freeLargeBlock(h) PROVE BlocksInv'
  BY <1>4 DEF freeLargeBlock
<1>5. ASSUME NEW t \in Threads, NEW n \in PurgeSizes, PurgeCollect(t, n) PROVE BlocksInv'
  BY <1>5 DEF PurgeCollect, LargeCached
<1>6. ASSUME NEW t \in Threads, NEW h \in Handles, PurgeRelease(t, h) PROVE BlocksInv'
  BY <1>6 DEF PurgeRelease
<1>7. CASE trim
  BY <1>7 DEF trim, LargeCached
<1>8. CASE UNCHANGED vars
  BY <1>8 DEF vars, blocks
<1>q. QED BY <1>1, <1>2, <1>3, <1>4, <1>5, <1>6, <1>7, <1>8 DEF Next

(* Every handle the driver holds is in a free list, with one caller or     *)
(* among the victims of one purge, never in two of these places, although  *)
(* purge gives its victims back to the driver after unlocking.             *)
THEOREM OneOwnerHolds == Spec => []OneOwner
<1>1. BlocksInv => OneOwner
  BY PlacedIsOneOwner DEF BlocksInv
<1>q. QED BY <1>1, InitBlocks, NextBlocks, PTL DEF Spec

(* The free lists, the blocks handed out and the victims of purge stay     *)
(* sets of handles, filed under the sizes there are.                       *)
THEOREM TypeCorrect == Spec => []TypeOK
<1>1. BlocksInv => TypeOK
  BY DEF BlocksInv
<1>q. QED BY <1>1, InitBlocks, NextBlocks, PTL DEF Spec

(* A block never leaves the pool and the size class it was created for.    *)
THEOREM PoolsIsolatedHolds == Spec => []PoolsIsolated
<1>1. BlocksInv => PoolsIsolated
  BY DEF BlocksInv
<1>q. QED BY <1>1, InitBlocks, NextBlocks, PTL DEF Spec

-----------------------------------------------------------------------------
(* AccountingExact *)

SizesTotal(size, S) == Total([h \in S |-> size[h]])

LEMMA SizesEmpty == ASSUME NEW size PROVE SizesTotal(size, {}) = 0
<1>1. DOMAIN [h \in {} |-> size[h]] = {}
  OBVIOUS
<1>q. QED BY <1>1, TotalEmpty DEF SizesTotal

LEMMA SizesNat ==
  ASSUME NEW size \in [Handles -> Nat], NEW S \in SUBSET Handles, IsFiniteSet(S)
  PROVE  IsFiniteMap([h \in S |-> size[h]]) /\ SizesTotal(size, S) \in Nat
<1> DEFINE f == [h \in S |-> size[h]]
<1>1. IsFiniteMap(f)
  BY DEF IsFiniteMap
<1>q. QED BY <1>1, TotalNat DEF SizesTotal

(* Only the sizes of the blocks of S count. *)
LEMMA SizesSame ==
  ASSUME NEW size \in [Handles -> Nat], NEW new \in [Handles -> Nat],
         NEW S \in SUBSET Handles, \A h \in S : new[h] = size[h]
  PROVE  SizesTotal(new, S) = SizesTotal(size, S)
<1>1. [h \in S |-> new[h]] = [h \in S |-> size[h]]
  OBVIOUS
<1>q. QED BY <1>1 DEF SizesTotal

LEMMA SizesAdd ==
  ASSUME NEW size \in [Handles -> Nat], NEW S \in SUBSET Handles, IsFiniteSet(S),
         NEW h \in Handles, h \notin S
  PROVE  /\ IsFiniteSet(S \union {h})
         /\ SizesTotal(size, S \union {h}) = SizesTotal(size, S) + size[h]
<1> DEFINE f == [x \in S |-> size[x]]
           g == [x \in S \union {h} |-> size[x]]
<1>1. IsFiniteMap(f)
  BY SizesNat
<1>2. /\ h \notin DOMAIN f /\ g[h] = size[h] /\ g[h] \in Nat
      /\ DOMAIN g = DOMAIN f \union {h} /\ \A x \in DOMAIN f : g[x] = f[x]
  OBVIOUS
<1> HIDE DEF f, g
<1>3. Total(g) = Total(f) + size[h]
  BY <1>1, <1>2, TotalAdd
<1>4. IsFiniteSet(S \union {h})
  BY FS_AddElement
<1>q. QED BY <1>3, <1>4 DEF SizesTotal, f, g

LEMMA SizesSplit ==
  ASSUME NEW size \in [Handles -> Nat], NEW S \in SUBSET Handles, IsFiniteSet(S),
         NEW D \in SUBSET S
  PROVE  /\ IsFiniteSet(S \ D)
         /\ SizesTotal(size, S \ D) = SizesTotal(size, S) - SizesTotal(size, D)
<1> DEFINE f == [x \in S |-> size[x]]
           g == [x \in D |-> f[x]]
           k == [x \in DOMAIN f \ D |-> f[x]]
<1>1. IsFiniteMap(f) /\ D \subseteq DOMAIN f
  BY SizesNat
<1>2. g = [x \in D |-> size[x]] /\ k = [x \in S \ D |-> size[x]]
  OBVIOUS
<1>3. IsFiniteMap(g) /\ IsFiniteMap(k) /\ Total(f) = Total(g) + Total(k)
  BY <1>1, TotalSplit
<1> HIDE DEF f, g, k
<1>4. Total(g) \in Nat /\ Total(k) \in Nat
  BY <1>3, TotalNat
<1>5. Total(k) = Total(f) - Total(g)
  BY <1>3, <1>4
<1>6. IsFiniteSet(S \ D)
  BY FS_Difference
<1>q. QED BY <1>2, <1>5, <1>6 DEF SizesTotal, f

LEMMA SizesRemove ==
  ASSUME NEW size \in [Handles -> Nat], NEW S \in SUBSET Handles, IsFiniteSet(S), NEW h \in S
  PROVE  /\ IsFiniteSet(S \ {h})
         /\ SizesTotal(size, S \ {h}) = SizesTotal(size, S) - size[h]
<1> DEFINE rest == S \ {h}
<1>1. IsFiniteSet(rest) /\ rest \in SUBSET Handles /\ h \notin rest /\ h \in Handles
  BY FS_RemoveElement
<1>2. rest \union {h} = S
  OBVIOUS
<1> HIDE DEF rest
<1>3. SizesTotal(size, S) = SizesTotal(size, rest) + size[h]
  BY <1>1, <1>2, SizesAdd
<1>4. SizesTotal(size, rest) \in Nat /\ size[h] \in Nat
  BY <1>1, SizesNat
<1>5. SizesTotal(size, rest) = SizesTotal(size, S) - size[h]
  BY <1>3, <1>4
<1>q. QED BY <1>1, <1>5 DEF rest

(* One pool: what it has out and what it keeps, and their two counters.    *)
Exact(size, held, free, in_use, cached) ==
  /\ IsFiniteSet(held) /\ IsFiniteSet(free)
  /\ in_use = SizesTotal(size, held) /\ cached = SizesTotal(size, free)

CountInv ==
  /\ Exact(block_size, small_held, small_free_, small_in_use_bytes_, small_cached_bytes_)
  /\ Exact(block_size, large_held, LargeCached, large_in_use_bytes_, large_cached_bytes_)

LEMMA CountIsExact == CountInv => AccountingExact
  BY DEF CountInv, Exact, AccountingExact, Bytes, SizesTotal

LEMMA ExactFrame ==
  ASSUME NEW size \in [Handles -> Nat], NEW new \in [Handles -> Nat],
         NEW held \in SUBSET Handles, NEW free \in SUBSET Handles, NEW in_use, NEW cached,
         Exact(size, held, free, in_use, cached),
         \A h \in held \union free : new[h] = size[h]
  PROVE  Exact(new, held, free, in_use, cached)
  BY SizesSame DEF Exact

(* A block handed out, a cached one or a new one, and one given back.      *)
LEMMA ExactAlloc ==
  ASSUME NEW size \in [Handles -> Nat], NEW new \in [Handles -> Nat],
         NEW held \in SUBSET Handles, NEW free \in SUBSET Handles, NEW in_use, NEW cached,
         Exact(size, held, free, in_use, cached), NEW h \in Handles, h \notin held,
         \A x \in held \union free : new[x] = size[x]
  PROVE  /\ h \in free => Exact(new, held \union {h}, free \ {h}, in_use + new[h], cached - new[h])
         /\ Exact(new, held \union {h}, free, in_use + new[h], cached)
<1>1. Exact(new, held, free, in_use, cached)
  BY ExactFrame
<1>2. /\ IsFiniteSet(held \union {h})
      /\ SizesTotal(new, held \union {h}) = SizesTotal(new, held) + new[h]
  BY <1>1, SizesAdd DEF Exact
<1>3. ASSUME h \in free
      PROVE  /\ IsFiniteSet(free \ {h})
             /\ SizesTotal(new, free \ {h}) = SizesTotal(new, free) - new[h]
  BY <1>1, <1>3, SizesRemove DEF Exact
<1>q. QED BY <1>1, <1>2, <1>3 DEF Exact

LEMMA ExactFree ==
  ASSUME NEW size \in [Handles -> Nat],
         NEW held \in SUBSET Handles, NEW free \in SUBSET Handles, NEW in_use, NEW cached,
         Exact(size, held, free, in_use, cached), NEW h \in held, h \notin free
  PROVE  Exact(size, held \ {h}, free \union {h}, in_use - size[h], cached + size[h])
  BY SizesAdd, SizesRemove DEF Exact

LEMMA ExactPurge ==
  ASSUME NEW size \in [Handles -> Nat],
         NEW held \in SUBSET Handles, NEW free \in SUBSET Handles, NEW in_use, NEW cached,
         Exact(size, held, free, in_use, cached), NEW D \in SUBSET free
  PROVE  Exact(size, held, free \ D, in_use, cached - SizesTotal(size, D))
  BY SizesSplit DEF Exact
LEMMA LargeCachedIn == TypeOK => LargeCached \subseteq Handles
  BY DEF TypeOK, LargeCached

(* Where the blocks are, in terms of LargeCached. *)
LEMMA Apart ==
  ASSUME BlocksInv
  PROVE  /\ small_held \in SUBSET Handles /\ small_free_ \in SUBSET Handles
         /\ large_held \in SUBSET Handles /\ LargeCached \in SUBSET Handles
         /\ block_size \in [Handles -> Nat]
         /\ \A h \in Handles : block_size[h] = 0 =>
              /\ h \notin small_held /\ h \notin small_free_
              /\ h \notin large_held /\ h \notin LargeCached
         /\ \A h \in small_held : h \notin small_free_
         /\ \A h \in large_held : h \notin LargeCached
         /\ \A h \in small_held \union small_free_ : h \notin large_held /\ h \notin LargeCached
         /\ \A t \in Threads : \A h \in to_destroy[t] :
              /\ h \notin small_held /\ h \notin small_free_
              /\ h \notin large_held /\ h \notin LargeCached
<1>1. LargeCached \in SUBSET Handles /\ \A h : h \in LargeCached <=> InLarge(h)
  BY DEF BlocksInv, TypeOK, LargeCached, InLarge
<1>2. \A t \in Threads : \A h \in to_destroy[t] : h \in Handles /\ InDoomed(h)
  BY DEF BlocksInv, TypeOK, InDoomed
<1>3. /\ small_held \in SUBSET Handles /\ small_free_ \in SUBSET Handles
      /\ large_held \in SUBSET Handles /\ block_size \in [Handles -> Nat]
  BY DEF BlocksInv, TypeOK
<1> HIDE DEF InLarge, InDoomed
<1>q. QED BY <1>1, <1>2, <1>3 DEF BlocksInv, Placed

LEMMA Created ==
  ASSUME BlocksInv, NEW h \in Handles, NEW size \in Nat, createBlock(h, size)
  PROVE  /\ block_size[h] = 0 /\ block_size' \in [Handles -> Nat] /\ block_size'[h] = size
         /\ \A x \in Handles : x # h => block_size'[x] = block_size[x]
  BY DEF BlocksInv, TypeOK, createBlock, created

LEMMA LargeCachedChanges ==
  ASSUME TypeOK
  PROVE  /\ \A c \in kLargeBlockSizes, h \in Handles :
              /\ large_free_' = [large_free_ EXCEPT ![c] = @ \ {h}] /\ h \in large_free_[c]
                   /\ (\A b \in kLargeBlockSizes : b # c => h \notin large_free_[b])
                 => LargeCached' = LargeCached \ {h}
              /\ large_free_' = [large_free_ EXCEPT ![c] = @ \union {h}]
                 => LargeCached' = LargeCached \union {h}
         /\ \A D : large_free_' = [c \in kLargeBlockSizes |-> large_free_[c] \ D]
                   => LargeCached' = LargeCached \ D
         /\ large_free_' = large_free_ => LargeCached' = LargeCached
         /\ large_free_' = [c \in kLargeBlockSizes |-> {}] => LargeCached' = {}
<1> USE DEF TypeOK, LargeCached
<1>1. ASSUME NEW c \in kLargeBlockSizes, NEW h \in Handles,
             large_free_' = [large_free_ EXCEPT ![c] = @ \ {h}], h \in large_free_[c],
             \A b \in kLargeBlockSizes : b # c => h \notin large_free_[b]
      PROVE  LargeCached' = LargeCached \ {h}
  <2>1. \A b \in kLargeBlockSizes : large_free_'[b] = large_free_[b] \ {h}
    BY <1>1
  <2>q. QED BY <2>1
<1>2. ASSUME NEW c \in kLargeBlockSizes, NEW h \in Handles,
             large_free_' = [large_free_ EXCEPT ![c] = @ \union {h}]
      PROVE  LargeCached' = LargeCached \union {h}
  <2>1. /\ \A b \in kLargeBlockSizes : b # c => large_free_'[b] = large_free_[b]
        /\ large_free_'[c] = large_free_[c] \union {h}
    BY <1>2
  <2>q. QED BY <2>1
<1>3. ASSUME NEW D, large_free_' = [c \in kLargeBlockSizes |-> large_free_[c] \ D]
      PROVE  LargeCached' = LargeCached \ D
  BY <1>3
<1>q. QED BY <1>1, <1>2, <1>3

LEMMA AllocSmallCounts ==
  ASSUME BlocksInv, CountInv, NEW h \in Handles, allocSmallBlock(h)
  PROVE  CountInv'
<1>1. /\ small_held' = small_held \union {h}
      /\ small_in_use_bytes_' = small_in_use_bytes_ + block_size'[h]
      /\ UNCHANGED <<large_held, large_bytes>> /\ LargeCached' = LargeCached
  BY LargeCachedChanges DEF allocSmallBlock, BlocksInv
<1>2. CASE /\ h \in small_free_ /\ small_free_' = small_free_ \ {h}
           /\ small_cached_bytes_' = small_cached_bytes_ - block_size[h]
           /\ UNCHANGED block_size
  <2>1. h \notin small_held
    BY <1>2, Apart
  <2>2. Exact(block_size, small_held \union {h}, small_free_ \ {h},
              small_in_use_bytes_ + block_size[h], small_cached_bytes_ - block_size[h])
    BY <1>2, <2>1, Apart, ExactAlloc DEF CountInv
  <2>q. QED BY <1>1, <1>2, <2>2 DEF CountInv, large_bytes
<1>3. CASE createBlock(h, kSmallBlockSize) /\ UNCHANGED <<small_free_, small_cached_bytes_>>
  <2>1. /\ block_size[h] = 0 /\ block_size' \in [Handles -> Nat]
        /\ \A x \in Handles : x # h => block_size'[x] = block_size[x]
    BY <1>3, Created, SizesAssumption
  <2>2. /\ h \notin small_held /\ h \notin small_free_
        /\ h \notin large_held /\ h \notin LargeCached
    BY <2>1, Apart
  <2>3. Exact(block_size', small_held \union {h}, small_free_,
              small_in_use_bytes_ + block_size'[h], small_cached_bytes_)
    BY <2>1, <2>2, Apart, ExactAlloc DEF CountInv
  <2>4. Exact(block_size', large_held, LargeCached, large_in_use_bytes_, large_cached_bytes_)
    BY <2>1, <2>2, Apart, ExactFrame DEF CountInv
  <2>q. QED BY <1>1, <1>3, <2>3, <2>4 DEF CountInv, large_bytes
<1>q. QED BY <1>2, <1>3 DEF allocSmallBlock

LEMMA AllocLargeCounts ==
  ASSUME BlocksInv, CountInv, NEW h \in Handles, NEW c \in kLargeBlockSizes, allocLargeBlock(c, h)
  PROVE  CountInv'
<1>1. /\ large_held' = large_held \union {h}
      /\ large_in_use_bytes_' = large_in_use_bytes_ + block_size'[h]
      /\ UNCHANGED <<small_free_, small_held, small_bytes>>
  BY DEF allocLargeBlock
<1>2. CASE /\ h \in large_free_[c] /\ large_free_' = [large_free_ EXCEPT ![c] = @ \ {h}]
           /\ large_cached_bytes_' = large_cached_bytes_ - block_size[h]
           /\ UNCHANGED block_size
  <2>1. h \in LargeCached
    BY <1>2 DEF LargeCached
  <2>2. \A b \in kLargeBlockSizes : b # c => h \notin large_free_[b]
    BY <1>2 DEF BlocksInv, PoolsIsolated
  <2>3. LargeCached' = LargeCached \ {h}
    BY <1>2, <2>2, LargeCachedChanges DEF BlocksInv
  <2>4. h \notin large_held
    BY <2>1, Apart
  <2>5. Exact(block_size, large_held \union {h}, LargeCached \ {h},
              large_in_use_bytes_ + block_size[h], large_cached_bytes_ - block_size[h])
    BY <2>1, <2>4, Apart, ExactAlloc DEF CountInv
  <2>q. QED BY <1>1, <1>2, <2>3, <2>5 DEF CountInv, small_bytes
<1>3. CASE createBlock(h, c) /\ UNCHANGED <<large_free_, large_cached_bytes_>>
  <2>1. /\ block_size[h] = 0 /\ block_size' \in [Handles -> Nat]
        /\ \A x \in Handles : x # h => block_size'[x] = block_size[x]
    BY <1>3, Created, SizesAssumption
  <2>2. /\ h \notin small_held /\ h \notin small_free_
        /\ h \notin large_held /\ h \notin LargeCached
    BY <2>1, Apart
  <2>3. Exact(block_size', large_held \union {h}, LargeCached,
              large_in_use_bytes_ + block_size'[h], large_cached_bytes_)
    BY <2>1, <2>2, Apart, ExactAlloc DEF CountInv
  <2>4. Exact(block_size', small_held, small_free_, small_in_use_bytes_, small_cached_bytes_)
    BY <2>1, <2>2, Apart, ExactFrame DEF CountInv
  <2>5. LargeCached' = LargeCached
    BY <1>3, LargeCachedChanges DEF BlocksInv
  <2>q. QED BY <1>1, <1>3, <2>3, <2>4, <2>5 DEF CountInv, small_bytes
<1>q. QED BY <1>2, <1>3 DEF allocLargeBlock

LEMMA FreeCounts ==
  ASSUME BlocksInv, CountInv, NEW h \in Handles, freeSmallBlock(h) \/ freeLargeBlock(h)
  PROVE  CountInv'
<1>1. CASE freeSmallBlock(h)
  <2>1. /\ h \in small_held /\ small_held' = small_held \ {h} /\ small_free_' = small_free_ \union {h}
        /\ small_in_use_bytes_' = small_in_use_bytes_ - block_size[h]
        /\ small_cached_bytes_' = small_cached_bytes_ + block_size[h]
        /\ UNCHANGED <<block_size, large_held, large_bytes>> /\ LargeCached' = LargeCached
    BY <1>1, LargeCachedChanges DEF freeSmallBlock, BlocksInv
  <2>2. h \notin small_free_
    BY <2>1, Apart
  <2>3. Exact(block_size, small_held \ {h}, small_free_ \union {h},
              small_in_use_bytes_ - block_size[h], small_cached_bytes_ + block_size[h])
    BY <2>1, <2>2, Apart, ExactFree DEF CountInv
  <2>q. QED BY <2>1, <2>3 DEF CountInv, large_bytes
<1>2. CASE freeLargeBlock(h)
  <2>1. /\ h \in large_held /\ large_held' = large_held \ {h}
        /\ large_free_' = [large_free_ EXCEPT ![block_size[h]] = @ \union {h}]
        /\ large_in_use_bytes_' = large_in_use_bytes_ - block_size[h]
        /\ large_cached_bytes_' = large_cached_bytes_ + block_size[h]
        /\ UNCHANGED <<block_size, small_held, small_free_, small_bytes>>
    BY <1>2 DEF freeLargeBlock
  <2>2. h \notin LargeCached /\ block_size[h] \in kLargeBlockSizes
    BY <2>1, Apart DEF BlocksInv, PoolsIsolated
  <2>3. LargeCached' = LargeCached \union {h}
    BY <2>1, <2>2, LargeCachedChanges DEF BlocksInv
  <2>4. Exact(block_size, large_held \ {h}, LargeCached \union {h},
              large_in_use_bytes_ - block_size[h], large_cached_bytes_ + block_size[h])
    BY <2>1, <2>2, Apart, ExactFree DEF CountInv
  <2>q. QED BY <2>1, <2>3, <2>4 DEF CountInv, small_bytes
<1>q. QED BY <1>1, <1>2

LEMMA PurgeCounts ==
  ASSUME BlocksInv, CountInv, NEW t \in Threads, NEW n \in PurgeSizes, PurgeCollect(t, n)
  PROVE  CountInv'
<1>1. PICK D \in SUBSET (LargeCached \union small_free_) :
        /\ large_free_' = [c \in kLargeBlockSizes |-> large_free_[c] \ D]
        /\ small_free_' = small_free_ \ D
        /\ large_cached_bytes_' = large_cached_bytes_ - Bytes(D \ small_free_)
        /\ small_cached_bytes_' = small_cached_bytes_ - Bytes(D \intersect small_free_)
  BY DEF PurgeCollect
<1>2. /\ UNCHANGED <<block_size, small_held, large_held, small_in_use_bytes_, large_in_use_bytes_>>
      /\ LargeCached' = LargeCached \ D
  BY <1>1, LargeCachedChanges DEF PurgeCollect, BlocksInv
<1> DEFINE L == D \ small_free_
           S == D \intersect small_free_
<1>3. /\ L \in SUBSET LargeCached /\ S \in SUBSET small_free_
      /\ small_free_ \ D = small_free_ \ S
      /\ LargeCached \ D = LargeCached \ L
  BY Apart
<1>4. /\ large_cached_bytes_' = large_cached_bytes_ - SizesTotal(block_size, L)
      /\ small_cached_bytes_' = small_cached_bytes_ - SizesTotal(block_size, S)
  BY <1>1 DEF Bytes, SizesTotal
<1> HIDE DEF L, S
<1>5. Exact(block_size, small_held, small_free_ \ S, small_in_use_bytes_,
            small_cached_bytes_ - SizesTotal(block_size, S))
  BY <1>3, Apart, ExactPurge DEF CountInv
<1>6. Exact(block_size, large_held, LargeCached \ L, large_in_use_bytes_,
            large_cached_bytes_ - SizesTotal(block_size, L))
  BY <1>3, Apart, ExactPurge DEF CountInv
<1>q. QED BY <1>1, <1>2, <1>3, <1>4, <1>5, <1>6 DEF CountInv

LEMMA ReleaseCounts ==
  ASSUME BlocksInv, CountInv, NEW t \in Threads, NEW h \in Handles, PurgeRelease(t, h)
  PROVE  CountInv'
<1>1. /\ h \in to_destroy[t] /\ block_size' = [block_size EXCEPT ![h] = 0]
      /\ UNCHANGED <<small_free_, small_held, large_held, small_bytes, large_bytes>>
      /\ LargeCached' = LargeCached
  BY LargeCachedChanges DEF PurgeRelease, BlocksInv
<1>2. /\ block_size' \in [Handles -> Nat]
      /\ \A x \in Handles : x # h => block_size'[x] = block_size[x]
  BY <1>1, Apart
<1>3. /\ h \notin small_held /\ h \notin small_free_
      /\ h \notin large_held /\ h \notin LargeCached
  BY <1>1, Apart
<1>4. /\ Exact(block_size', small_held, small_free_, small_in_use_bytes_, small_cached_bytes_)
      /\ Exact(block_size', large_held, LargeCached, large_in_use_bytes_, large_cached_bytes_)
  BY <1>2, <1>3, Apart, ExactFrame DEF CountInv
<1>q. QED BY <1>1, <1>4 DEF CountInv, small_bytes, large_bytes

LEMMA TrimCounts == ASSUME BlocksInv, CountInv, trim PROVE CountInv'
<1>1. /\ block_size' = [h \in Handles |->
           IF h \in LargeCached \union small_free_ THEN 0 ELSE block_size[h]]
      /\ small_free_' = {} /\ small_cached_bytes_' = 0 /\ large_cached_bytes_' = 0
      /\ UNCHANGED <<small_held, large_held, small_in_use_bytes_, large_in_use_bytes_>>
      /\ LargeCached' = {}
  BY LargeCachedChanges DEF trim, BlocksInv
<1>2. /\ block_size' \in [Handles -> Nat]
      /\ \A h \in small_held \union large_held : block_size'[h] = block_size[h]
  BY <1>1, Apart
<1>3. /\ SizesTotal(block_size', small_held) = SizesTotal(block_size, small_held)
      /\ SizesTotal(block_size', large_held) = SizesTotal(block_size, large_held)
  BY <1>2, Apart, SizesSame
<1>q. QED BY <1>1, <1>3, SizesEmpty, FS_EmptySet DEF CountInv, Exact

LEMMA InitCounts == Init => CountInv
<1>1. Init => LargeCached = {}
  BY DEF Init, LargeCached
<1>q. QED BY <1>1, SizesEmpty, FS_EmptySet DEF Init, CountInv, Exact

LEMMA NextCounts == BlocksInv /\ CountInv /\ [Next]_vars => CountInv'
<1> SUFFICES ASSUME BlocksInv, CountInv, [Next]_vars PROVE CountInv' OBVIOUS
<1>1. CASE UNCHANGED vars
  BY <1>1 DEF vars, blocks, small_bytes, large_bytes, CountInv, LargeCached
<1>q. QED
  BY <1>1, AllocSmallCounts, AllocLargeCounts, FreeCounts, PurgeCounts, ReleaseCounts, TrimCounts
     DEF Next

(* The four counters of getDeviceStats are the bytes of the blocks they    *)
(* stand for, so none of the subtractions of free, purge and trim wraps,   *)
(* in whatever order threads purge, trim, allocate and free.               *)
THEOREM AccountingExactHolds == Spec => []AccountingExact
<1>1. BlocksInv /\ CountInv => AccountingExact
  BY CountIsExact
<1>2. BlocksInv /\ CountInv /\ [Next]_vars => (BlocksInv /\ CountInv)'
  BY NextBlocks, NextCounts
<1>q. QED BY <1>1, <1>2, InitBlocks, InitCounts, PTL DEF Spec

-----------------------------------------------------------------------------
(* PurgeMinimal *)

(* Taking more of the blocks of at least s bytes, and all others of at     *)
(* most s, a set of as many blocks cannot have more bytes: what E has      *)
(* beyond D is at most s bytes a block, and what D has beyond E at least.  *)
LEMMA LargestFirst ==
  ASSUME NEW size \in [Handles -> Nat], NEW S \in SUBSET Handles, IsFiniteSet(S),
         NEW D \in SUBSET S, NEW E \in SUBSET S, NEW s \in Nat,
         \A h \in D : size[h] >= s, \A h \in S \ D : size[h] <= s,
         Cardinality(E) <= Cardinality(D)
  PROVE  SizesTotal(size, E) <= SizesTotal(size, D)
<1> DEFINE C == D \intersect E
           X == E \ D
           Y == D \ E
<1>1. /\ C \in SUBSET D /\ C \in SUBSET E /\ D \ C = Y /\ E \ C = X
      /\ D \in SUBSET Handles /\ E \in SUBSET Handles
      /\ X \in SUBSET Handles /\ Y \in SUBSET Handles
  OBVIOUS
<1>2. IsFiniteSet(D) /\ IsFiniteSet(E) /\ IsFiniteSet(C) /\ IsFiniteSet(X) /\ IsFiniteSet(Y)
  BY FS_Subset
<1>3. (\A h \in X : size[h] <= s) /\ (\A h \in Y : size[h] >= s)
  OBVIOUS
<1> HIDE DEF C, X, Y
<1>4. /\ SizesTotal(size, Y) = SizesTotal(size, D) - SizesTotal(size, C)
      /\ SizesTotal(size, X) = SizesTotal(size, E) - SizesTotal(size, C)
  BY <1>1, <1>2, SizesSplit
<1>5. /\ SizesTotal(size, C) \in Nat /\ SizesTotal(size, D) \in Nat /\ SizesTotal(size, E) \in Nat
      /\ SizesTotal(size, X) \in Nat /\ SizesTotal(size, Y) \in Nat
  <2>1. C \in SUBSET Handles
    BY <1>1
  <2>q. QED BY <1>1, <1>2, <2>1, SizesNat
<1>6. Cardinality(X) <= Cardinality(Y) /\ Cardinality(X) \in Nat /\ Cardinality(Y) \in Nat
  <2>1. /\ Cardinality(D \ C) = Cardinality(D) - Cardinality(D \intersect C)
        /\ Cardinality(E \ C) = Cardinality(E) - Cardinality(E \intersect C)
    BY <1>2, FS_Difference
  <2>2. D \intersect C = C /\ E \intersect C = C
    BY <1>1
  <2>3. /\ Cardinality(C) \in Nat /\ Cardinality(D) \in Nat /\ Cardinality(E) \in Nat
        /\ Cardinality(X) \in Nat /\ Cardinality(Y) \in Nat
    BY <1>2, FS_CardinalityType
  <2>4. Cardinality(D \ C) = Cardinality(Y) /\ Cardinality(E \ C) = Cardinality(X)
    BY <1>1
  <2>5. Cardinality(D \intersect C) = Cardinality(C) /\ Cardinality(E \intersect C) = Cardinality(C)
    BY <2>2
  <2>6. Cardinality(Y) = Cardinality(D) - Cardinality(C)
    BY <2>1, <2>4, <2>5
  <2>7. Cardinality(X) = Cardinality(E) - Cardinality(C)
    BY <2>1, <2>4, <2>5
  <2>q. QED BY <2>3, <2>6, <2>7
<1> DEFINE f == [h \in X |-> size[h]]
           g == [h \in Y |-> size[h]]
<1>7. /\ IsFiniteMap(f) /\ IsFiniteMap(g) /\ DOMAIN f = X /\ DOMAIN g = Y
      /\ \A h \in X : f[h] <= s
      /\ \A h \in Y : g[h] >= s
      /\ SizesTotal(size, X) = Total(f) /\ SizesTotal(size, Y) = Total(g)
  BY <1>1, <1>2, <1>3, SizesNat DEF SizesTotal
<1> HIDE DEF f, g
<1>8. Total(f) <= s * Cardinality(X) /\ Total(g) >= s * Cardinality(Y)
  BY <1>7, TotalBounds
<1>9. s * Cardinality(X) <= s * Cardinality(Y)
  <2>1. \A a, b, m \in Nat : a <= b => m * a <= m * b
    OBVIOUS
  <2>q. QED BY <1>6, <2>1
<1>10. SizesTotal(size, X) <= SizesTotal(size, Y)
  <2>1. s * Cardinality(X) \in Nat /\ s * Cardinality(Y) \in Nat
    BY <1>6
  <2>q. QED BY <1>5, <1>7, <1>8, <1>9, <2>1
<1>q. QED BY <1>4, <1>5, <1>10

(* What purge leaves is no larger than what it takes. *)
LEMMA LeavesSmaller ==
  ASSUME BlocksInv, NEW D \in SUBSET (LargeCached \union small_free_), TakenInOrder(D),
         NEW d \in D, NEW h \in (LargeCached \union small_free_) \ D
  PROVE  block_size[h] <= block_size[d]
<1>1. /\ \A x \in small_free_ : block_size[x] = kSmallBlockSize
      /\ \A c \in kLargeBlockSizes : \A x \in large_free_[c] : block_size[x] = c
  BY DEF BlocksInv, PoolsIsolated
<1>2. /\ kSmallBlockSize \in Nat
      /\ \A c \in kLargeBlockSizes : c \in Nat /\ kSmallBlockSize < c
  BY SizesAssumption
<1>3. CASE d \in small_free_
  <2>1. h \in small_free_
    BY <1>3 DEF TakenInOrder
  <2>q. QED BY <1>1, <1>2, <1>3, <2>1
<1>4. CASE d \in LargeCached
  <2>1. PICK c \in kLargeBlockSizes : d \in large_free_[c]
    BY <1>4 DEF LargeCached
  <2>2. CASE h \in small_free_
    BY <1>1, <1>2, <2>1, <2>2
  <2>3. CASE h \in LargeCached
    <3>1. PICK b \in kLargeBlockSizes : h \in large_free_[b]
      BY <2>3 DEF LargeCached
    <3>2. ~ (b > c)
      BY <2>1, <3>1 DEF TakenInOrder
    <3>q. QED BY <1>1, <1>2, <2>1, <3>1, <3>2
  <2>q. QED BY <2>2, <2>3
<1>q. QED BY <1>3, <1>4

LEMMA PurgeTakesFewest ==
  ASSUME BlocksInv, CountInv, NEW D \in SUBSET (LargeCached \union small_free_),
         NEW n \in Nat, TakenInOrder(D), Enough(D, n),
         NEW E \in SUBSET (LargeCached \union small_free_), Bytes(E) >= n
  PROVE  Cardinality(E) >= Cardinality(D)
<1> DEFINE S == LargeCached \union small_free_
<1>1. S \in SUBSET Handles /\ IsFiniteSet(S) /\ block_size \in [Handles -> Nat]
  BY Apart, FS_Union DEF CountInv, Exact
<1>2. D \in SUBSET S /\ E \in SUBSET S
  OBVIOUS
<1>3. \A d \in D, h \in S \ D : block_size[h] <= block_size[d]
  BY LeavesSmaller
<1> HIDE DEF S
<1>4. /\ IsFiniteSet(D) /\ IsFiniteSet(E)
      /\ Cardinality(D) \in Nat /\ Cardinality(E) \in Nat
  BY <1>1, <1>2, FS_Subset, FS_CardinalityType
<1>5. CASE D = {}
  BY <1>4, <1>5, FS_EmptySet
<1>6. ASSUME D # {}, ~ (Cardinality(E) >= Cardinality(D)) PROVE FALSE
  <2> DEFINE Sizes == {block_size[d] : d \in D}
  <2>1. Sizes \in SUBSET Nat /\ Sizes # {}
    BY <1>1, <1>2, <1>6
  <2>2. PICK s \in Sizes : \A m \in Sizes : s <= m
    <3> HIDE DEF Sizes
    <3>q. QED BY <2>1, LeastElement
  <2>3. PICK last \in D : s = block_size[last]
    BY <2>2
  <2>4. \A d \in D : block_size[d] \in Nat /\ block_size[last] \in Nat /\ block_size[d] >= block_size[last]
    BY <1>1, <1>2, <2>2, <2>3
  <2> DEFINE rest == D \ {last}
  <2>5. Bytes(rest) < n
    BY <2>4 DEF Enough
  <2>6. Cardinality(rest) = Cardinality(D) - 1 /\ rest \in SUBSET S /\ last \in S
    BY <1>2, <1>4, FS_RemoveElement
  <2>7. Cardinality(E) <= Cardinality(rest)
    BY <1>4, <1>6, <2>6
  <2>8. /\ \A h \in rest : block_size[h] >= block_size[last]
        /\ \A h \in S \ rest : block_size[h] <= block_size[last]
        /\ block_size[last] \in Nat
    BY <1>3, <2>4
  <2> HIDE DEF rest
  <2>9. SizesTotal(block_size, E) <= SizesTotal(block_size, rest)
    BY <1>1, <1>2, <2>6, <2>7, <2>8, LargestFirst
  <2>10. IsFiniteSet(rest) /\ E \in SUBSET Handles /\ rest \in SUBSET Handles
    BY <1>1, <1>2, <2>6, FS_Subset
  <2>11. SizesTotal(block_size, E) \in Nat /\ SizesTotal(block_size, rest) \in Nat
    BY <1>1, <1>4, <2>10, SizesNat
  <2>q. QED BY <2>5, <2>9, <2>11 DEF Bytes, SizesTotal
<1>q. QED BY <1>5, <1>6

(* Every purge that goes for n bytes gets them, or all there is, with the  *)
(* fewest release calls that any choice among the cached blocks allows.    *)
THEOREM PurgeMinimalHolds == Spec => PurgeMinimal
<1>1. ASSUME BlocksInv, CountInv, NEW t \in Threads, NEW n \in PurgeSizes, PurgeCollect(t, n)
      PROVE  LET cached == LargeCached \union small_free_
                 D == to_destroy'[t]
             IN /\ (Bytes(D) >= n \/ D = cached)
                /\ \A E \in SUBSET cached :
                     Bytes(E) >= n => Cardinality(E) >= Cardinality(D)
  <2>1. n \in Nat
    BY SizesAssumption
  <2>2. PICK D \in SUBSET (LargeCached \union small_free_) :
          /\ IF n = 0 THEN D = {} ELSE TakenInOrder(D) /\ Enough(D, n)
          /\ to_destroy' = [to_destroy EXCEPT ![t] = D]
    BY <1>1 DEF PurgeCollect
  <2>3. to_destroy'[t] = D
    BY <1>1, <2>2 DEF BlocksInv, TypeOK
  <2>4. CASE n = 0
    <3>1. D = {} /\ Bytes(D) = 0
      BY <2>2, <2>4, SizesEmpty DEF Bytes, SizesTotal
    <3>2. ASSUME NEW E \in SUBSET (LargeCached \union small_free_)
          PROVE  Cardinality(E) >= Cardinality(D)
      <4>1. IsFiniteSet(LargeCached \union small_free_)
        BY <1>1, FS_Union DEF CountInv, Exact
      <4>2. Cardinality(E) \in Nat /\ Cardinality(D) = 0
        BY <3>1, <4>1, FS_Subset, FS_CardinalityType, FS_EmptySet
      <4>q. QED BY <4>2
    <3>q. QED BY <2>3, <2>4, <3>1, <3>2
  <2>5. CASE n # 0
    <3>1. TakenInOrder(D) /\ Enough(D, n)
      BY <2>2, <2>5
    <3>2. Bytes(D) >= n \/ D = LargeCached \union small_free_
      BY <3>1 DEF Enough
    <3>3. \A E \in SUBSET (LargeCached \union small_free_) :
            Bytes(E) >= n => Cardinality(E) >= Cardinality(D)
      BY <1>1, <2>1, <3>1, PurgeTakesFewest
    <3>q. QED BY <2>3, <3>2, <3>3
  <2>q. QED BY <2>4, <2>5
<1> DEFINE Fewest ==
      \A t \in Threads, n \in PurgeSizes :
        PurgeCollect(t, n) =>
          LET cached == LargeCached \union small_free_
              D == to_destroy'[t]
          IN /\ (Bytes(D) >= n \/ D = cached)
             /\ \A E \in SUBSET cached :
                  Bytes(E) >= n => Cardinality(E) >= Cardinality(D)
<1>2. BlocksInv /\ CountInv => Fewest
  BY <1>1
<1>3. BlocksInv /\ CountInv /\ [Next]_vars => (BlocksInv /\ CountInv)'
  BY NextBlocks, NextCounts
<1>4. PurgeMinimal <=> [][Fewest]_vars
  BY DEF PurgeMinimal
<1> HIDE DEF Fewest
<1>q. QED BY <1>2, <1>3, <1>4, InitBlocks, InitCounts, PTL DEF Spec

=============================================================================
