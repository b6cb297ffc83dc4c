---------------------------- MODULE PhysicalMemory ----------------------------
(***************************************************************************)
(* PhysicalMemoryManager of one device (csrc/physical_memory.cc): creates, *)
(* caches and releases CUDA physical memory handles in two isolated pools. *)
(* Every public operation runs under mu_ and is one action, except purge,  *)
(* which collects its victims under mu_ and releases them one by one after *)
(* unlocking: PurgeCollect and PurgeRelease.                               *)
(*                                                                         *)
(* A PhysicalBlock is its handle; block_size gives its size field, which   *)
(* is also what the driver accounts for the handle: 0 when the handle does *)
(* not exist.  A free list is a set: the blocks of one list have the same  *)
(* size and nothing else tells them apart.                                 *)
(***************************************************************************)
EXTENDS Integers, FiniteSets, Totals

CONSTANTS
  Threads,           \* host threads that call purge
  Handles,           \* names the driver may give to a handle
  kSmallBlockSize,   \* size of every small block
  kLargeBlockSizes,  \* the large size classes
  Capacity,          \* physical bytes of the device (driver)
  PurgeSizes,        \* arguments of purge
  MaxPurges          \* bound: calls of purge in a behaviour

ASSUME SizesAssumption ==
  /\ kSmallBlockSize \in Nat \ {0}
  /\ kLargeBlockSizes \subseteq Nat \ {0}
  /\ \A c \in kLargeBlockSizes : kSmallBlockSize < c
  /\ PurgeSizes \subseteq Nat

VARIABLES
  block_size,          \* driver: size of a handle, 0 if it does not exist
  small_free_,         \* cached small blocks
  large_free_,         \* size class -> cached large blocks
  small_held,          \* small blocks handed out to the SmallAllocator
  large_held,          \* large blocks handed out to the LargeAllocator
  to_destroy,          \* thread -> blocks purge took and still must release
  small_in_use_bytes_, small_cached_bytes_,
  large_in_use_bytes_, large_cached_bytes_,
  purge_count_, total_purged_bytes_,
  purge_calls          \* how often purge was called, up to MaxPurges

blocks == <<block_size, small_free_, large_free_, small_held,
            large_held, to_destroy>>
small_bytes == <<small_in_use_bytes_, small_cached_bytes_>>
large_bytes == <<large_in_use_bytes_, large_cached_bytes_>>
purges == <<purge_count_, total_purged_bytes_, purge_calls>>
vars == <<blocks, small_bytes, large_bytes, purges>>

created == {h \in Handles : block_size[h] # 0}

Bytes(S) == Total([h \in S |-> block_size[h]])

LargeCached == UNION {large_free_[c] : c \in kLargeBlockSizes}

Init ==
  /\ block_size = [h \in Handles |-> 0]
  /\ small_free_ = {} /\ small_held = {}
  /\ large_free_ = [c \in kLargeBlockSizes |-> {}] /\ large_held = {}
  /\ to_destroy = [t \in Threads |-> {}]
  /\ small_in_use_bytes_ = 0 /\ small_cached_bytes_ = 0
  /\ large_in_use_bytes_ = 0 /\ large_cached_bytes_ = 0
  /\ purge_count_ = 0 /\ total_purged_bytes_ = 0 /\ purge_calls = 0

-----------------------------------------------------------------------------
(* createBlock: cuMemCreate gives a handle that does not exist and fails   *)
(* when the device is full; the failure leaves every list as it was.       *)
createBlock(h, size) ==
  /\ h \notin created
  /\ Bytes(created) + size <= Capacity
  /\ block_size' = [block_size EXCEPT ![h] = size]

(* Mutant: with no small block cached, a large one serves the request. *)
Bug_allocSmallBlock(h) ==
  /\ \/ /\ h \in small_free_ \union (IF small_free_ = {} THEN LargeCached ELSE {})
        /\ UNCHANGED block_size
     \/ small_free_ = {} /\ LargeCached = {} /\ createBlock(h, kSmallBlockSize)
  /\ small_free_' = small_free_ \ {h}
  /\ large_free_' = [c \in kLargeBlockSizes |-> large_free_[c] \ {h}]
  /\ small_held' = small_held \union {h}
  /\ small_in_use_bytes_' = small_in_use_bytes_ + block_size'[h]
  /\ UNCHANGED <<small_cached_bytes_, large_held, to_destroy, large_bytes, purges>>

(* allocSmallBlock: a cached block if there is one, else a new one. *)
allocSmallBlock(h) ==
  /\ \/ /\ h \in small_free_
        /\ small_free_' = small_free_ \ {h}
        /\ small_cached_bytes_' = small_cached_bytes_ - block_size[h]
        /\ UNCHANGED block_size
     \/ /\ small_free_ = {}
        /\ createBlock(h, kSmallBlockSize)
        /\ UNCHANGED <<small_free_, small_cached_bytes_>>
  /\ small_held' = small_held \union {h}
  /\ small_in_use_bytes_' = small_in_use_bytes_ + block_size'[h]
  /\ UNCHANGED <<large_free_, large_held, to_destroy, large_bytes, purges>>

freeSmallBlock(h) ==
  /\ h \in small_held
  /\ small_held' = small_held \ {h}
  /\ small_in_use_bytes_' = small_in_use_bytes_ - block_size[h]
  /\ small_cached_bytes_' = small_cached_bytes_ + block_size[h]
  /\ small_free_' = small_free_ \union {h}
  /\ UNCHANGED <<block_size, large_free_, large_held, to_destroy,
                 large_bytes, purges>>

allocLargeBlock(size_class, h) ==
  /\ \/ /\ h \in large_free_[size_class]
        /\ large_free_' = [large_free_ EXCEPT ![size_class] = @ \ {h}]
        /\ large_cached_bytes_' = large_cached_bytes_ - block_size[h]
        /\ UNCHANGED block_size
     \/ /\ large_free_[size_class] = {}
        /\ createBlock(h, size_class)
        /\ UNCHANGED <<large_free_, large_cached_bytes_>>
  /\ large_held' = large_held \union {h}
  /\ large_in_use_bytes_' = large_in_use_bytes_ + block_size'[h]
  /\ UNCHANGED <<small_free_, small_held, to_destroy, small_bytes, purges>>

freeLargeBlock(h) ==
  /\ h \in large_held
  /\ large_held' = large_held \ {h}
  /\ large_in_use_bytes_' = large_in_use_bytes_ - block_size[h]
  /\ large_cached_bytes_' = large_cached_bytes_ + block_size[h]
  /\ large_free_' =
       [large_free_ EXCEPT ![block_size[h]] = @ \union {h}]
  /\ UNCHANGED <<block_size, small_free_, small_held, to_destroy,
                 small_bytes, purges>>

-----------------------------------------------------------------------------
Bug_TakenInOrder(D) ==                   \* mutant: small blocks first
  LargeCached \intersect D # {} => small_free_ \subseteq D

(* The blocks purge(min_bytes) may pick: whole classes from the largest    *)
(* down, the small list last, stopping as soon as min_bytes are reached.   *)
TakenInOrder(D) ==
  \A d \in D :
    /\ d \in small_free_ => LargeCached \subseteq D
    /\ \A c \in kLargeBlockSizes :
         d \in large_free_[c] =>
           \A b \in kLargeBlockSizes : b > c => large_free_[b] \subseteq D

(* The loops go on while freed < min_bytes, and the last block taken is    *)
(* one of the smallest.                                                    *)
Enough(D, min_bytes) ==
  /\ Bytes(D) >= min_bytes \/ D = LargeCached \union small_free_
  /\ \A last \in D :
       (\A d \in D : block_size[d] >= block_size[last])
         => Bytes(D \ {last}) < min_bytes

(* Mutant: the bytes of the small victims leave the large counter. *)
Bug_PurgeCollect(t, min_bytes) ==
  /\ to_destroy[t] = {} /\ purge_calls < MaxPurges
  /\ purge_calls' = purge_calls + 1
  /\ \E D \in SUBSET (LargeCached \union small_free_) :
       /\ TakenInOrder(D) /\ Enough(D, min_bytes)
       /\ to_destroy' = [to_destroy EXCEPT ![t] = D]
       /\ large_free_' = [c \in kLargeBlockSizes |-> large_free_[c] \ D]
       /\ small_free_' = small_free_ \ D
       /\ large_cached_bytes_' = large_cached_bytes_ - Bytes(D)
  /\ UNCHANGED <<block_size, small_held, large_held, small_bytes,
                 large_in_use_bytes_, purge_count_, total_purged_bytes_>>

(* purge, phase 1: collect the victims and do the accounting under mu_. *)
PurgeCollect(t, min_bytes) ==
  /\ to_destroy[t] = {} /\ purge_calls < MaxPurges
  /\ purge_calls' = purge_calls + 1
  /\ \E D \in SUBSET (LargeCached \union small_free_) :
       /\ IF min_bytes = 0 THEN D = {}
          ELSE TakenInOrder(D) /\ Enough(D, min_bytes)
       /\ to_destroy' = [to_destroy EXCEPT ![t] = D]
       /\ large_free_' = [c \in kLargeBlockSizes |-> large_free_[c] \ D]
       /\ small_free_' = small_free_ \ D
       /\ large_cached_bytes_' = large_cached_bytes_ - Bytes(D \ small_free_)
       /\ small_cached_bytes_' =
            small_cached_bytes_ - Bytes(D \intersect small_free_)
       /\ purge_count_' = purge_count_ + (IF Bytes(D) > 0 THEN 1 ELSE 0)
       /\ total_purged_bytes_' = total_purged_bytes_ + Bytes(D)
  /\ UNCHANGED <<block_size, small_held, large_held,
                 small_in_use_bytes_, large_in_use_bytes_>>

(* destroyBlock of one collected block, outside mu_. *)
PurgeRelease(t, h) ==
  /\ h \in to_destroy[t]
  /\ to_destroy' = [to_destroy EXCEPT ![t] = @ \ {h}]
  /\ block_size' = [block_size EXCEPT ![h] = 0]
  /\ UNCHANGED <<small_free_, large_free_, small_held, large_held,
                 small_bytes, large_bytes, purges>>

(* Mutant: trim releases the handles but keeps the large lists. *)
Bug_trim ==
  /\ block_size' = [h \in Handles |->
       IF h \in LargeCached \union small_free_ THEN 0 ELSE block_size[h]]
  /\ small_free_' = {}
  /\ small_cached_bytes_' = 0
  /\ large_cached_bytes_' = 0
  /\ UNCHANGED <<large_free_, small_held, large_held, to_destroy,
                 small_in_use_bytes_, large_in_use_bytes_, purges>>

(* trim: every cached block, released under mu_. *)
trim ==
  /\ block_size' = [h \in Handles |->
       IF h \in LargeCached \union small_free_ THEN 0 ELSE block_size[h]]
  /\ small_free_' = {}
  /\ large_free_' = [c \in kLargeBlockSizes |-> {}]
  /\ small_cached_bytes_' = 0
  /\ large_cached_bytes_' = 0
  /\ UNCHANGED <<small_held, large_held, to_destroy,
                 small_in_use_bytes_, large_in_use_bytes_, purges>>

Next ==
  \/ \E h \in Handles : allocSmallBlock(h) \/ freeSmallBlock(h)
  \/ \E h \in Handles, c \in kLargeBlockSizes : allocLargeBlock(c, h)
  \/ \E h \in Handles : freeLargeBlock(h)
  \/ \E t \in Threads, n \in PurgeSizes : PurgeCollect(t, n)
  \/ \E t \in Threads, h \in Handles : PurgeRelease(t, h)
  \/ trim

Spec == Init /\ [][Next]_vars

-----------------------------------------------------------------------------
Doomed == UNION {to_destroy[t] : t \in Threads}

TypeOK ==
  /\ block_size \in [Handles -> Nat]
  /\ small_free_ \subseteq Handles /\ small_held \subseteq Handles
  /\ large_free_ \in [kLargeBlockSizes -> SUBSET Handles]
  /\ large_held \subseteq Handles
  /\ to_destroy \in [Threads -> SUBSET Handles]

(* Every handle the driver holds is in exactly one place: a free list, one *)
(* caller, or the victims of one purge.  So no handle leaks, none is given *)
(* to two callers, and none is released twice or while in use, although    *)
(* purge releases its victims after unlocking.                             *)
OneOwner ==
  /\ created = small_free_ \union small_held \union LargeCached
                 \union large_held \union Doomed
  /\ small_free_ \intersect (small_held \union LargeCached \union large_held
                               \union Doomed) = {}
  /\ small_held \intersect (LargeCached \union large_held \union Doomed) = {}
  /\ LargeCached \intersect (large_held \union Doomed) = {}
  /\ large_held \intersect Doomed = {}
  /\ \A s, t \in Threads : s # t => to_destroy[s] \intersect to_destroy[t] = {}

(* "Pools are strictly isolated" (include/physical_memory.h:10): a block   *)
(* keeps to the pool and the class it was created for.                     *)
PoolsIsolated ==
  /\ \A h \in small_free_ \union small_held : block_size[h] = kSmallBlockSize
  /\ \A c \in kLargeBlockSizes : \A h \in large_free_[c] : block_size[h] = c
  /\ \A h \in large_held : block_size[h] \in kLargeBlockSizes

(* The four byte counters behind getDeviceStats are the bytes of the       *)
(* blocks they count, whatever purge and trim took away meanwhile; so they *)
(* never wrap.                                                             *)
AccountingExact ==
  /\ small_in_use_bytes_ = Bytes(small_held)
  /\ small_cached_bytes_ = Bytes(small_free_)
  /\ large_in_use_bytes_ = Bytes(large_held)
  /\ large_cached_bytes_ = Bytes(LargeCached)

(* purge(n) takes at least n bytes, or all there is, with the fewest       *)
(* cuMemRelease calls any choice of cached blocks could do it with         *)
(* (include/physical_memory.h:38-40).                                      *)
PurgeMinimal ==
  [][\A t \in Threads, n \in PurgeSizes :
       PurgeCollect(t, n) =>
         LET cached == LargeCached \union small_free_
             D == to_destroy'[t]
         IN /\ Bytes(D) >= n \/ D = cached
            /\ \A E \in SUBSET cached :
                 Bytes(E) >= n => Cardinality(E) >= Cardinality(D)]_vars
=============================================================================
