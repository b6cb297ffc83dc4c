---------------------------- MODULE SmallAllocator ----------------------------
(***************************************************************************)
(* SmallAllocator of one device (csrc/small_allocator.cc): best-fit ranges *)
(* in one reserved virtual address range, whose pages get physical blocks  *)
(* on demand.  Addresses are offsets from va_base_.  Every operation runs  *)
(* under mu_ and is one action; the exceptions ZCG_CU_CHECK throws half-   *)
(* way leave what was done so far, and are outcomes of that action.        *)
(*                                                                         *)
(* free_ is free_by_addr_; free_by_size_ indexes the same ranges.          *)
(* External: the driver's mapping of the pages, and the number of blocks   *)
(* the PhysicalMemoryManager can supply.                                   *)
(***************************************************************************)
EXTENDS Ranges, FiniteSets, Totals

CONSTANTS
  kMinBlockAlign,    \* allocation granule
  kSmallBlockSize,   \* page size, also the size of a small physical block
  num_pages_,        \* pages of the reserved range
  Requests,          \* sizes callers ask for
  device_,           \* the device that owns the memory
  Peers,             \* devices that may become peers
  PhysicalBlocks,    \* small blocks the device can hold at once
  Faults             \* driver calls that may fail: "create", "map", "access",
                     \* and "grant": the access given to a new peer

ASSUME SizeAssumption ==
  /\ kMinBlockAlign \in Nat \ {0}
  /\ kSmallBlockSize \in Nat \ {0}
  /\ num_pages_ \in Nat
  /\ PhysicalBlocks \in Nat
  /\ Requests \subseteq Nat \ {0}
ASSUME DeviceAssumption == device_ \notin Peers

VARIABLES
  high_water_,       \* bump pointer
  free_,             \* address -> size of the free ranges
  allocated_,        \* address -> size of the ranges handed out
  allocated_bytes_, mapped_bytes_,
  page_mapped_,      \* pages the allocator knows to be mapped
  peer_devices_,     \* devices new mappings are opened to
  backed,            \* driver: pages with physical memory mapped
  access,            \* driver: page -> devices that may access it
  blocks_out,        \* small blocks taken from the PhysicalMemoryManager
  lost,              \* history: ranges taken by allocations that then threw
  opened,            \* history: peers whose addPeerDevice has returned
  flushed            \* history: nothing was freed since an emptyCache

book == <<high_water_, free_, allocated_, allocated_bytes_, lost>>
pages == <<page_mapped_, mapped_bytes_, backed, access, blocks_out>>
peers == <<peer_devices_, opened>>
vars == <<book, pages, peers, flushed>>

va_size_ == num_pages_ * kSmallBlockSize
Pages == 0..(num_pages_ - 1)
NoRange == [va \in {} |-> 0]

roundUp(n, align) == (n + align - 1) - ((n + align - 1) % align)

TouchedPages(va, size) == {p \in Pages : Touches(va, size, p, kSmallBlockSize)}

Init ==
  /\ high_water_ = 0 /\ free_ = NoRange /\ allocated_ = NoRange
  /\ allocated_bytes_ = 0 /\ mapped_bytes_ = 0
  /\ page_mapped_ = {} /\ peer_devices_ = {}
  /\ backed = {} /\ access = [p \in Pages |-> {}] /\ blocks_out = 0
  /\ lost = NoRange /\ opened = {} /\ flushed = FALSE

-----------------------------------------------------------------------------
(* Mutant: new mappings are opened to the owning device only. *)
Bug_MapPages(done, leaked, dangling) ==
  /\ done \intersect backed = {}
  /\ blocks_out + Cardinality(done) + leaked <= PhysicalBlocks
  /\ page_mapped_' = page_mapped_ \union done
  /\ mapped_bytes_' = mapped_bytes_ + kSmallBlockSize * Cardinality(done)
  /\ backed' = backed \union done \union dangling
  /\ access' = [p \in Pages |-> IF p \in done THEN {device_} ELSE access[p]]
  /\ blocks_out' = blocks_out + Cardinality(done) + leaked

(* The iterations of ensurePagesMapped that go through: allocSmallBlock,   *)
(* memMap, setAccess and the bookkeeping of the pages in done.  The next   *)
(* iteration, cut short by an exception, leaves `leaked` blocks that       *)
(* nobody holds and the pages `dangling` mapped but not recorded.          *)
MapPages(done, leaked, dangling) ==
  /\ done \intersect backed = {}
  /\ blocks_out + Cardinality(done) + leaked <= PhysicalBlocks
  /\ page_mapped_' = page_mapped_ \union done
  /\ mapped_bytes_' = mapped_bytes_ + kSmallBlockSize * Cardinality(done)
  /\ backed' = backed \union done \union dangling
  /\ access' = [p \in Pages |-> IF p \in done THEN {device_} \union peer_devices_
                                ELSE access[p]]
  /\ blocks_out' = blocks_out + Cardinality(done) + leaked

(* ensurePagesMapped returns (ok) or throws at the first page k whose      *)
(* block, mapping or access rights cannot be had.                          *)
ensurePagesMapped(va, size, ok) ==
  LET missing == TouchedPages(va, size) \ page_mapped_
  IN IF ok THEN MapPages(missing, 0, {})
     ELSE \E k \in missing :
       LET done == {p \in missing : p < k}
       IN \/ /\ blocks_out + Cardinality(done) = PhysicalBlocks
               \/ "create" \in Faults
             /\ MapPages(done, 0, {})
          \/ /\ k \in backed \/ "map" \in Faults
             /\ MapPages(done, 1, {})
          \/ /\ k \notin backed /\ "access" \in Faults
             /\ MapPages(done, 1, {k})

(* Best fit: the lowest address among the smallest ranges that suffice. *)
BestFits(size) ==
  {va \in DOMAIN free_ :
     /\ free_[va] >= size
     /\ \A w \in DOMAIN free_ :
          free_[w] >= size =>
            free_[va] < free_[w] \/ (free_[va] = free_[w] /\ va <= w)}

Bug_TakeFree(va, size) ==              \* mutant: the remainder keeps its size
  LET rest == RemoveRange(free_, va)
  IN IF free_[va] > size THEN AddRange(rest, va + size, free_[va]) ELSE rest

BugDrop_TakeFree(va, size) ==          \* mutant: the remainder is dropped
  RemoveRange(free_, va)

(* removeFreeBlock, and addFreeBlock of the remainder when va is split. *)
TakeFree(va, size) ==
  LET rest == RemoveRange(free_, va)
  IN IF free_[va] > size THEN AddRange(rest, va + size, free_[va] - size) ELSE rest

(* Steps 3 and 4 of allocate; the range is not given back when it throws. *)
Commit(va, size) ==
  \/ /\ ensurePagesMapped(va, size, TRUE)
     /\ allocated_' = AddRange(allocated_, va, size)
     /\ allocated_bytes_' = allocated_bytes_ + size
     /\ UNCHANGED lost
  \/ /\ ensurePagesMapped(va, size, FALSE)
     /\ lost' = AddRange(lost, va, size)
     /\ UNCHANGED <<allocated_, allocated_bytes_>>

allocate(request) ==
  LET size == roundUp(request, kMinBlockAlign)
  IN /\ \/ \E va \in BestFits(size) :
             /\ free_' = TakeFree(va, size)
             /\ UNCHANGED high_water_
             /\ Commit(va, size)
        \/ /\ \A va \in DOMAIN free_ : free_[va] < size
           /\ high_water_ + size <= va_size_
           /\ high_water_' = high_water_ + size
           /\ UNCHANGED free_
           /\ Commit(high_water_, size)
     /\ UNCHANGED <<peers, flushed>>

-----------------------------------------------------------------------------
Bug_coalesce(va, size) ==              \* mutant: no merge with the predecessor
  LET end == va + size
      right == size + (IF end \in DOMAIN free_ THEN free_[end] ELSE 0)
  IN free_' = AddRange(RemoveRange(free_, end), va, right)

(* The free ranges after [va, va + size) is returned: merged with the free *)
(* range that ends at va, if any, and the one that starts at va + size.    *)
coalesce(va, size) ==
  LET end == va + size
      rest == RemoveRange(free_, end)
      right == size + (IF end \in DOMAIN free_ THEN free_[end] ELSE 0)
      preds == {w \in DOMAIN free_ : w + free_[w] = va}
  IN \/ preds = {} /\ free_' = AddRange(rest, va, right)
     \/ \E w \in preds : free_' = AddRange(rest, w, free_[w] + right)

free(va) ==
  /\ va \in DOMAIN allocated_
  /\ allocated_' = RemoveRange(allocated_, va)
  /\ allocated_bytes_' = allocated_bytes_ - allocated_[va]
  /\ coalesce(va, allocated_[va])
  /\ flushed' = FALSE
  /\ UNCHANGED <<high_water_, lost, pages, peers>>

Bug_PageFreeBytes(p) ==                \* mutant: not clipped at the page end
  LET start == p * kSmallBlockSize
      overlap(va) == va + free_[va] - Max({start, va})
      counted == {va \in DOMAIN free_ : va < start + kSmallBlockSize /\ overlap(va) > 0}
  IN Total([va \in counted |-> overlap(va)])

(* The byte count the scan of emptyCache finds for page p. *)
PageFreeBytes(p) ==
  LET start == p * kSmallBlockSize
      end == start + kSmallBlockSize
      overlap(va) == Min({end, va + free_[va]}) - Max({start, va})
      counted == {va \in DOMAIN free_ : overlap(va) > 0}
  IN Total([va \in counted |-> overlap(va)])

Bug_EntirelyFree(p) ==                 \* mutant: one free byte is enough
  \E x \in (p * kSmallBlockSize)..((p + 1) * kSmallBlockSize - 1) :
    \E va \in DOMAIN free_ : va <= x /\ x < va + free_[va]

(* A page whose free bytes are all its bytes: each lies in a free range.   *)
EntirelyFree(p) ==
  \A x \in (p * kSmallBlockSize)..((p + 1) * kSmallBlockSize - 1) :
    \E va \in DOMAIN free_ : va <= x /\ x < va + free_[va]

Bug_emptyCache ==                      \* mutant: page_mapped_[p] is not reset
  LET unmapped == {p \in page_mapped_ : EntirelyFree(p)}
  IN /\ mapped_bytes_' = mapped_bytes_ - kSmallBlockSize * Cardinality(unmapped)
     /\ backed' = backed \ unmapped
     /\ access' = [p \in Pages |-> IF p \in unmapped THEN {} ELSE access[p]]
     /\ blocks_out' = blocks_out - Cardinality(unmapped)
     /\ flushed' = TRUE
     /\ UNCHANGED <<book, page_mapped_, peers>>

BugStop_emptyCache ==                  \* mutant: stops at the first page in use
  LET unmapped == {p \in page_mapped_ : \A q \in 0..p : EntirelyFree(q)}
  IN /\ page_mapped_' = page_mapped_ \ unmapped
     /\ mapped_bytes_' = mapped_bytes_ - kSmallBlockSize * Cardinality(unmapped)
     /\ backed' = backed \ unmapped
     /\ access' = [p \in Pages |-> IF p \in unmapped THEN {} ELSE access[p]]
     /\ blocks_out' = blocks_out - Cardinality(unmapped)
     /\ flushed' = TRUE
     /\ UNCHANGED <<book, peers>>

emptyCache ==
  LET unmapped == {p \in page_mapped_ : EntirelyFree(p)}
  IN /\ page_mapped_' = page_mapped_ \ unmapped
     /\ mapped_bytes_' = mapped_bytes_ - kSmallBlockSize * Cardinality(unmapped)
     /\ backed' = backed \ unmapped
     /\ access' = [p \in Pages |-> IF p \in unmapped THEN {} ELSE access[p]]
     /\ blocks_out' = blocks_out - Cardinality(unmapped)
     /\ flushed' = TRUE
     /\ UNCHANGED <<book, peers>>

(* addPeerDevice: the peer is listed first, then granted page after page;  *)
(* memSetAccess may fail at a page k.  A listed peer is not granted again. *)
addPeerDevice(peer) ==
  /\ IF peer \in peer_devices_
     THEN opened' = opened \union {peer} /\ UNCHANGED <<peer_devices_, access>>
     ELSE /\ peer_devices_' = peer_devices_ \union {peer}
          /\ \E granted \in SUBSET page_mapped_ :
               /\ \/ granted = page_mapped_ /\ opened' = opened \union {peer}
                  \/ /\ "grant" \in Faults /\ UNCHANGED opened
                     /\ \E k \in page_mapped_ : granted = {p \in page_mapped_ : p < k}
               /\ access' = [p \in Pages |-> IF p \in granted THEN access[p] \union {peer}
                                             ELSE access[p]]
  /\ UNCHANGED <<book, page_mapped_, mapped_bytes_, backed, blocks_out, flushed>>

Next ==
  \/ \E request \in Requests : allocate(request)
  \/ \E va \in DOMAIN allocated_ : free(va)
  \/ emptyCache
  \/ \E peer \in Peers : addPeerDevice(peer)

Spec == Init /\ [][Next]_vars

-----------------------------------------------------------------------------
TypeOK ==
  /\ high_water_ \in 0..va_size_
  /\ \A va \in DOMAIN free_ : va \in 0..va_size_ /\ free_[va] \in 1..va_size_
  /\ \A va \in DOMAIN allocated_ : va \in 0..va_size_ /\ allocated_[va] \in 1..va_size_
  /\ page_mapped_ \subseteq Pages /\ backed \subseteq Pages
  /\ access \in [Pages -> SUBSET ({device_} \union Peers)]
  /\ peer_devices_ \subseteq Peers /\ opened \subseteq Peers /\ flushed \in BOOLEAN

(* No byte is in two ranges: splitting, best fit, merging and bumping      *)
(* never hand out or free a byte twice, failed allocations included.       *)
NoOverlap ==
  /\ PairwiseDisjoint(allocated_) /\ PairwiseDisjoint(free_)
  /\ \A va \in DOMAIN allocated_, w \in DOMAIN free_ :
       Disjoint(va, allocated_[va], w, free_[w])
  /\ \A va \in DOMAIN allocated_ : va + allocated_[va] <= high_water_
  /\ \A w \in DOMAIN free_ : w + free_[w] <= high_water_

(* Memory handed out stays usable: emptyCache never unmaps a page under a  *)
(* live range, and a mapped page is really backed and open to the device.  *)
MappedWhileLive ==
  /\ \A va \in DOMAIN allocated_ : TouchedPages(va, allocated_[va]) \subseteq page_mapped_
  /\ page_mapped_ \subseteq backed
  /\ \A p \in page_mapped_ : device_ \in access[p]

(* coalesce leaves no two adjacent free ranges, and neither does the split *)
(* of allocate: best fit sees every run of free bytes as one range.  A run *)
(* that ends at high_water_ is not joined to the bytes above it.           *)
FullyCoalesced ==
  \A v, w \in DOMAIN free_ : v + free_[v] # w

(* The per-page count of emptyCache reaches a full page exactly when every *)
(* byte of the page is in a free range (small_allocator.cc:127-143).       *)
ScanExact ==
  \A p \in Pages : PageFreeBytes(p) = kSmallBlockSize <=> EntirelyFree(p)

(* No address goes astray: what was ever bumped is handed out, free, or in *)
(* a range whose allocation threw (small_allocator.cc:83-92), and          *)
(* allocated_bytes_ counts the first of these exactly.                     *)
SpaceConserved ==
  /\ \A x \in 0..(high_water_ - 1) :
       \E f \in {allocated_, free_, lost} : \E va \in DOMAIN f : va <= x /\ x < va + f[va]
  /\ allocated_bytes_ = Total(allocated_)

(* Every block taken from the PhysicalMemoryManager backs a recorded page, *)
(* so emptyCache can give it back, except at most one for each allocation  *)
(* that threw (small_allocator.cc:187-197); mapped_bytes_ is their bytes.  *)
NoBlockLost ==
  /\ mapped_bytes_ = kSmallBlockSize * Cardinality(page_mapped_)
  /\ Cardinality(page_mapped_) <= blocks_out
  /\ blocks_out <= Cardinality(page_mapped_) + Cardinality(DOMAIN lost)

(* "Already-mapped pages will be updated; future mappings will include the *)
(* peer automatically" (include/small_allocator.h:45-46): a peer whose     *)
(* addPeerDevice has returned may use every mapped page.                   *)
PeersSeeAll == \A p \in page_mapped_ : opened \subseteq access[p]

HasByteOf(f, p) == \E va \in DOMAIN f : Touches(va, f[va], p, kSmallBlockSize)
HoldsHighWater(p) == Touches(high_water_, 1, p, kSmallBlockSize)

(* What emptyCache leaves mapped, or allocate maps after it, holds a live  *)
(* byte until something is freed; the exceptions are pages under a range   *)
(* an allocation that threw has lost, and the page of the bump pointer,    *)
(* whose bytes above high_water_ are on no free list                       *)
(* (small_allocator.cc:123-151).                                           *)
CacheEmptied ==
  flushed =>
    \A p \in page_mapped_ :
      HasByteOf(allocated_, p) \/ HasByteOf(lost, p) \/ HoldsHighWater(p)

(* "Release all physical blocks whose pages are completely free"           *)
(* (include/small_allocator.h:38): after emptyCache, every mapped page has *)
(* a live byte.                                                            *)
FreePagesReleased == flushed => \A p \in page_mapped_ : HasByteOf(allocated_, p)

(* SmallAllocator keeps the promise of a range allocator. *)
Abstract == INSTANCE RangeAllocator WITH
  VASize <- va_size_, PageSize <- kSmallBlockSize, Pages <- Pages,
  live <- allocated_, usable <- {p \in page_mapped_ : device_ \in access[p]}
ImplementsRangeAllocator == Abstract!Spec
=============================================================================
