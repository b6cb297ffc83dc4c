------------------------------- MODULE OomRetry -------------------------------
(***************************************************************************)
(* The three attempts of alloc_impl (csrc/vmm_allocator.cc) over the       *)
(* physical memory of one device: which blocks the sub-allocators hold,    *)
(* which the PhysicalMemoryManager caches, and what emptyCache, purge and  *)
(* trim give back between the attempts, while other threads allocate and   *)
(* free.  Blocks of one size are alike: every place is a map from block    *)
(* size to number of blocks.                                               *)
(*                                                                         *)
(* Abstracted: addresses.  Where best fit puts a small range is the        *)
(* business of SmallAllocator; here the range touches any number of pages  *)
(* its size allows, the ones at its two ends perhaps with other ranges.    *)
(* Deferred frees are those of VMMAllocator; here the program's frees are  *)
(* immediate.  Memory is all that runs out: neither address space nor the  *)
(* mapping calls of the driver fail.                                       *)
(***************************************************************************)
EXTENDS BlockLayout, FiniteSets

CONSTANTS
  Threads,
  kMinBlockAlign,    \* granule of the SmallAllocator's ranges
  kSmallBlockSize,   \* size of a page of the SmallAllocator
  threshold_,        \* requests from here on are large
  Requests,          \* sizes callers ask for
  Capacity           \* physical bytes of the device

ASSUME RetryAssumption ==
  /\ kMinBlockAlign \in Nat \ {0} /\ kSmallBlockSize \in Nat \ {0}
  /\ kSmallBlockSize % kMinBlockAlign = 0
  /\ \A c \in BlockClasses : kSmallBlockSize < c
  /\ Requests \subseteq Nat \ {0}
  /\ Capacity \in Nat /\ threshold_ \in Nat
  /\ IsFiniteSet(Threads) /\ IsFiniteSet(Requests)

VARIABLES
  cached,     \* the free lists of the PhysicalMemoryManager
  pinned,     \* mapped pages under live small ranges and no lost one
  stuck,      \* mapped pages under ranges lost by allocations that threw
  idle,       \* mapped pages that are entirely free
  edge,       \* the mapped page high_water_ cuts without a live byte: 0 or 1
  lost,       \* history: a small allocation has thrown and lost its range
  live,       \* request size -> live allocations of that size
  created,    \* driver: bytes of the blocks that exist
  call,       \* thread -> allocation in progress, or NoCall
  returned    \* history: thread -> bytes others gave back since it began
              \* to flush the caches for its last attempt, up to Capacity

pages == <<pinned, stuck, idle, edge, lost>>
vars == <<cached, pages, live, created, call, returned>>

AllSizes == BlockClasses \union {kSmallBlockSize}
NoBlocks == [c \in AllSizes |-> 0]
Bytes(blocks) == Total([c \in AllSizes |-> c * blocks[c]])
Plus(blocks, c, n) == [blocks EXCEPT ![c] = @ + n]
Added(b1, b2) == [c \in AllSizes |-> b1[c] + b2[c]]

is_large(size) == size >= threshold_

Need(size) == LayoutBytes(computeLayout(size))
BlocksOf(size) ==
  LET layout == computeLayout(size)
  IN [c \in AllSizes |-> Cardinality({i \in DOMAIN layout : layout[i] = c})]

(* The bytes of a small range, and the pages it touches: fewest when it    *)
(* begins a page, most when it begins at the last granule of one.          *)
SmallRequests == {n \in Requests : ~is_large(n)}
Rounded(size) == ((size + kMinBlockAlign - 1) \div kMinBlockAlign) * kMinBlockAlign
PagesFrom(offset, bytes) == (offset + bytes - 1) \div kSmallBlockSize + 1
LeastPages(size) == PagesFrom(0, Rounded(size))
MostPages(size) == PagesFrom(kSmallBlockSize - kMinBlockAlign, Rounded(size))

(* The ends of a range that may lie within a page: none when all sizes are *)
(* whole pages.                                                            *)
RaggedEnds ==
  IF \A n \in SmallRequests : Rounded(n) % kSmallBlockSize = 0 THEN 0 ELSE 2

(* p pages beside the stuck ones have room for the ranges of l, and none   *)
(* without a range.                                                        *)
Holds(p, l) ==
  /\ Total([n \in SmallRequests |-> l[n] * Rounded(n)]) <= kSmallBlockSize * (p + stuck)
  /\ p <= Total([n \in SmallRequests |-> l[n] * MostPages(n)])

NoCall == [step |-> "idle"]

Init ==
  /\ cached = NoBlocks /\ created = 0
  /\ pinned = 0 /\ stuck = 0 /\ idle = 0 /\ edge = 0 /\ lost = FALSE
  /\ live = [n \in Requests |-> 0]
  /\ call = [t \in Threads |-> NoCall]
  /\ returned = [t \in Threads |-> 0]

InStep(t, step) == call[t].step = step
Goto(t, step) == call' = [call EXCEPT ![t].step = step]

(* A sub-allocator's mu_ is held from the first block to the last.         *)
Locked(large) ==
  \E t \in Threads : /\ InStep(t, "take") \/ InStep(t, "rollback")
                     /\ is_large(call[t].size) = large

LastAttempt(t) == call[t] # NoCall /\ call[t].level = 2

GiveBack(t, n) ==
  returned' = [u \in Threads |->
    IF u # t /\ LastAttempt(u) THEN Min({returned[u] + n, Capacity}) ELSE returned[u]]

-----------------------------------------------------------------------------
AllocBegin(t, size) ==
  /\ call[t] = NoCall
  /\ call' = [call EXCEPT ![t] = [size |-> size, level |-> 0, todo |-> <<>>, shared |-> 0,
                                  got |-> NoBlocks, step |-> "attempt"]]
  /\ UNCHANGED <<cached, pages, live, created, returned>>

(* LargeAllocator::allocate takes its lock and computes the layout.        *)
AttemptLarge(t) ==
  /\ InStep(t, "attempt") /\ is_large(call[t].size)
  /\ ~Locked(TRUE)
  /\ call' = [call EXCEPT ![t].step = "take", ![t].todo = computeLayout(call[t].size)]
  /\ UNCHANGED <<cached, pages, live, created, returned>>

(* SmallAllocator::allocate takes its lock and settles its range: m idle   *)
(* pages, e times the page of high_water_, `shared` pages other ranges are *)
(* on, and `new` pages to map.                                             *)
AttemptSmall(t) ==
  LET size == call[t].size
  IN /\ InStep(t, "attempt") /\ ~is_large(size)
     /\ ~Locked(FALSE)
     /\ \E m \in 0..idle, e \in 0..edge, shared \in 0..RaggedEnds, new \in 0..MostPages(size) :
          /\ m + e + shared + new \in LeastPages(size)..MostPages(size)
          /\ shared <= pinned + stuck
          /\ Holds(pinned + m + e + new, [live EXCEPT ![size] = @ + 1])
          /\ idle' = idle - m /\ edge' = edge - e
          /\ call' = [call EXCEPT ![t].step = "take", ![t].shared = shared,
                        ![t].todo = [i \in 1..new |-> kSmallBlockSize],
                        ![t].got = Plus(NoBlocks, kSmallBlockSize, m + e)]
     /\ UNCHANGED <<cached, pinned, stuck, lost, live, created, returned>>

Available(c) == cached[c] > 0 \/ created + c <= Capacity

(* allocSmallBlock or allocLargeBlock: from the cache, else a new block.   *)
TakeBlock(t) ==
  /\ InStep(t, "take") /\ call[t].todo # <<>>
  /\ LET c == Head(call[t].todo)
     IN /\ \/ cached[c] > 0 /\ cached' = Plus(cached, c, -1) /\ UNCHANGED created
           \/ /\ cached[c] = 0 /\ created + c <= Capacity
              /\ created' = created + c /\ UNCHANGED cached
        /\ call' = [call EXCEPT ![t].todo = Tail(@), ![t].got = Plus(@, c, 1)]
  /\ UNCHANGED <<pages, live, returned>>

(* The blocks of a large range are its own; the pages of a small one stay  *)
(* with the SmallAllocator, those at its ends perhaps under a lost range.  *)
Succeed(t) ==
  /\ InStep(t, "take") /\ call[t].todo = <<>>
  /\ live' = [live EXCEPT ![call[t].size] = @ + 1]
  /\ call' = [call EXCEPT ![t] = NoCall]
  /\ returned' = [returned EXCEPT ![t] = 0]
  /\ IF is_large(call[t].size)
     THEN UNCHANGED pages
     ELSE LET n == call[t].got[kSmallBlockSize]
          IN \E x \in 0..n :
               /\ x <= (IF lost THEN RaggedEnds ELSE 0)
               /\ pinned' = pinned + n - x /\ stuck' = stuck + x
               /\ UNCHANGED <<idle, edge, lost>>
  /\ UNCHANGED <<cached, created>>

(* No block: SmallAllocator::allocate loses its range, and the pages that  *)
(* are mapped under it, of which s had only live ranges, are never free    *)
(* again; LargeAllocator::allocate returns its blocks.                     *)
TakeFails(t) ==
  /\ InStep(t, "take") /\ call[t].todo # <<>>
  /\ ~Available(Head(call[t].todo))
  /\ IF is_large(call[t].size)
     THEN Goto(t, "rollback") /\ UNCHANGED pages
     ELSE /\ \E s \in 0..pinned :
               /\ s <= call[t].shared /\ call[t].shared - s <= stuck
               /\ pinned' = pinned - s
               /\ stuck' = stuck + s + call[t].got[kSmallBlockSize]
          /\ lost' = TRUE
          /\ call' = [call EXCEPT ![t].step = "failed", ![t].got = NoBlocks]
          /\ UNCHANGED <<idle, edge>>
  /\ UNCHANGED <<cached, live, created, returned>>

(* The exception handler returns block after block, then rethrows.         *)
Rollback(t) ==
  /\ InStep(t, "rollback")
  /\ IF call[t].got = NoBlocks
     THEN Goto(t, "failed") /\ UNCHANGED <<cached, returned>>
     ELSE \E c \in BlockClasses :
            /\ call[t].got[c] > 0
            /\ cached' = Plus(cached, c, 1)
            /\ call' = [call EXCEPT ![t].got = Plus(@, c, -1)]
            /\ GiveBack(t, c)
  /\ UNCHANGED <<pages, live, created>>

-----------------------------------------------------------------------------
(* The handlers of alloc_impl: two retries, then the error goes on. *)
Retry(t) ==
  /\ InStep(t, "failed") /\ call[t].level < 2
  /\ call' = [call EXCEPT ![t].level = @ + 1, ![t].step = "flush"]
  /\ UNCHANGED <<cached, pages, live, created, returned>>

GiveUp(t) ==
  /\ InStep(t, "failed") /\ call[t].level = 2
  /\ call' = [call EXCEPT ![t] = NoCall]
  /\ returned' = [returned EXCEPT ![t] = 0]
  /\ UNCHANGED <<cached, pages, live, created>>

(* Mutant: emptyCache before the last attempt is left out. *)
Bug_FlushSmall(t) ==
  /\ InStep(t, "flush") /\ ~Locked(FALSE)
  /\ IF call[t].level = 1
     THEN cached' = Plus(cached, kSmallBlockSize, idle) /\ idle' = 0
     ELSE UNCHANGED <<cached, idle>>
  /\ Goto(t, IF call[t].level = 1 THEN "purge" ELSE "trim")
  /\ UNCHANGED <<pinned, stuck, edge, lost, live, created, returned>>

(* small_alloc->emptyCache: the blocks of the pages whose bytes are all    *)
(* free go to the cache.  The page under high_water_ is not one of them:   *)
(* its bytes above high_water_ are in no free range.  The LargeAllocator   *)
(* has nothing to flush.                                                   *)
FlushSmall(t) ==
  /\ InStep(t, "flush") /\ ~Locked(FALSE)
  /\ cached' = Plus(cached, kSmallBlockSize, idle)
  /\ idle' = 0
  /\ Goto(t, IF call[t].level = 1 THEN "purge" ELSE "trim")
  /\ UNCHANGED <<pinned, stuck, edge, lost, live, created, returned>>

(* The blocks purge(n) takes: size by size from the largest, as few of     *)
(* each as make up for what the larger ones leave missing.                 *)
PurgeVictims(n) ==
  LET missing(c) == n - Total([b \in {d \in AllSizes : d > c} |-> b * cached[b]])
  IN [c \in AllSizes |->
        IF missing(c) <= 0 THEN 0 ELSE Min({cached[c], (missing(c) + c - 1) \div c})]

(* Mutant: the blocks are filed back while the handles are released. *)
Bug_PurgeCollect(t) ==
  /\ InStep(t, "purge")
  /\ call' = [call EXCEPT ![t].got = PurgeVictims(call[t].size), ![t].step = "release"]
  /\ UNCHANGED <<cached, pages, live, created, returned>>

(* purge(size), under the lock of the PhysicalMemoryManager.               *)
PurgeCollect(t) ==
  LET victims == PurgeVictims(call[t].size)
  IN /\ InStep(t, "purge")
     /\ cached' = [c \in AllSizes |-> cached[c] - victims[c]]
     /\ call' = [call EXCEPT ![t].got = victims, ![t].step = "release"]
     /\ UNCHANGED <<pages, live, created, returned>>

(* ... and after unlocking, one cuMemRelease after the other.              *)
PurgeRelease(t) ==
  /\ InStep(t, "release")
  /\ \/ /\ call[t].got = NoBlocks
        /\ Goto(t, "attempt")
        /\ UNCHANGED created
     \/ \E c \in AllSizes :
          /\ call[t].got[c] > 0
          /\ created' = created - c
          /\ call' = [call EXCEPT ![t].got = Plus(@, c, -1)]
  /\ UNCHANGED <<cached, pages, live, returned>>

(* trim, under the lock. *)
Trim(t) ==
  /\ InStep(t, "trim")
  /\ created' = created - Bytes(cached)
  /\ cached' = NoBlocks
  /\ Goto(t, "attempt")
  /\ UNCHANGED <<pages, live, returned>>

-----------------------------------------------------------------------------
(* The program frees: large blocks go to the cache, and of the pages of a  *)
(* small range those turn idle that no other range is on, but for the page *)
(* high_water_ cuts.                                                       *)
FreeLarge(t, size) ==
  /\ call[t] = NoCall /\ live[size] > 0 /\ is_large(size)
  /\ ~Locked(TRUE)
  /\ live' = [live EXCEPT ![size] = @ - 1]
  /\ cached' = Added(cached, BlocksOf(size))
  /\ GiveBack(t, Need(size))
  /\ UNCHANGED <<pages, created, call>>

FreeSmall(t, size) ==
  /\ call[t] = NoCall /\ live[size] > 0 /\ ~is_large(size)
  /\ ~Locked(FALSE)
  /\ live' = [live EXCEPT ![size] = @ - 1]
  /\ \E u \in 0..pinned, e \in 0..(1 - edge) :
       /\ u \in (LeastPages(size) - RaggedEnds)..MostPages(size)
       /\ e <= u /\ e <= RaggedEnds
       /\ Holds(pinned - u, live')
       /\ pinned' = pinned - u /\ edge' = edge + e /\ idle' = idle + u - e
       /\ GiveBack(t, kSmallBlockSize * (u - e))
  /\ UNCHANGED <<cached, stuck, lost, created, call>>

Next ==
  \E t \in Threads :
    \/ \E size \in Requests : AllocBegin(t, size) \/ FreeLarge(t, size) \/ FreeSmall(t, size)
    \/ AttemptLarge(t) \/ AttemptSmall(t) \/ TakeBlock(t) \/ Succeed(t) \/ TakeFails(t) \/ Rollback(t)
    \/ Retry(t) \/ GiveUp(t)
    \/ FlushSmall(t) \/ PurgeCollect(t) \/ PurgeRelease(t) \/ Trim(t)

Spec == Init /\ [][Next]_vars

-----------------------------------------------------------------------------
LargeBytes == Total([n \in Requests \ SmallRequests |-> live[n] * Need(n)])
Held(t) == IF call[t] = NoCall THEN 0 ELSE Bytes(call[t].got)
InCalls(T) == Total([t \in T |-> Held(t)])

(* Every byte the driver holds is live, cached, on a mapped page of the    *)
(* SmallAllocator or in the hands of one call, through all the rollbacks,  *)
(* purges that release late and trims of several threads.                  *)
MemoryAccounted ==
  created = LargeBytes + Bytes(cached) + kSmallBlockSize * (pinned + stuck + idle + edge)
              + InCalls(Threads)

(* An allocation that gives up really lacked the memory: the large blocks  *)
(* in use, the pages under live or lost ranges and under high_water_, what *)
(* the calls hold and the blocks this one still needs exceed the device,   *)
(* but for the bytes others gave back after the last flush began           *)
(* (vmm_allocator.cc:241-249).                                             *)
OomJustified ==
  [][\A t \in Threads :
       TakeFails(t) /\ call[t].level = 2 =>
         LargeBytes + kSmallBlockSize * (pinned + stuck + edge) + InCalls(Threads)
           + LayoutBytes(call[t].todo) + returned[t] > Capacity]_vars

(* OOM is thrown only when the memory is really out                        *)
(* (zero-cuda-graph.md:54-58), after a trim to "release everything"        *)
(* (vmm_allocator.cc:244), and num_ooms counts "unrecoverable OOM events"  *)
(* (zcg/memory.py:28): when a single thread with nothing live runs out of  *)
(* memory, the request is larger than the device.                          *)
OomUnrecoverable ==
  [][\A t \in Threads :
       TakeFails(t) /\ call[t].level = 2 /\ (\A n \in Requests : live[n] = 0) =>
         (IF is_large(call[t].size) THEN Need(call[t].size)
          ELSE kSmallBlockSize * LeastPages(call[t].size)) > Capacity]_vars
=============================================================================
