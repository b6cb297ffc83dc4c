# TLA+ models of zero-cuda-graph

zero-cuda-graph (`zcg`) replaces PyTorch's CUDA caching allocator by one that
works on CUDA's virtual memory management: it reserves virtual addresses, maps
physical blocks into them, and keeps both for reuse. This directory holds TLA+
models of it, the TLC configurations that check them, and theorems about them
checked by TLAPS. Paths below are relative to `src/`.

## 1. The system

```
 Python (zcg/*.py) -> bindings.cc
        |  allocate, free, empty_cache, set_threshold, memory_stats, vmm_remap ...
        v
 VMMAllocator (vmm_allocator.cc)    meta_, pending_frees_, pool_allocs_, active_pools_,
   |        |                       EventPool, PoolStats          one per process
   v        v
 SmallAllocator   LargeAllocator    address ranges                one each per device
   |        |
   v        v
 PhysicalMemoryManager              free lists of blocks          one per device
   |
   v
 CUDADriverAPI -> cuMemCreate / cuMemMap / cuMemSetAccess / ...
```

| component | state | operations | shared with, and how |
|---|---|---|---|
| PhysicalMemoryManager | two kinds of free lists, four byte counters, purge counters; `mu_` | allocSmallBlock, freeSmallBlock, allocLargeBlock, freeLargeBlock, purge, trim | called by both sub-allocators (under their own mutex or not) and by VMMAllocator |
| SmallAllocator | bump pointer, free ranges by address and by size, live ranges, page table, peers; `mu_` | allocate, free, emptyCache, addPeerDevice | called by VMMAllocator, outside `meta_mu_` |
| LargeAllocator | live allocations with their blocks, peers; `mu_` | allocate (with rollback), free, addPeerDevice | the same |
| VMMAllocator | metadata of live allocations, deferred frees, threshold, enable flag; `meta_mu_` and atomics | allocate, free, recordStream, emptyCache, setThreshold, enable, statistics | called by every host thread of the program |
| CUDA graph pools | stack of active pools of each device, live allocations by pool | beginAllocateToPool, endAllocateToPool, releasePool | tables of VMMAllocator, under `meta_mu_` |
| EventPool | CUDA events ready for reuse; `mu_` | acquire, release | shared by all devices and threads |
| PoolStats | atomic counters | recordAlloc, recordFree, resets | read and written without a lock |
| peer access | `peer_devices` of a device; `peers_mu` | enablePeerAccess | calls both sub-allocators |
| substitution | none | replaceDataPtr, vmmRemap | acts on the driver behind the allocators' backs, without a lock |
| registration | the singleton `g_vmm_allocator` | registerVMMAllocator, init | once, on import |

### What is hard about it

* **Interleaving.** No operation of VMMAllocator holds `meta_mu_` from start to
  end. `free_impl` takes an entry out, records events without the lock, and
  puts a deferred free back; the pollers, the flushes and `releasePool` collect
  entries under the lock and free them after it. `purge` does the same with
  physical blocks.
* **The GPU runs behind the host.** An address is freed in host order, while
  kernels that use it are still queued. Events make the reuse safe, and these
  events are themselves recycled.
* **Partial failure.** Every driver call can throw, in the middle of a loop
  over pages, blocks, ranges or streams, and the handlers undo what they can.
* **Retries.** An allocation is attempted three times, with flushes, a purge
  and a trim between; what other threads do meanwhile, and what the earlier
  attempts left behind, decides the outcome.
* **Lock-free counters.** The statistics are atomics updated one by one.
* **Moving configuration.** The threshold moves while allocations are live.
* **Long legal sequences.** Splits, merges and bumps of the small allocator.

`PROJECT.json` lists these hazards at their lines, each with the properties
that cover it or the reason none does yet.

### What makes each component correct

* PhysicalMemoryManager: a handle is in one place; the pools never mix; the
  counters are the bytes they count; a purge releases enough and no more.
* SmallAllocator: live ranges are disjoint, mapped and accessible; free ranges
  are merged and nothing is lost; idle pages go back to the pool.
* LargeAllocator: a block and an address are given back once, whatever failed;
  a block is unmapped before it is returned; the layout fits the request.
* VMMAllocator: an address has one owner; nothing is lost; memory is handed out
  again when its last users are done; frees go where the allocation came from;
  operations end; OOM is reported only when memory is really out.
* pools: a pool tracks its live allocations, and captures tag them.
* EventPool: an event guards one deferred free at a time.
* PoolStats: a peak is the most that was in use, and derived numbers are the
  change since the last reset.
* peer access and remapping: a peer reaches all memory once its call returned;
  a remap swaps the memory of a range whole and never leaves a mix.

## 2. Modules

| module | models | state and actions |
|---|---|---|
| `PhysicalMemory` | `csrc/physical_memory.cc` | The free lists as sets of handles, the blocks handed out, the victims of each running purge, the counters. One action per operation; `purge` is `PurgeCollect` (under `mu_`) and one `PurgeRelease` per victim (after unlocking). |
| `Ranges` | helper | Address ranges, pages, and maps from address to size. |
| `Totals` | helper | `Total`, the sum of a map's values, which the byte counters are compared with. |
| `RangeAllocator` | abstract | What any sub-allocator promises: disjoint live ranges inside the reservation, on usable pages. |
| `SmallAllocator` | `csrc/small_allocator.cc` | `free_`, `allocated_`, `high_water_`, `page_mapped_`, peers, and the driver's view of the pages (`backed`, `access`). One action per operation, since each holds `mu_`; an exception half-way is an outcome of its action, with what had been done before it. |
| `BlockLayout` | `LargeAllocator::computeLayout` | `computeLayout`, and `IsTight`, a reference definition: the size rounded up to the smallest class, and no shorter sequence of blocks for the whole multiple of that class below the size. |
| `LargeAllocator` | `csrc/large_allocator.cc` | The live ranges and their blocks, the driver's reservations, mappings and access rights, the blocks taken from the PhysicalMemoryManager, and per thread the call in progress. One action per driver call or block: `Reserve` (before `mu_`), `MapBlock`, then `Record`, or `AllocateFails` and the handler; `FreeErase` (under `mu_`), then the same `UnmapBlock`, `ReturnBlock`, `ReleaseAddress` that the handler takes. |
| `MemoryAccess` | `enablePeerAccess`, `csrc/substitution.cc` | Extends `LargeAllocator` with the registered peers, what `enablePeerAccess` has still to do, and `vmmRemap` driver call by driver call. |
| `DeviceStats` | `PoolStats`, the resets, `getDeviceStats` | The six counters of each pool and the local variables of the calls; one action per access to an atomic. |
| `OomRetry` | the attempts of `alloc_impl` with the three components below it | Every place a block can be in as a number by size: cached, in a large allocation, in a call, and the pages of the SmallAllocator as `pinned` (under live ranges), `stuck` (under lost ones), `idle` (entirely free) and `edge` (the page `high_water_` cuts, without a live byte). One action per block taken, returned or released and per call of `alloc_impl`'s handlers; `AttemptSmall` and `FreeSmall` choose how many pages of each kind a range touches. |
| `VMMAllocator` | `csrc/vmm_allocator.cc` | The shared tables, the EventPool, `current_bytes`, the streams as queues, and per thread `pc`, `req`, `level`, `work`, `todo`. One action per critical section or step between two of them. |
| `*Proofs` | | Theorems (section 5): `TotalsProofs` about sums, `BlockLayoutProofs` about layouts, and one module for each of `PhysicalMemory`, `SmallAllocator`, `LargeAllocator`, `VMMAllocator`, `OomRetry` and `DeviceStats`; that of `LargeAllocator` also covers `MemoryAccess`. |
| `MC*` | | Instances for TLC. |

`MemoryAccess` and `OomRetry` are the compositions: the first runs the complete
LargeAllocator next to the operations that change its mappings from outside, the
second puts `alloc_impl`, both sub-allocators and the PhysicalMemoryManager
together, each reduced to what happens to physical blocks. `SmallAllocator` and
`LargeAllocator` implement the same abstract `RangeAllocator`.

How the operations of VMMAllocator map to actions:

* `alloc_impl`: `AllocBegin` (checks, routing, pool lookup), `PollCollect` and
  `Reap` (processPendingFrees), `Allocate` or `AllocateFails`, on failure
  `ForceCollect`, `Reap` and a new attempt at `level` 1 and 2, then `Publish`.
* `free_impl`: `FreeBegin`, then `FreeNow`, or one `RecordEvent` per stream and
  `Defer`. `FreeUnknown` is its early return.
* `emptyCache`: `EmptyCacheBegin`, `FlushDevice` and `Reap` per device,
  `EmptyCacheEnd`.
* `releasePool`: `ReleasePoolBegin`, `ReleasePoolSync`, `ReleasePoolFree`.
* `recordStream`, `beginAllocateToPool`, `endAllocateToPool`, `setThreshold`
  and `enable` are one critical section or one atomic store each.

`work[t]` stands for the local vectors and structs (`ready`, `to_free`, `pf`,
`ptrs_to_free`) that carry allocations between the tables.

### Abstractions

* Inside VMMAllocator the sub-allocators are the set `sub` of the addresses
  they have handed out: `Allocate` takes any free address of the right device
  and size class, and the attempt fails when there is none. How they find one is
  the subject of their own modules. What `emptyCache`, `purge` and `trim` do
  between the attempts is the subject of `OomRetry`.
* Driver and GPU are external. A stream is a queue of kernels and event markers,
  executed in order. `cudaEventQuery` succeeds when the last record of the event
  has been passed, `cudaEventSynchronize` blocks until then, and
  `cudaEventRecord` refuses an event of another device than the stream's. Both
  `cudaEventCreate` and `cudaEventRecord` may also fail for reasons of their own
  (`Faults`): `C10_CUDA_CHECK` then throws out of `free_impl`, with the entry in
  no table (`Throw`; the history variable `dropped` keeps it).
* The program is external: it launches kernels on live allocations, on the
  allocation stream or one it has named to `recordStream`, and frees what it
  holds (`held`). `KeepPoolPtrs` says whether it may hold pointers of a pool
  while it releases the pool, as tensors that outlive a graph do.
* `AllocBegin` reads the enable flag, the threshold and the pool stack in one
  step, although the first two are separate atomic reads: each read decides one
  field of `req` and no property relates the three. `Publish` joins
  `recordAlloc` with the insertion into `meta_`, and `doFree` joins `recordFree`
  with the free of the sub-allocator, so `StatsAgree` is about states between
  these pairs, not inside them.
* `Reap` returns all events of an entry in one step. The code returns them one
  after the other, each once it has completed; nothing reads the list of an
  entry that has been collected except the thread that walks it. The entries of
  a collected list are reaped in any order, the code's order among them.
* Free lists of PhysicalMemory are sets: blocks of one list have equal sizes and
  nothing else tells them apart, so the LIFO order of the vectors is not seen.
* `emptyCache` of SmallAllocator is stated with `EntirelyFree` (every byte of a
  page lies in a free range); the code sums bytes per page. `PageFreeBytes` is
  that sum, and `ScanExact` says the two agree in every reachable state.
* The return code of `memUnmap`, which `emptyCache` ignores, is taken to be
  success. In `LargeAllocator` it is not: the driver refuses a range that is not
  mapped throughout, and the code goes on, as its handler and `free` do.
* In `LargeAllocator` the PhysicalMemoryManager is the set `taken` of blocks it
  has handed out; a request may get any other block of the right size. A driver
  call that fails does nothing.
* `vmmRemap` works on the exact range of a live large allocation, with handles of
  the program that are not mapped elsewhere, and the program does not free or
  remap a range under remap: `InUse` and `LargeStep` name these assumptions.
* Of the SmallAllocator, `MemoryAccess` keeps the set of peers it has opened its
  pages to, since `PeersSeeAll` says there is nothing else to know.
* In `DeviceStats` the accesses of a thread take effect in the order of the
  program. They are relaxed, so the processor may reorder accesses to different
  counters; no property relates two counters while a call is under way, except
  through `current_bytes` and `peak_bytes`, where a stale load only costs the
  exchange another turn.
* `OomRetry` forgets addresses: a small range of n bytes touches any number of
  pages between `LeastPages(n)` and `MostPages(n)`, of which those at its two ends may
  hold other ranges too (`RaggedEnds`). `Holds` keeps the choice within what the
  bytes allow: live ranges fit the pages they are on, and a page counts as pinned
  only if a range can be there. A page turns idle when its last range goes, unless
  `high_water_` cuts it, and then it is the `edge`, which `emptyCache` leaves alone.
  So the model has every behaviour of the code and some that no placement by best
  fit has; this is sound for the two properties that hold, and the trace of
  `oom_unrecoverable` has been compared with the code step by step. The program frees
  at once; deferred frees are the business of `VMMAllocator`. Only memory runs out.
* `DeviceStats` records in `torn` which counters a reset has spoilt by overlapping
  another call, until a reset that overlaps none has set them again. Nothing is
  assumed of when resets run.

## 3. Runs

Parameters are small numbers in the same proportions as the code's constants.

| run | bounds | checks |
|---|---|---|
| `physical_memory` | 2 threads, 5 handles, sizes 1, 2, 4, capacity 9, purges of 0, 1, 3 and 5 bytes, at most 2 purges | `OneOwner`, `PoolsIsolated`, `AccountingExact`, `PurgeMinimal` |
| `small_allocator` | 4 pages of 4 bytes, granule 2, requests 1, 3, 5, 2 blocks, one peer, `setAccess` may fail | `NoOverlap`, `MappedWhileLive`, `SpaceConserved`, `FullyCoalesced`, `ScanExact`, `NoBlockLost`, `PeersSeeAll`, `CacheEmptied`, refinement of `RangeAllocator` |
| `large_allocator` | 2 threads, classes 4 and 2, 2 blocks of each, 3 addresses, requests 1, 3, 4, 5, 7, 8, 9, one peer, `create`, `map` and `access` may fail | `BlocksOwned`, `NoStaleMapping`, `AddressesOwned`, `PackedTightly`, refinement of `RangeAllocator` |
| `memory_access` | 2 threads, 3 blocks and 2 foreign handles of size 2, 2 addresses, 2 peers, everything but `create` may fail | `PeerReached`, `RemapNeverMixed`, `NoStaleRemap` |
| `device_stats` | 3 threads, sizes 1 and 2, 4 calls, resets at any moment | `PeakExact`, `CountersExact`, `AggregatePeakCovers` |
| `oom_retry` | 2 threads, granule 1, page 2, classes 8 and 4, threshold 4, requests 1, 3, 8, capacity 8 | `MemoryAccounted`, `OomJustified` |
| `vmm_allocator` | 2 threads, 2 streams, 2 addresses, 3 events, 2 queued operations a stream, at most 3 pointers held, creating and recording an event may fail | types, `OneOwner`, `NothingLost`, `EventExclusive`, `ReuseOrdered`, `FencedKernels`, `NoAlias` |
| `vmm_pools` | 2 threads, 2 devices with a stream each, 1 pool, 1 address, 2 events, pointers may outlive the pool, creating an event may fail | `PoolTracking`, `OneOwner`, `NothingLost`, `OperationsEnd` |
| `vmm_routing` | 1 thread, thresholds 2 and 3 around the size 2, a small and a large address, captures of one of 2 streams, creating and recording an event may fail | `RoutedHome`, `StatsAgree`, `OomOnlyWhenLive` |

Why these bounds are enough to meet the interesting cases: two threads are what
a race takes, since every race here is about one entry that two operations want;
two streams are the allocation stream and a recorded one; three events allow an
event to be recycled while another deferred free waits; two addresses allow one
to be reused while the other is pending, and one address forces the OOM path.
Pages of two granules with requests of one, two and three granules make ranges
that share a page, fill one and span two. Sizes 1, 2, 4 with purges of 3 and 5
make a purge stop inside a class and between classes. For LargeAllocator the
requests lie on, below and above every multiple of a class that fits, two blocks
of each class are fewer than the three addresses could take, and two threads let
one return blocks while the other takes them. Three threads in `device_stats` are
two that race for the peak and one that moves the bytes or resets meanwhile; four
calls are two allocations, a free and a reset in any order and overlap. In
`oom_retry` a request of 8 takes the whole device in one block, which small
allocations cut up: a request of 1 shares its page, one of 3 spans two or three,
so that pages are shared, cut by `high_water_` and lost in every combination.
Two blocks for four pages make the SmallAllocator run out of them in the middle of
every kind of allocation. Threads, events and
interchangeable addresses and handles are permuted for symmetry in runs that check
safety; `vmm_pools`, which checks liveness, uses none. `CHECK_DEADLOCK FALSE` is set where the
bounds, or a program that calls nothing more, really stop the model.
In `vmm_allocator` and the runs with a single allocation stream, the allocation
stream is fixed on purpose: what happens otherwise is `vmm_reuse_other_stream`.

### Runs that end in a violation

Each states what a document or comment promises and shows where the code differs.

| run | promise | what happens |
|---|---|---|
| `vmm_reuse_other_stream` | `DESIGN.md:193`, `csrc/vmm_allocator.cc:341` | An immediate free is reused on another stream before the first is done. |
| `oom_unrecoverable` | `zero-cuda-graph.md:58`, `csrc/vmm_allocator.cc:244`, `zcg/memory.py:28` | A small allocation that cannot map its last page keeps those it has mapped, at each of its three attempts: its own retries use up the device, and OOM is thrown although nothing is live. |
| `remap_atomicity` | `DESIGN.md:178`, `csrc/substitution.cc:82` | A `memMap` fails in `vmmRemap`; the loop over the old handles is empty, and a live range stays without memory. |

The passing runs are the other side of these: with one stream for allocations
`ReuseOrdered` holds, `OomJustified` holds once the lost pages and the page
`high_water_` cuts are counted among what is in use, and `RemapNeverMixed` says that
an empty range is the worst a failed remap leaves.

Some further promises do not hold of the code. Their properties stand in the modules
beside those that do hold, and a change of a configuration shows each:

* `Reclaimable` (`README.md:50`, "event-based recycling respects `recordStream()`
  semantics"), checked in place of the invariants of `vmm_pools` with `Faults = {}`: the
  EventPool is shared by all devices, so `free_impl` may get an event, a recycled or a
  new one, that belongs to another device than the stream. `cudaEventRecord` refuses
  it, and `C10_CUDA_CHECK` (`csrc/vmm_allocator.cc:314`) throws after the metadata was
  erased (`:293`): the allocation is in no table and is never freed. `NothingLost` says
  that a free that throws is the only way to lose one.
* `CaptureTagged` (`zero-cuda-graph.md:70`, allocations during capture are tagged
  through the stream filter), checked in `vmm_routing` with `Filters <- OwnStream` and
  `MaxActivePools = 2`: of two captures on different streams of a device only the one
  that began last tags, since `alloc_impl` asks only the top of the stack (`:207`).
* `FreePagesReleased` (`include/small_allocator.h:38`, "Release all physical blocks whose
  pages are completely free."), checked in `small_allocator`: allocate, free,
  `emptyCache`, and the page `high_water_` cuts stays mapped, as does a page under a
  lost range. `CacheEmptied` says that no other page does. The retries of `alloc_impl`
  cannot release that page either: with pages of 2, a threshold of 2 and a capacity
  of 4, `OomUnrecoverable` is violated by a request of 1, its free, and a request of 4.
* `PeersSeeAll` (`include/small_allocator.h:45`) with `"grant"` among the `Faults` of
  `small_allocator`: `addPeerDevice` lists the peer, then throws while it grants; called
  again it returns at once, and the mapped pages stay closed to the peer.
* `PeakCoversCurrent` (`zcg/memory.py:60`), checked in `device_stats`: an allocation
  between the load and the store of `resetPeak` leaves `peak_bytes` below the bytes in
  use. `PeakExact` says that one reset that overlaps nothing mends it.

Other limits of the passing runs:

* `NoBlockLost` allows one block for each allocation that threw: the block taken
  at `small_allocator.cc:187` is recorded nowhere when a later call throws.
* `CacheEmptied` leaves out the ranges of allocations that threw: `allocate` has
  taken the range before its pages are mapped and does not give it back, so the
  pages below it are never free again. `oom_unrecoverable` is what this leads to.
* `ReuseOrdered` (`csrc/vmm_allocator.cc:305`, "we must defer the actual free
  until those streams complete") needs pools whose live allocations have no
  recorded streams, or no pools: `releasePool` waits for the events of pending
  frees only and frees a live allocation with recorded streams at once.
* `PeerReached` waits for the call that registered the peer, and leaves out a peer
  whose call threw. A second caller of `enablePeerAccess` returns at
  `vmm_allocator.cc:774` at once, and returns normally even when the first one has
  failed or will fail, although `zcg/memory.py:66-69` promises that mappings are
  accessible afterwards. It also leaves remapped ranges out: `vmmRemap` grants
  access to the peers its caller names and to no other.
* `RemapNeverMixed` allows a range that a remap has changed to be without any
  mapping: that is `remap_atomicity`. Such a range can be neither remapped nor
  granted to a peer, since the driver refuses a range that is not mapped throughout.
* The free of a range remapped with other block sizes unmaps by its old sizes;
  the driver refuses, and the range stays reserved. `memory_access` remaps with
  blocks of the same size; the theorems are about all sizes.
* `AggregatePeakCovers` is a lower bound: the sum of two peaks reached at different
  times may be more than was ever in use at once.
* `NoAlias` needs `KeepPoolPtrs = FALSE` or no pools: an address freed by
  `releasePool` is handed out again while its old holder will still free it, and
  the look-up at `vmm_allocator.cc:291` then finds the new entry.
* `OomOnlyWhenLive` is checked with one thread: with two, one may report OOM
  while the other is on its way to free what would do.
* `purge_count_` counts the purges that released something (`physical_memory.cc:142`),
  not all, as `include/physical_memory.h:55` has it.

## 4. Fairness

`FairSpec` of VMMAllocator assumes `WF_vars(ThreadStep(t))` for each thread and
`WF_vars(GpuStep(s))` for each stream. The first is the operating system running
a thread that is inside an operation and not blocked: a thread blocked in
`cudaEventSynchronize` has no enabled step, and the mutexes are never held
across a wait, so no lock is a state of the model. The second is the GPU
executing what has been queued. Calls (`Calls`, `Others`) are not fair: nobody has
to allocate, free or launch. Weak fairness is enough, since a step of a thread
that is enabled stays enabled until the thread takes it, or turns into its
alternative (`Allocate` and `AllocateFails`).

Only `vmm_pools` checks liveness. `SmallAllocator`, `LargeAllocator`,
`PhysicalMemory`, `DeviceStats`, `MemoryAccess` and `OomRetry` state no fairness:
each of their operations runs through without waiting for another, so that what
matters about them is safety.

## 5. Theorems

Proved by TLAPS for all values of the constants that satisfy the modules'
assumptions (sizes are positive integers, the maps of places have their types,
the sets that are summed over are finite). All safety properties the passing
runs check are proved, and so are both refinements of `RangeAllocator`.

**TotalsProofs.** `Total(f)` adds up the values of a finite map of naturals. The
library folds are defined by `CHOOSE` over a recursive function, and the prover
cannot instantiate an induction principle that takes an operator. The proofs go
around both: an induction over finite sets is stated for a set of sets
(`SubsetInduction`, from `LeastElement`), and `TotalIsCardinality` identifies the
total with the number of its units, the pairs of a key and a number up to its
value. All else follows from cardinalities: adding, removing and changing an
entry, moving one, splitting off an element of a sequence, concatenation,
bounds, sums of two maps, and counting by value.

**PhysicalMemoryProofs.**

* `TypeCorrect`, `OneOwnerHolds` and `PoolsIsolatedHolds`, from
  `BlocksInv == TypeOK /\ Placed /\ PoolsIsolated`. `Placed` is `OneOwner` handle
  by handle, which is the form an action preserves visibly; `PlacedIsOneOwner`
  leads back. `PoolsIsolated` is needed for `OneOwner`, because `freeLargeBlock`
  files a block by its size: a block of another size would land in no list.
* `AccountingExactHolds`, from `CountInv`: each of the four counters is the total
  size of the blocks it counts. So no counter wraps. The blocks `purge` has
  taken out and not yet released are in no counter, which is why their late
  release keeps it.
* `PurgeMinimalHolds`, the exchange argument for taking the largest blocks first:
  whatever set of cached blocks has the missing bytes, the victims from the
  largest class down are no more of them. It holds for every list of sizes.

**SmallAllocatorProofs.**

* `NoOverlapHolds` from `BookInv`, which is `NoOverlap` with the types of the
  ranges and the end of the reservation; the cases are a split, a bump, and the
  four ways of merging. `MappedWhileLiveHolds` and `TypeCorrect` from `MapInv`, which
  adds the types of the page table, the peers and `MappedWhileLive`: `emptyCache` is
  safe because a page under a live range has a byte in no free range
  (`LivePageNotFree`), which is where `NoOverlap` is used.
* `SpaceConservedHolds` and `FullyCoalescedHolds` from `SpaceInv`: the ranges of
  allocations that threw lie apart (`LostApart`), every byte below the bump
  pointer is in some range (`Covered`), the byte counter is the sum of the live
  ranges (`Counted`), and no two free ranges touch. The last is needed for its own
  preservation: `free` merges with at most one neighbour on each side, which is
  enough only if the neighbours do not touch a further one.
* `ScanExactHolds`: the sum `emptyCache` forms for a page equals the page's size
  exactly when all its bytes are free. It uses `NoOverlap`: overlapping free
  ranges would be counted twice.
* `NoBlockLostHolds` from `PageInv == MapInv /\ SpaceInv /\ BlockInv`.
* `CacheEmptiedHolds`: a page without a live byte, a lost byte or the bump pointer
  is entirely free (`PagesNotFree`), so `emptyCache` unmaps it, and until the next
  free `allocate` maps pages only under the range it takes, which is then live or
  lost.
* `PeersSeeAllHolds` has the hypothesis `"grant" \notin Faults`; without it the
  property is violated (section 3). Its invariant adds that a peer whose
  call has returned is listed, so pages mapped later are opened to it.
* `RefinesRangeAllocator` maps `allocated_` to `live` and the mapped, accessible
  pages to `usable`: `allocate` is `Alloc`, or `AddPages` when it throws; `free` is
  `Free`; `emptyCache` is `DropPages`; `addPeerDevice` stutters.

**BlockLayoutProofs.** `LayoutCovers`: for every list of block classes and every
size, `computeLayout` returns blocks of the classes that cover the request and
exceed it by less than one block of the smallest class.

`LayoutTight`: if each class is a multiple of the next (`MultiplesAssumption`; in
`common.h` each is the double), no sequence of classes shorter than the greedy part
adds up to the same bytes, the whole multiple of the smallest class below the
size. The remainder takes one smallest block more, so the layout as a whole need
not be the shortest: with classes 4 and 2, a request of 3 is packed as 2 and 2. The proof counts: `Share(a, i)` blocks of class `i` for `a` bytes are
`a \div c[i]` less those that make up `a \div c[i-1]` blocks of the class above.
Quotients of a sum are never less than the sums of the quotients, and by that
`SharesOfSum` bounds the shares of `a + b`, class by class; at the smallest class,
which divides both, nothing is left over (`SharesAdd`). A block of a class is one
share (`SharesOfBlock`), so blocks that add up to `a` are never fewer than the
shares of `a` (`FewestShares`), and those are what `computeLayout` takes
(`LayoutParts`). Without the assumption the claim is false: with classes 8, 6
and 2, 12 bytes are packed as 8, 2 and 2 where two blocks of 6 would do.

**LargeAllocatorProofs.**

* `TypeCorrect` and `BlocksOwnedHolds`: a block taken from the
  PhysicalMemoryManager belongs to one live allocation or to one call in
  progress, whatever fails and however calls interleave. The inductive invariant
  is `LargeInv == TypeOK /\ Owned /\ Homes`. `Owned` is `BlocksOwned` block by
  block. `Homes` says that a call in progress holds an address of its own,
  reserved and under no live allocation: without it `Record` could overwrite an
  entry of `allocs_` and lose its blocks.
* `PackedTightlyHolds`: `LayoutTight` for what `Reserve` puts into the call, an action
  property that needs of `LargeInv` only the type of `call`.
* `NoStaleMappingHolds` and `AddressesOwnedHolds`, from `MappedInv`: mappings do not
  overlap and what is mapped is taken (`Mappings`), every reserved range is that of
  a live allocation or a call (`Ranged`), and the blocks of each are mapped one
  after the other from its address on, up to the one its call has come to
  (`Shaped`, with `Chain`). `Chain` is what makes the handler's loop right: when it
  unmaps `num_mapped` blocks by their sizes it unmaps exactly those mapped, so no
  block is returned while it is mapped, and the driver does not refuse to free
  the range.
* `RefinesRangeAllocator` maps `allocs_` to `live` and the bytes that are mapped and
  opened to the device to `usable`. It needs `Shaped` and `Opened` to know that a
  range turns live with all its bytes usable.

*Of `MemoryAccess`* (the second part of the module). A `vmmRemap` changes what is
mapped in a live range and tells no allocator, so `MappedInv` does not hold next to
it: the free of a remapped range unmaps, block by block by the sizes of the
blocks it had, whatever is there by then. The inductive invariant is
`MAInv == Layout /\ Contents /\ Registering /\ Reached`.

* `Layout` is `LargeInv`, what a `vmmRemap` holds (`Operations`: a live range and
  handles that no other one has), the disjoint reserved ranges (`Homesteads`) and
  the mappings (`Places`: they do not overlap, no handle has two, and each lies
  inside one reserved range). The last keeps every step inside the range it
  works on: whatever the driver unmaps, the contents of the other ranges stay
  (`OneHouse`, `Others`).
* `Contents` says what each range contains. A call or live allocation whose range
  was never remapped has exactly its own blocks there, chained as in `MappedInv`
  (`OwnCall`, `OwnLive`); the blocks of one whose range was remapped are mapped
  nowhere, and what is in the range is the program's (`StrippedCall`,
  `StrippedLive`). A `vmmRemap` in progress has mapped the first `num_mapped` of its
  handles, which end at `offset` (`RemapShape`), so its exception handler
  unmaps exactly these. `Settled` says that a range no `vmmRemap` works on is
  then empty or full.
* `NoStaleRemapHolds` follows from `Places`, `RemapNeverMixedHolds` from `Contents`:
  `ReturnBlock` gives back a block that is mapped nowhere on either side of the
  distinction, and bytes that add up to the size of the range fill it.
* `PeerReachedHolds` from `Registering`, which follows `enablePeerAccess` through its
  three steps, and `Reached`: a listed peer can use everything mapped in a live
  range that was not remapped. `Record` grants under `mu_` to the peers listed by
  then and `addPeerDevice` to the ranges recorded by then, also under `mu_`, so no
  allocation falls between the two.

**VMMAllocatorProofs.**

* `TypeCorrect`; `OneOwnerHolds` from `OnePlace`, the same fact address by address,
  of which every action moves one entry from place to place; `RoutedHomeHolds`,
  from the types, `OneOwner` and the metadata being copied unchanged from `req` to
  the sub-allocator.
* `PoolTrackingHolds`, without hypotheses: tagging, freeing and `releasePool` keep
  `pool_allocs_` and `meta_` in step.
* `EventExclusiveHolds`, from `EventInv`: entries share no event (`Apart`), an event
  in the EventPool is in no entry (`Unpooled`) and no stream still has its record
  ahead (`Passed`). The last needs that a thread returns only events it has seen
  completed (`PolledDone`) and that an event is recorded only when new or recycled.
* `ReuseOrderedHolds` and `FencedKernelsHolds`, the safety of reuse on streams, from
  `ReuseInv`, which joins all of the above with `UseInv`: a kernel queued on a
  live address is on its allocation stream or a recorded one (`LiveUse`), behind
  a kernel on a pending address stands an event of its entry (`PendingFenced`), a
  kernel left on an address that may be handed out is on the allocation stream
  of its device (`FreeUse`), and each thread has done for the entries in its hands
  what its `pc` says (`WorkUse`). Two hypotheses, both needed: `OneAllocStream`, the
  allocations of a device are made on one stream (`vmm_reuse_other_stream` shows
  the violation without it), and `QuietRelease`, a pool is released only when no
  live allocation of it has recorded streams (`releasePool` frees these at once).
* `NoAliasHolds`, if the program keeps no pointers of a pool it releases or has no
  pools: each held address is held once and live (`HeldLive`).
* `NothingLostHolds`, without hypotheses: every address a sub-allocator has handed
  out is owned, but for those of calls that threw while they recorded events. A
  thread with nothing to do holds nothing (`WorkByPc`), and an entry is dropped
  only by the thread that took it out of the tables, so no address is both.
* `StatsAgreeHolds`, without hypotheses: what `recordAlloc` adds `recordFree`
  subtracts from the same counter, wherever `set_threshold` moves in between. The
  argument counts bytes as a set of units, of which each allocation is charged its
  own (`BytesAreCharged`). An allocation whose free threw stays charged for good.
* `OomOnlyWhenLiveHolds`, for a program of one thread (`OneThread`): by its third
  attempt no deferred free of its device is left (`Cleared`).

**OomRetryProofs.** The only assumptions are `RetryAssumption` (a page is a multiple
of the granule and smaller than a large block, which `common.h` gives) and
`ClassesAssumption`; requests are of any size.

* `MemoryAccountedHolds`: every byte the driver holds is live, cached, on a page
  of the SmallAllocator, or in the hands of one call. The inductive invariant
  adds `CallsOK`, which says what a call holds at each of its steps (`Progress`):
  nothing between two attempts, and while it takes blocks, what a large request
  needs but for those still to take, or pages only for a small one. Every action is
  shown to be `Moved`: what it takes from one place it puts into another, where
  `Kept` sums the pages that no flush releases (`pinned`, `stuck`, `edge`).
* `OomJustifiedHolds`: an allocation that gives up lacked the memory. `Repaid` says
  that in its last attempt, what the caches and the idle pages hold has been given
  back by others since the call flushed them. With `MemoryAccounted` this bounds
  what is missing. No step of a thread gives the caches more than it credits to
  the others (`Eased`), which is why `Repaid` survives their interleaving.

**DeviceStatsProofs.** `TypeCorrect`, and three theorems with resets at any moment.
`Alone` is shared by them: the call of a thread in `solo` is the only one, and a reset
that is not has spoilt (`torn`) all it resets.

* `PeakExactHolds`: for a pool that is not spoilt, `PeakOf` says of each thread
  between two of its accesses what it still owes: the peak it has read is no more
  than the present one, and when the peak is behind, a thread is there that will
  raise it (`Reached`). The compare-and-exchange loop is what makes `Reached` inductive:
  a failed exchange reloads, and the thread goes on owing. `Stored` says that what a
  reset alone has loaded is still true when it stores it, so that it mends the peak.
* `CountersExactHolds`, from `CounterInv`: each counter is what the live
  allocations and the last reset make it, plus what the calls in progress have
  added there already or will still add (`CurrentDue`, `NetDue`, `NumDue`). For
  `current_bytes`, which no reset touches, this holds whatever overlaps; for the
  others it fails only while a pool is spoilt or being cleared (`Cleared`).
* `AggregatePeakCoversHolds`, from `AggregateInv`, which treats the state between
  the resets of the two pools (`HalfReset`) on its own.

### Model-checked only

* Liveness (`OperationsEnd`): out of this prover's reach.
* The runs that end in a violation.

## 6. Not modelled

* `replaceDataPtr`: it swaps pointers inside a Python tensor's storage and calls
  no allocator.
* Registration (`registerVMMAllocator`, `init`): one start-up sequence, run under
  the import lock before any other call. If `init` throws, `g_vmm_allocator` stays
  set and a second attempt is refused; nothing else happens to it.
* `setMemoryFraction`, which stores a number nothing reads; IPC, checkpoint,
  tracing and observers, which throw or do nothing.
* `cudaDeviceEnablePeerAccess` and the copies between devices, which touch no
  state of the allocator.
* `getDeviceStats` while updates run (it reads the counters one after the other
  and promises no snapshot), and the `reserved_bytes` entries, which it sums
  over what the components report.
* Kernels that are still queued on pages which `emptyCache` of SmallAllocator
  unmaps (`csrc/small_allocator.cc:144`): it takes streams and pages in one model,
  and the driver's `cuMemUnmap` may itself wait for the device.
* Destructors: they run once, after the program's last call.
* Loading of the driver's entry points, the Python wrappers, the benchmarks.

## 7. Plan

The order goes from the memory the system stands on to the operations its users
see. Done: `PhysicalMemory`; `Ranges` / `RangeAllocator` / `SmallAllocator`;
`VMMAllocator`; `BlockLayout` / `LargeAllocator`; `OomRetry`; `DeviceStats`;
`MemoryAccess`; and the proofs of section 5. To come:

1. Streams and pages in one model, for `emptyCache` with kernels queued.
2. A history of released pools for `pool_allocs_` entries created anew.
