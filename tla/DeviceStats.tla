----------------------------- MODULE DeviceStats -----------------------------
(***************************************************************************)
(* PoolStats of one device and what getDeviceStats makes of them           *)
(* (csrc/vmm_allocator.cc): counters that every thread updates and reads   *)
(* without a lock.  Each access to an atomic is one step.                  *)
(*                                                                         *)
(* A call is recordAlloc or recordFree on one pool, or a reset, which does *)
(* the small pool and then the large one; step is the access it makes next *)
(* and pool the one it works on.  An allocation is freed only after its    *)
(* recordAlloc has returned, since free looks up the metadata that         *)
(* alloc_impl publishes afterwards.                                        *)
(***************************************************************************)
EXTENDS Integers, FiniteSets, Totals

CONSTANTS
  Threads,
  Sizes,        \* bytes of an allocation
  MaxCalls      \* bound: calls begun in a behaviour

ASSUME StatsAssumption ==
  /\ IsFiniteSet(Threads) /\ IsFiniteSet(Sizes)
  /\ Sizes \subseteq Nat \ {0}

VARIABLES
  current_bytes, peak_bytes,             \* pool -> counter
  accumulated_alloc, accumulated_freed,
  num_allocs, num_frees,
  call,          \* thread -> call in progress, NoCall between the calls
  live,          \* pool -> size -> live allocations of that size
  most,          \* history: pool -> most bytes in use since the last resetPeak
  most_total,    \* history: most bytes in use in all pools since then
  base,          \* history: pool -> bytes and number at the last resetAccumulated
  solo,          \* history: the thread whose call has overlapped no other
  torn,          \* history: reset -> pools whose counters a reset that
                 \* overlapped another call has spoilt
  calls_begun    \* up to MaxCalls

Pools == {"small", "large"}   \* small_stats and large_stats

bytes == <<current_bytes, peak_bytes>>
accumulated == <<accumulated_alloc, accumulated_freed, num_allocs, num_frees>>
history == <<most, most_total, base>>
overlap == <<solo, torn>>
vars == <<bytes, accumulated, call, live, history, overlap, calls_begun>>

Resets == {"resetPeak", "resetAccumulated"}

Zero == [p \in Pools |-> 0]
Both(f) == f["small"] + f["large"]
LiveBytes(p) == Total([n \in Sizes |-> n * live[p][n]])
LiveCount(p) == Total(live[p])

Call(op, p, n, step) ==
  [op |-> op, pool |-> p, size |-> n, cur |-> 0, prev |-> 0, step |-> step]
NoCall == Call("none", "small", 0, "none")

Init ==
  /\ current_bytes = Zero /\ peak_bytes = Zero
  /\ accumulated_alloc = Zero /\ accumulated_freed = Zero
  /\ num_allocs = Zero /\ num_frees = Zero
  /\ call = [t \in Threads |-> NoCall]
  /\ live = [p \in Pools |-> [n \in Sizes |-> 0]]
  /\ most = Zero /\ most_total = 0
  /\ base = [p \in Pools |-> [bytes |-> 0, count |-> 0]]
  /\ solo = {} /\ torn = [k \in Resets |-> {}]
  /\ calls_begun = 0

Running == {t \in Threads : call[t].op # "none"}
Quiet == Running = {}

At(t, op, step) == call[t].op = op /\ call[t].step = step
Goto(t, step) == call' = [call EXCEPT ![t].step = step]
Return(t) == call' = [call EXCEPT ![t] = NoCall]
Advance(f, p, n) == f' = [f EXCEPT ![p] = @ + n]

-----------------------------------------------------------------------------
(* A reset that overlaps another call spoils the counters it resets, until *)
(* one that overlaps none has set them again (Mends).                      *)
Begin(t, op, p, n, step) ==
  /\ t \notin Running /\ calls_begun < MaxCalls
  /\ solo' = IF Quiet THEN {t} ELSE {}
  /\ torn' = [k \in Resets |->
                IF ~ Quiet /\ (op = k \/ \E u \in Running : call[u].op = k)
                THEN Pools ELSE torn[k]]
  /\ calls_begun' = calls_begun + 1
  /\ call' = [call EXCEPT ![t] = Call(op, p, n, step)]

BeginAlloc(t, p, n) ==
  /\ Begin(t, "recordAlloc", p, n, "current")
  /\ UNCHANGED <<bytes, accumulated, live, history>>

BeginFree(t, p, n) ==
  /\ live[p][n] > 0
  /\ live' = [live EXCEPT ![p][n] = @ - 1]
  /\ Begin(t, "recordFree", p, n, "current")
  /\ UNCHANGED <<bytes, accumulated, history>>

BeginReset(t, op, step) ==
  /\ Begin(t, op, "small", 0, step)
  /\ UNCHANGED <<bytes, accumulated, live, history>>

-----------------------------------------------------------------------------
(* recordAlloc *)

Grown(m, n) == IF n > m THEN n ELSE m

AddCurrent(t) ==
  LET p == call[t].pool
      cur == current_bytes[p] + call[t].size
  IN /\ At(t, "recordAlloc", "current")
     /\ Advance(current_bytes, p, call[t].size)
     /\ call' = [call EXCEPT ![t].cur = cur, ![t].step = "accumulated"]
     /\ most' = [most EXCEPT ![p] = Grown(@, cur)]
     /\ most_total' = Grown(most_total, Both(current_bytes) + call[t].size)
     /\ UNCHANGED <<peak_bytes, accumulated, live, base, overlap, calls_begun>>

AddAccumulated(t) ==
  /\ At(t, "recordAlloc", "accumulated")
  /\ Advance(accumulated_alloc, call[t].pool, call[t].size)
  /\ Goto(t, "num")
  /\ UNCHANGED <<bytes, accumulated_freed, num_allocs, num_frees, live, history,
                 overlap, calls_begun>>

AddNum(t) ==
  /\ At(t, "recordAlloc", "num")
  /\ Advance(num_allocs, call[t].pool, 1)
  /\ Goto(t, "load")
  /\ UNCHANGED <<bytes, accumulated_alloc, accumulated_freed, num_frees, live, history,
                 overlap, calls_begun>>

LoadPeak(t) ==
  /\ At(t, "recordAlloc", "load")
  /\ call' = [call EXCEPT ![t].prev = peak_bytes[call[t].pool], ![t].step = "cas"]
  /\ UNCHANGED <<bytes, accumulated, live, history, overlap, calls_begun>>

(* The allocation becomes visible to free once recordAlloc has returned. *)
Publish(t) ==
  /\ live' = [live EXCEPT ![call[t].pool][call[t].size] = @ + 1]
  /\ Return(t)

Bug_UpdatePeak(t) ==                   \* mutant: one attempt, no loop
  /\ At(t, "recordAlloc", "cas")
  /\ LET c == call[t]
     IN peak_bytes' = [peak_bytes EXCEPT ![c.pool] =
          IF c.cur > c.prev /\ @ = c.prev THEN c.cur ELSE @]
  /\ Publish(t)
  /\ UNCHANGED <<current_bytes, accumulated, history, overlap, calls_begun>>

(* The loop: nothing to do, an exchange that succeeds, or one that fails   *)
(* (compare_exchange_weak may, even with the expected value) and reloads.  *)
UpdatePeak(t) ==
  /\ At(t, "recordAlloc", "cas")
  /\ LET c == call[t]
     IN \/ /\ c.cur <= c.prev
           /\ Publish(t)
           /\ UNCHANGED peak_bytes
        \/ /\ c.cur > c.prev /\ peak_bytes[c.pool] = c.prev
           /\ peak_bytes' = [peak_bytes EXCEPT ![c.pool] = c.cur]
           /\ Publish(t)
        \/ /\ c.cur > c.prev
           /\ call' = [call EXCEPT ![t].prev = peak_bytes[c.pool]]
           /\ UNCHANGED <<peak_bytes, live>>
  /\ UNCHANGED <<current_bytes, accumulated, history, overlap, calls_begun>>

-----------------------------------------------------------------------------
(* recordFree *)

SubCurrent(t) ==
  /\ At(t, "recordFree", "current")
  /\ Advance(current_bytes, call[t].pool, -call[t].size)
  /\ Goto(t, "accumulated")
  /\ UNCHANGED <<peak_bytes, accumulated, live, history, overlap, calls_begun>>

AddFreed(t) ==
  /\ At(t, "recordFree", "accumulated")
  /\ Advance(accumulated_freed, call[t].pool, call[t].size)
  /\ Goto(t, "num")
  /\ UNCHANGED <<bytes, accumulated_alloc, num_allocs, num_frees, live, history,
                 overlap, calls_begun>>

AddNumFrees(t) ==
  /\ At(t, "recordFree", "num")
  /\ Advance(num_frees, call[t].pool, 1)
  /\ Return(t)
  /\ UNCHANGED <<bytes, accumulated_alloc, accumulated_freed, num_allocs, live, history,
                 overlap, calls_begun>>

-----------------------------------------------------------------------------
(* resetPeakStats: for each pool a load of current_bytes and a store to    *)
(* peak_bytes; resetAccumulatedStats: for each pool four stores.           *)

Mends(t, op, p) ==
  torn' = [torn EXCEPT ![op] = IF t \in solo THEN @ \ {p} ELSE @]

NextPool(t, first) ==
  IF call[t].pool = "small"
  THEN call' = [call EXCEPT ![t].pool = "large", ![t].step = first]
  ELSE Return(t)

LoadCurrent(t) ==
  /\ At(t, "resetPeak", "load")
  /\ call' = [call EXCEPT ![t].cur = current_bytes[call[t].pool], ![t].step = "store"]
  /\ UNCHANGED <<bytes, accumulated, live, history, overlap, calls_begun>>

StorePeak(t) ==
  LET p == call[t].pool
  IN /\ At(t, "resetPeak", "store")
     /\ peak_bytes' = [peak_bytes EXCEPT ![p] = call[t].cur]
     /\ NextPool(t, "load")
     /\ most' = [most EXCEPT ![p] = current_bytes[p]]
     /\ most_total' = IF p = "large" THEN Both(current_bytes) ELSE most_total
     /\ Mends(t, "resetPeak", p)
     /\ UNCHANGED <<current_bytes, accumulated, live, base, solo, calls_begun>>

ClearAlloc(t) ==
  /\ At(t, "resetAccumulated", "alloc")
  /\ accumulated_alloc' = [accumulated_alloc EXCEPT ![call[t].pool] = 0]
  /\ Goto(t, "freed")
  /\ UNCHANGED <<bytes, accumulated_freed, num_allocs, num_frees, live, history,
                 overlap, calls_begun>>

ClearFreed(t) ==
  /\ At(t, "resetAccumulated", "freed")
  /\ accumulated_freed' = [accumulated_freed EXCEPT ![call[t].pool] = 0]
  /\ Goto(t, "allocs")
  /\ UNCHANGED <<bytes, accumulated_alloc, num_allocs, num_frees, live, history,
                 overlap, calls_begun>>

ClearAllocs(t) ==
  /\ At(t, "resetAccumulated", "allocs")
  /\ num_allocs' = [num_allocs EXCEPT ![call[t].pool] = 0]
  /\ Goto(t, "frees")
  /\ UNCHANGED <<bytes, accumulated_alloc, accumulated_freed, num_frees, live, history,
                 overlap, calls_begun>>

Bug_ClearFrees(t) ==                   \* mutant: num_frees keeps its value
  /\ At(t, "resetAccumulated", "frees")
  /\ NextPool(t, "alloc")
  /\ base' = [base EXCEPT ![call[t].pool] =
                [bytes |-> LiveBytes(call[t].pool), count |-> LiveCount(call[t].pool)]]
  /\ Mends(t, "resetAccumulated", call[t].pool)
  /\ UNCHANGED <<bytes, accumulated, live, most, most_total, solo, calls_begun>>

ClearFrees(t) ==
  LET p == call[t].pool
  IN /\ At(t, "resetAccumulated", "frees")
     /\ num_frees' = [num_frees EXCEPT ![p] = 0]
     /\ NextPool(t, "alloc")
     /\ base' = [base EXCEPT ![p] = [bytes |-> LiveBytes(p), count |-> LiveCount(p)]]
     /\ Mends(t, "resetAccumulated", p)
     /\ UNCHANGED <<bytes, accumulated_alloc, accumulated_freed, num_allocs, live,
                    most, most_total, solo, calls_begun>>

-----------------------------------------------------------------------------
(* getDeviceStats while no update runs: pools, and the aggregate entry. *)
PoolReport(p) ==
  [current |-> current_bytes[p], peak |-> peak_bytes[p],
   allocated |-> accumulated_alloc[p], freed |-> accumulated_freed[p],
   count |-> num_allocs[p] - num_frees[p]]

Bug_AggregateReport ==                 \* mutant: the larger of the two peaks
  [f \in {"current", "peak", "allocated", "freed", "count"} |->
     IF f = "peak" THEN Max({peak_bytes[p] : p \in Pools})
     ELSE PoolReport("small")[f] + PoolReport("large")[f]]

AggregateReport ==
  [f \in {"current", "peak", "allocated", "freed", "count"} |->
     PoolReport("small")[f] + PoolReport("large")[f]]

Calls(t) ==
  \/ \E p \in Pools, n \in Sizes : BeginAlloc(t, p, n) \/ BeginFree(t, p, n)
  \/ BeginReset(t, "resetPeak", "load")
  \/ BeginReset(t, "resetAccumulated", "alloc")

Step(t) ==
  \/ AddCurrent(t) \/ AddAccumulated(t) \/ AddNum(t) \/ LoadPeak(t) \/ UpdatePeak(t)
  \/ SubCurrent(t) \/ AddFreed(t) \/ AddNumFrees(t)
  \/ LoadCurrent(t) \/ StorePeak(t)
  \/ ClearAlloc(t) \/ ClearFreed(t) \/ ClearAllocs(t) \/ ClearFrees(t)

Next == \E t \in Threads : Calls(t) \/ Step(t)

Spec == Init /\ [][Next]_vars

-----------------------------------------------------------------------------
Records ==
  [op : {"none", "recordAlloc", "recordFree", "resetPeak", "resetAccumulated"},
   pool : Pools, size : Nat, cur : Int, prev : Int,
   step : {"none", "current", "accumulated", "num", "load", "cas", "store",
           "alloc", "freed", "allocs", "frees"}]

TypeOK ==
  /\ current_bytes \in [Pools -> Int] /\ peak_bytes \in [Pools -> Int]
  /\ most \in [Pools -> Int]
  /\ call \in [Threads -> Records]
  /\ torn \in [Resets -> SUBSET Pools] /\ solo \subseteq Threads

(* peak_bytes is the most bytes that were in use since it was last reset,  *)
(* unless the allocation that reached that mark is still on its way to the *)
(* compare-and-swap loop: no race of two allocations leaves it too low,    *)
(* and none raises it above the truth.  Only a reset that overlaps another *)
(* call spoils it, and the next reset that overlaps none mends it.         *)
PeakExact ==
  \A p \in Pools \ torn["resetPeak"] :
    /\ peak_bytes[p] <= most[p]
    /\ \/ peak_bytes[p] = most[p]
       \/ \E t \in Running : /\ call[t].op = "recordAlloc" /\ call[t].pool = p
                             /\ call[t].cur = most[p]

(* With no call under way current_bytes is the bytes of the live           *)
(* allocations, and what getDeviceStats derives from the counters is the   *)
(* change since they were last reset: frees of older allocations count, so *)
(* the derived number of allocations may be negative.  No overlap of calls *)
(* loses a byte of the former; a reset among other calls spoils the latter *)
(* until the next one that overlaps none.                                  *)
CountersExact ==
  Quiet => \A p \in Pools :
    /\ PoolReport(p).current = LiveBytes(p)
    /\ p \notin torn["resetAccumulated"] =>
         /\ PoolReport(p).allocated - PoolReport(p).freed = LiveBytes(p) - base[p].bytes
         /\ PoolReport(p).count = LiveCount(p) - base[p].count

(* The peak getDeviceStats reports for both pools together is the sum of   *)
(* two peaks, which may lie at different times: it is never less than what *)
(* was in use at any one time since the last reset, unless that reset      *)
(* overlapped another call.                                                *)
AggregatePeakCovers ==
  Quiet /\ torn["resetPeak"] = {} =>
    AggregateReport.current <= most_total /\ most_total <= AggregateReport.peak

(* "After this call peak_bytes equals current_bytes for both pools"        *)
(* (zcg/memory.py): with no call under way a peak is at least what is in   *)
(* use.                                                                    *)
PeakCoversCurrent == Quiet => \A p \in Pools : peak_bytes[p] >= current_bytes[p]
=============================================================================
