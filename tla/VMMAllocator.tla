----------------------------- MODULE VMMAllocator -----------------------------
(***************************************************************************)
(* The top-level allocator (csrc/vmm_allocator.cc): routing, allocation    *)
(* metadata, deferred frees guarded by CUDA events, the OOM retries, the   *)
(* CUDA graph pools and the current-bytes statistics.  Host threads run    *)
(* its operations concurrently; what the code does in one critical section *)
(* of meta_mu_, or between two of them, is one action of thread t.         *)
(*                                                                         *)
(* A pending free is [ptr, meta, events].  work[t] holds the allocations   *)
(* thread t has taken out of the shared tables and has not passed on yet:  *)
(* the locals ready, to_free, pf, ptrs_to_free, ... of the operations.     *)
(*                                                                         *)
(* External: the sub-allocators, as the set of addresses handed out (their *)
(* own modules say how); CUDA streams, as queues of kernels and events;    *)
(* the program that holds pointers and launches kernels.                   *)
(***************************************************************************)
EXTENDS Integers, Sequences, FiniteSets, FiniteSetsExt, SequencesExt

CONSTANTS
  Threads, Devices, Streams, Ptrs, Events, Pools,
  NoPool,            \* the pool id {0, 0}
  NoReq,             \* no allocation in progress
  Sizes,             \* request sizes
  Thresholds,        \* values of the small/large threshold; Default is one
  DefaultThreshold,
  EnableValues,      \* arguments of enable()
  Filters,           \* stream filters given to beginAllocateToPool
  StreamDevice,      \* stream -> its device
  AllocStreams,      \* streams allocations are made on
  PtrDevice,         \* address -> the device it is reserved on
  PtrLarge,          \* address -> is it a LargeAllocator address
  KeepPoolPtrs,      \* may the program hold pointers of a pool it releases?
  Faults,            \* CUDA calls that may fail: "create" and "record" an event
  MaxHeld,           \* bound: pointers the program holds or is asking for
  MaxActivePools,    \* bound: nesting of beginAllocateToPool on a device
  MaxQueue           \* bound: operations queued on a stream

ASSUME SizesAssumption ==
  /\ Sizes \subseteq Nat \ {0}
  /\ Thresholds \subseteq Nat /\ DefaultThreshold \in Thresholds
ASSUME PlaceAssumption ==
  /\ StreamDevice \in [Streams -> Devices] /\ AllocStreams \subseteq Streams
  /\ PtrDevice \in [Ptrs -> Devices] /\ PtrLarge \in [Ptrs -> BOOLEAN]
  /\ Filters \subseteq SUBSET Streams
  /\ NoPool \notin Pools
  /\ EnableValues \subseteq BOOLEAN /\ KeepPoolPtrs \in BOOLEAN
  /\ MaxHeld \in Nat /\ MaxActivePools \in Nat /\ MaxQueue \in Nat
ASSUME FaultsAssumption == Faults \subseteq {"create", "record"}

VARIABLES
  meta_,             \* address -> AllocMeta of the live allocations
  pending_frees_,    \* deferred frees
  pool_allocs_,      \* pool id -> live allocations tagged with it
  active_pools_,     \* device -> stack of [id, filter]
  threshold_, enabled_,
  event_pool_,       \* EventPool::pool_
  event_device,      \* device of every event created so far
  dropped,           \* history: entries of free_impl calls that threw
  current_bytes,     \* <<device, is_large>> -> PoolStats::current_bytes
  sub,               \* external: addresses the sub-allocators handed out
  queue,             \* external: stream -> kernels and events not yet done
  held,              \* external: address -> how many holders the program has
  pc,                \* what the thread does next
  req,               \* metadata of the allocation it is making
  level,             \* which attempt that is: 0, or retry level 1 or 2
  work,              \* entries it has taken and not passed on yet
  todo               \* streams or devices its loop has still to visit

tables == <<meta_, pending_frees_, pool_allocs_>>
config == <<active_pools_, threshold_, enabled_>>
event_vars == <<event_pool_, event_device, dropped>>
locals == <<pc, req, level, work, todo>>
vars == <<tables, config, event_vars, current_bytes, sub, queue, held, locals>>

AllocMeta ==
  [size : Sizes, device : Devices, is_large : BOOLEAN, alloc_stream : Streams,
   pool_id : Pools \union {NoPool}, recorded_streams : SUBSET Streams]
PendingFree == [ptr : Ptrs, meta : AllocMeta, events : SUBSET Events]
Operation == [kind : {"kernel", "event"}, of : Ptrs \union Events]

ActivePoolEntry == [id : Pools, filter : SUBSET Streams]

PcValues == {"idle", "poll", "attempt", "force", "publish", "record", "dofree",
             "flush", "release"}

Entry(p, m) == [ptr |-> p, meta |-> m, events |-> {}]
Kernel(p) == [kind |-> "kernel", of |-> p]
Marker(e) == [kind |-> "event", of |-> e]

(* The streams that still have to execute an operation. *)
Queued(op) == {s \in Streams : \E i \in DOMAIN queue[s] : queue[s][i] = op}

(* cudaEventQuery: the streams have passed the last record of the events.  *)
Done(events) == \A e \in events : Queued(Marker(e)) = {}

EmptyMap == [x \in {} |-> x]
Put(f, k, v) == [x \in DOMAIN f \union {k} |-> IF x = k THEN v ELSE f[x]]
Without(f, S) == [x \in DOMAIN f \ S |-> f[x]]

Init ==
  /\ meta_ = EmptyMap /\ pending_frees_ = {} /\ pool_allocs_ = EmptyMap
  /\ active_pools_ = [d \in Devices |-> <<>>]
  /\ threshold_ = DefaultThreshold /\ enabled_ = TRUE
  /\ event_pool_ = {} /\ event_device = EmptyMap /\ dropped = {}
  /\ current_bytes = [c \in Devices \X BOOLEAN |-> 0]
  /\ sub = {} /\ queue = [s \in Streams |-> <<>>] /\ held = [p \in Ptrs |-> 0]
  /\ pc = [t \in Threads |-> "idle"] /\ work = [t \in Threads |-> {}]
  /\ req = [t \in Threads |-> NoReq] /\ level = [t \in Threads |-> 0]
  /\ todo = [t \in Threads |-> {}]

Goto(t, label) == pc' = [pc EXCEPT ![t] = label]
SetWork(t, entries) == work' = [work EXCEPT ![t] = entries]

-----------------------------------------------------------------------------
(* Mutant: the statistics are chosen by the threshold of the moment. *)
Bug_doFree(pf) ==
  /\ sub' = sub \ {pf.ptr}
  /\ current_bytes' =
       [current_bytes EXCEPT ![<<pf.meta.device, pf.meta.size >= threshold_>>] =
          @ - pf.meta.size]

(* doFree: give the address back to the sub-allocator its metadata names   *)
(* (which knows it only if it is one of its own) and to the statistics.    *)
doFree(pf) ==
  /\ sub' = sub \ {p \in {pf.ptr} : /\ PtrDevice[p] = pf.meta.device
                                    /\ PtrLarge[p] = pf.meta.is_large}
  /\ current_bytes' =
       [current_bytes EXCEPT ![<<pf.meta.device, pf.meta.is_large>>] = @ - pf.meta.size]

release(events) == event_pool_' = event_pool_ \union events

(* EventPool::acquire by a thread whose current device is d. *)
acquire(e, d) ==
  \/ /\ e \in event_pool_
     /\ event_pool_' = event_pool_ \ {e}
     /\ UNCHANGED event_device
  \/ /\ event_pool_ = {} /\ e \in Events \ DOMAIN event_device
     /\ event_device' = Put(event_device, e, d)
     /\ UNCHANGED event_pool_

-----------------------------------------------------------------------------
(* alloc_impl *)

(* Only the entry on top of the device's stack is asked. *)
ActivePool(dev, stream) ==
  LET stack == active_pools_[dev]
  IN IF stack # <<>> /\ stream \in stack[Len(stack)].filter
     THEN stack[Len(stack)].id ELSE NoPool

Holders == MapThenSumSet(LAMBDA p : held[p], Ptrs)

(* Checks, routing and the pool lookup; the thread is on stream's device.  *)
AllocBegin(t, size, stream) ==
  LET dev == StreamDevice[stream]
  IN /\ pc[t] = "idle" /\ enabled_
     /\ Holders + Cardinality({u \in Threads : req[u] # NoReq}) < MaxHeld
     /\ req' = [req EXCEPT ![t] =
          [size |-> size, device |-> dev, is_large |-> size >= threshold_,
           alloc_stream |-> stream, pool_id |-> ActivePool(dev, stream),
           recorded_streams |-> {}]]
     /\ level' = [level EXCEPT ![t] = 0]
     /\ Goto(t, "poll")
     /\ UNCHANGED <<tables, config, event_vars, current_bytes, sub, queue, held,
                    work, todo>>

Bug_PollCollect(t) ==                  \* mutant: collected but not erased
  /\ pc[t] = "poll"
  /\ SetWork(t, {pf \in pending_frees_ : Done(pf.events)})
  /\ Goto(t, "attempt")
  /\ UNCHANGED <<tables, config, event_vars, current_bytes, sub, queue, held, req,
                 level, todo>>

(* processPendingFrees: take every entry whose events have completed. *)
PollCollect(t) ==
  LET ready == {pf \in pending_frees_ : Done(pf.events)}
  IN /\ pc[t] = "poll"
     /\ pending_frees_' = pending_frees_ \ ready
     /\ SetWork(t, ready)
     /\ Goto(t, "attempt")
     /\ UNCHANGED <<meta_, pool_allocs_, config, event_vars, current_bytes, sub,
                    queue, held, req, level, todo>>

Bug_ForceCollect(t) ==                 \* mutant: only what has completed
  LET to_free == {pf \in pending_frees_ :
                    pf.meta.device = req[t].device /\ Done(pf.events)}
  IN /\ pc[t] = "force"
     /\ pending_frees_' = pending_frees_ \ to_free
     /\ SetWork(t, to_free)
     /\ Goto(t, "attempt")
     /\ UNCHANGED <<meta_, pool_allocs_, config, event_vars, current_bytes, sub,
                    queue, held, req, level, todo>>

(* forceProcessPendingFrees: take every entry of the device. *)
ForceCollect(t) ==
  LET to_free == {pf \in pending_frees_ : pf.meta.device = req[t].device}
  IN /\ pc[t] = "force"
     /\ pending_frees_' = pending_frees_ \ to_free
     /\ SetWork(t, to_free)
     /\ Goto(t, "attempt")
     /\ UNCHANGED <<meta_, pool_allocs_, config, event_vars, current_bytes, sub,
                    queue, held, req, level, todo>>

Bug_Reap(t) ==                         \* mutant: no cudaEventSynchronize
  /\ pc[t] \in {"attempt", "flush"}
  /\ \E pf \in work[t] :
       release(pf.events) /\ doFree(pf) /\ SetWork(t, work[t] \ {pf})
  /\ UNCHANGED <<tables, config, event_device, dropped, queue, held, pc, req, level, todo>>

(* Free one collected entry outside the lock: its events return to the     *)
(* EventPool, its address to the sub-allocator.  In the forced mode        *)
(* cudaEventSynchronize blocks until the events have completed.            *)
Reap(t) ==
  /\ pc[t] \in {"attempt", "flush"}
  /\ \E pf \in work[t] :
       /\ (pc[t] = "attempt" /\ level[t] = 0) \/ Done(pf.events)
       /\ release(pf.events)
       /\ doFree(pf)
       /\ SetWork(t, work[t] \ {pf})
  /\ UNCHANGED <<tables, config, event_device, dropped, queue, held, pc, req, level, todo>>

FreePlaces(m) ==
  {p \in Ptrs \ sub : PtrDevice[p] = m.device /\ PtrLarge[p] = m.is_large}

(* The sub-allocator finds a place. *)
Allocate(t) ==
  /\ pc[t] = "attempt" /\ work[t] = {}
  /\ \E p \in FreePlaces(req[t]) :
       /\ sub' = sub \union {p}
       /\ SetWork(t, {Entry(p, req[t])})
  /\ Goto(t, "publish")
  /\ UNCHANGED <<tables, config, event_vars, current_bytes, queue, held, req,
                 level, todo>>

Bug_AllocateFails(t) ==                \* mutant: the retries are not counted
  /\ pc[t] = "attempt" /\ work[t] = {}
  /\ FreePlaces(req[t]) = {}
  /\ level' = [level EXCEPT ![t] = 1]
  /\ Goto(t, "force")
  /\ UNCHANGED <<tables, config, event_vars, current_bytes, sub, queue, held, req,
                 work, todo>>

BugLevel_AllocateFails(t) ==           \* mutant: one retry too many
  /\ pc[t] = "attempt" /\ work[t] = {}
  /\ FreePlaces(req[t]) = {}
  /\ level' = [level EXCEPT ![t] = @ + 1]
  /\ Goto(t, "force")
  /\ UNCHANGED <<tables, config, event_vars, current_bytes, sub, queue, held, req,
                 work, todo>>

(* The sub-allocator throws: retry level 1, then 2, then give up (OOM).    *)
(* What the caches release between the attempts is the business of the     *)
(* sub-allocators.                                                         *)
AllocateFails(t) ==
  /\ pc[t] = "attempt" /\ work[t] = {}
  /\ FreePlaces(req[t]) = {}
  /\ IF level[t] < 2
     THEN /\ level' = [level EXCEPT ![t] = @ + 1]
          /\ Goto(t, "force")
          /\ UNCHANGED req
     ELSE /\ level' = [level EXCEPT ![t] = 0]
          /\ Goto(t, "idle")
          /\ req' = [req EXCEPT ![t] = NoReq]
  /\ UNCHANGED <<tables, config, event_vars, current_bytes, sub, queue, held,
                 work, todo>>

(* Mutant: is_large is decided again when the metadata is written. *)
Bug_Publish(t) ==
  /\ pc[t] = "publish"
  /\ \E pf \in work[t] :
       LET large == pf.meta.size >= threshold_
       IN /\ meta_' = Put(meta_, pf.ptr, [pf.meta EXCEPT !.is_large = large])
          /\ current_bytes' = [current_bytes EXCEPT ![<<pf.meta.device, large>>] =
                                 @ + pf.meta.size]
          /\ held' = [held EXCEPT ![pf.ptr] = @ + 1]
  /\ SetWork(t, {}) /\ Goto(t, "idle")
  /\ req' = [req EXCEPT ![t] = NoReq] /\ level' = [level EXCEPT ![t] = 0]
  /\ UNCHANGED <<pending_frees_, pool_allocs_, config, event_vars, sub, queue, todo>>

(* Statistics, meta_ and pool_allocs_; the caller gets the pointer. *)
Publish(t) ==
  /\ pc[t] = "publish"
  /\ \E pf \in work[t] :
       LET id == pf.meta.pool_id
           tagged == IF id \in DOMAIN pool_allocs_ THEN pool_allocs_[id] ELSE {}
       IN /\ meta_' = Put(meta_, pf.ptr, pf.meta)
          /\ pool_allocs_' = IF id = NoPool THEN pool_allocs_
                             ELSE Put(pool_allocs_, id, tagged \union {pf.ptr})
          /\ current_bytes' =
               [current_bytes EXCEPT ![<<pf.meta.device, pf.meta.is_large>>] =
                  @ + pf.meta.size]
          /\ held' = [held EXCEPT ![pf.ptr] = @ + 1]
  /\ SetWork(t, {}) /\ Goto(t, "idle")
  /\ req' = [req EXCEPT ![t] = NoReq] /\ level' = [level EXCEPT ![t] = 0]
  /\ UNCHANGED <<pending_frees_, config, event_vars, sub, queue, todo>>
-----------------------------------------------------------------------------
(* free_impl *)

(* The program drops a pointer the tables do not know: nothing happens.    *)
FreeUnknown(p) ==
  /\ held[p] > 0 /\ p \notin DOMAIN meta_
  /\ held' = [held EXCEPT ![p] = @ - 1]
  /\ UNCHANGED <<tables, config, event_vars, current_bytes, sub, queue, locals>>

Bug_Untracked(p, pool_id) == pool_allocs_   \* mutant: the pool keeps the address

Untracked(p, pool_id) ==
  [id \in DOMAIN pool_allocs_ |->
     IF id = pool_id THEN pool_allocs_[id] \ {p} ELSE pool_allocs_[id]]

Bug_StreamsToRecord(m) == m.recorded_streams  \* mutant: not the alloc stream

StreamsToRecord(m) == m.recorded_streams \union {m.alloc_stream}

(* First critical section: take the allocation out of meta_ and its pool.  *)
(* todo becomes the streams an event is recorded on; without recorded      *)
(* streams there is none, and the address is freed at once.                *)
FreeBegin(t, p) ==
  /\ pc[t] = "idle" /\ held[p] > 0 /\ p \in DOMAIN meta_
  /\ held' = [held EXCEPT ![p] = @ - 1]
  /\ meta_' = Without(meta_, {p})
  /\ pool_allocs_' = Untracked(p, meta_[p].pool_id)
  /\ SetWork(t, {Entry(p, meta_[p])})
  /\ IF meta_[p].recorded_streams = {}
     THEN Goto(t, "dofree") /\ UNCHANGED todo
     ELSE /\ Goto(t, "record")
          /\ todo' = [todo EXCEPT ![t] = StreamsToRecord(meta_[p])]
  /\ UNCHANGED <<pending_frees_, config, event_vars, current_bytes, sub, queue,
                 req, level>>

(* C10_CUDA_CHECK throws out of free_impl: the locals are gone, the entry  *)
(* with its events is in no table any more.                                *)
Throw(t) ==
  /\ dropped' = dropped \union work[t]
  /\ SetWork(t, {})
  /\ todo' = [todo EXCEPT ![t] = {}]
  /\ Goto(t, "idle")

(* No event to reuse, and cudaEventCreateWithFlags fails. *)
AcquireFails(t) ==
  /\ pc[t] = "record" /\ todo[t] # {}
  /\ event_pool_ = {} /\ "create" \in Faults
  /\ Throw(t)
  /\ UNCHANGED <<tables, config, event_pool_, event_device, current_bytes, sub, queue,
                 held, req, level>>

(* An event for one more stream.  cudaEventRecord refuses an event of      *)
(* another device than the stream's, and may fail for other reasons.       *)
RecordEvent(t, s) ==
  /\ pc[t] = "record" /\ s \in todo[t]
  /\ \E e \in Events, d \in Devices :
       /\ acquire(e, d)
       /\ \/ /\ event_device'[e] = StreamDevice[s]
             /\ queue' = [queue EXCEPT ![s] = Append(@, Marker(e))]
             /\ SetWork(t, {[pf EXCEPT !.events = @ \union {e}] : pf \in work[t]})
             /\ todo' = [todo EXCEPT ![t] = @ \ {s}]
             /\ UNCHANGED <<dropped, pc>>
          \/ /\ event_device'[e] # StreamDevice[s] \/ "record" \in Faults
             /\ Throw(t)
             /\ UNCHANGED queue
  /\ UNCHANGED <<tables, config, current_bytes, sub, held, req, level>>

Bug_Defer(t) ==                        \* mutant: assigned, not appended
  /\ pc[t] = "record" /\ todo[t] = {}
  /\ pending_frees_' = work[t]
  /\ SetWork(t, {}) /\ Goto(t, "idle")
  /\ UNCHANGED <<meta_, pool_allocs_, config, event_vars, current_bytes, sub,
                 queue, held, req, level, todo>>

(* Second critical section: the entry becomes a pending free. *)
Defer(t) ==
  /\ pc[t] = "record" /\ todo[t] = {}
  /\ pending_frees_' = pending_frees_ \union work[t]
  /\ SetWork(t, {}) /\ Goto(t, "idle")
  /\ UNCHANGED <<meta_, pool_allocs_, config, event_vars, current_bytes, sub,
                 queue, held, req, level, todo>>

(* No recorded streams: doFree at once. *)
FreeNow(t) ==
  /\ pc[t] = "dofree"
  /\ \E pf \in work[t] : doFree(pf)
  /\ SetWork(t, {}) /\ Goto(t, "idle")
  /\ UNCHANGED <<tables, config, event_vars, queue, held, req, level, todo>>

recordStream(p, s) ==
  /\ held[p] > 0 /\ p \in DOMAIN meta_
  /\ s \notin meta_[p].recorded_streams
  /\ meta_' = [meta_ EXCEPT ![p].recorded_streams = @ \union {s}]
  /\ UNCHANGED <<pending_frees_, pool_allocs_, config, event_vars,
                 current_bytes, sub, queue, held, locals>>

-----------------------------------------------------------------------------
(* emptyCache: forceProcessPendingFrees of one device after the other. *)
EmptyCacheBegin(t) ==
  /\ pc[t] = "idle"
  /\ todo' = [todo EXCEPT ![t] = Devices]
  /\ Goto(t, "flush")
  /\ UNCHANGED <<tables, config, event_vars, current_bytes, sub, queue, held,
                 req, level, work>>

FlushDevice(t, d) ==
  /\ pc[t] = "flush" /\ work[t] = {} /\ d \in todo[t]
  /\ todo' = [todo EXCEPT ![t] = @ \ {d}]
  /\ SetWork(t, {pf \in pending_frees_ : pf.meta.device = d})
  /\ pending_frees_' = {pf \in pending_frees_ : pf.meta.device # d}
  /\ UNCHANGED <<meta_, pool_allocs_, config, event_vars, current_bytes, sub,
                 queue, held, pc, req, level>>

EmptyCacheEnd(t) ==
  /\ pc[t] = "flush" /\ work[t] = {} /\ todo[t] = {}
  /\ Goto(t, "idle")
  /\ UNCHANGED <<tables, config, event_vars, current_bytes, sub, queue, held,
                 req, level, work, todo>>

-----------------------------------------------------------------------------
(* CUDA graph pools *)

(* The program captures on devices it allocates on. *)
CapturedDevices == {StreamDevice[s] : s \in AllocStreams}

beginAllocateToPool(dev, id, filter) ==
  /\ dev \in CapturedDevices
  /\ Len(active_pools_[dev]) < MaxActivePools
  /\ active_pools_' = [active_pools_ EXCEPT ![dev] =
                         Append(@, [id |-> id, filter |-> filter])]
  /\ UNCHANGED <<tables, threshold_, enabled_, event_vars, current_bytes, sub,
                 queue, held, locals>>

(* The most recent entry with this id leaves the stack. *)
endAllocateToPool(dev, id) ==
  /\ \E i \in DOMAIN active_pools_[dev] :
       /\ active_pools_[dev][i].id = id
       /\ \A j \in DOMAIN active_pools_[dev] :
            j > i => active_pools_[dev][j].id # id
       /\ active_pools_' = [active_pools_ EXCEPT ![dev] = RemoveAt(@, i)]
  /\ UNCHANGED <<tables, threshold_, enabled_, event_vars, current_bytes, sub,
                 queue, held, locals>>

Bug_ReleasePoolBegin(t, id) ==         \* mutant: the live ones stay in meta_
  /\ pc[t] = "idle" /\ id \in DOMAIN pool_allocs_
  /\ LET live == pool_allocs_[id] \intersect DOMAIN meta_
         pool_pending == {pf \in pending_frees_ : pf.meta.pool_id = id}
         entries == {Entry(p, meta_[p]) : p \in live} \union pool_pending
     IN /\ KeepPoolPtrs \/ \A p \in live : held[p] = 0
        /\ pool_allocs_' = Without(pool_allocs_, {id})
        /\ pending_frees_' = pending_frees_ \ pool_pending
        /\ SetWork(t, entries)
        /\ Goto(t, IF entries = {} THEN "idle" ELSE "release")
  /\ UNCHANGED <<meta_, config, event_vars, current_bytes, sub, queue, held, req,
                 level, todo>>

(* releasePool, critical section: the live allocations of the pool, and    *)
(* its pending frees, are taken out of the tables.                         *)
ReleasePoolBegin(t, id) ==
  /\ pc[t] = "idle" /\ id \in DOMAIN pool_allocs_
  /\ LET live == pool_allocs_[id] \intersect DOMAIN meta_
         pool_pending == {pf \in pending_frees_ : pf.meta.pool_id = id}
         entries == {Entry(p, meta_[p]) : p \in live} \union pool_pending
     IN /\ KeepPoolPtrs \/ \A p \in live : held[p] = 0
        /\ meta_' = Without(meta_, live)
        /\ pool_allocs_' = Without(pool_allocs_, {id})
        /\ pending_frees_' = pending_frees_ \ pool_pending
        /\ SetWork(t, entries)
        /\ Goto(t, IF entries = {} THEN "idle" ELSE "release")
  /\ UNCHANGED <<config, event_vars, current_bytes, sub, queue, held, req,
                 level, todo>>

Bug_ReleasePoolSync(t) ==              \* mutant: synchronized, never freed
  /\ pc[t] = "release"
  /\ \E pf \in work[t] :
       /\ pf.events # {} /\ Done(pf.events)
       /\ release(pf.events)
       /\ SetWork(t, work[t] \ {pf})
  /\ UNCHANGED <<tables, config, event_device, dropped, current_bytes, sub, queue,
                 held, pc, req, level, todo>>

(* Outside the lock, first wait for the events of the pending frees ... *)
ReleasePoolSync(t) ==
  /\ pc[t] = "release"
  /\ \E pf \in work[t] :
       /\ pf.events # {} /\ Done(pf.events)
       /\ release(pf.events)
       /\ SetWork(t, (work[t] \ {pf}) \union {[pf EXCEPT !.events = {}]})
  /\ UNCHANGED <<tables, config, event_device, dropped, current_bytes, sub, queue,
                 held, pc, req, level, todo>>

(* ... then free everything. *)
ReleasePoolFree(t) ==
  /\ pc[t] = "release"
  /\ \A pf \in work[t] : pf.events = {}
  /\ \E pf \in work[t] :
       /\ doFree(pf)
       /\ SetWork(t, work[t] \ {pf})
       /\ Goto(t, IF work[t] = {pf} THEN "idle" ELSE "release")
  /\ UNCHANGED <<tables, config, event_vars, queue, held, req, level, todo>>

-----------------------------------------------------------------------------
(* Configuration *)

setThreshold(bytes) ==
  /\ threshold_ # bytes /\ threshold_' = bytes
  /\ UNCHANGED <<tables, active_pools_, enabled_, event_vars, current_bytes,
                 sub, queue, held, locals>>

enable(value) ==
  /\ enabled_ # value /\ enabled_' = value
  /\ UNCHANGED <<tables, active_pools_, threshold_, event_vars, current_bytes,
                 sub, queue, held, locals>>

-----------------------------------------------------------------------------
(* The program and the GPU *)

(* A kernel uses a live allocation, on its allocation stream or on one the *)
(* program has told recordStream about.                                    *)
Launch(p, s) ==
  /\ held[p] > 0 /\ p \in DOMAIN meta_
  /\ s \in {meta_[p].alloc_stream} \union meta_[p].recorded_streams
  /\ Len(queue[s]) < MaxQueue
  /\ queue' = [queue EXCEPT ![s] = Append(@, Kernel(p))]
  /\ UNCHANGED <<tables, config, event_vars, current_bytes, sub, held, locals>>

(* A stream completes its oldest operation. *)
GpuStep(s) ==
  /\ queue[s] # <<>>
  /\ queue' = [queue EXCEPT ![s] = Tail(@)]
  /\ UNCHANGED <<tables, config, event_vars, current_bytes, sub, held, locals>>

Calls(t) ==
  \/ \E size \in Sizes, s \in AllocStreams : AllocBegin(t, size, s)
  \/ \E p \in Ptrs : FreeBegin(t, p)
  \/ \E id \in Pools : ReleasePoolBegin(t, id)
  \/ EmptyCacheBegin(t)

ThreadStep(t) ==
  \/ PollCollect(t)
  \/ ForceCollect(t)
  \/ Reap(t)
  \/ Allocate(t)
  \/ AllocateFails(t)
  \/ Publish(t)
  \/ AcquireFails(t)
  \/ \E s \in Streams : RecordEvent(t, s)
  \/ Defer(t)
  \/ FreeNow(t)
  \/ \E d \in Devices : FlushDevice(t, d)
  \/ EmptyCacheEnd(t)
  \/ ReleasePoolSync(t)
  \/ ReleasePoolFree(t)

Others ==
  \/ \E p \in Ptrs : FreeUnknown(p)
  \/ \E p \in Ptrs, s \in Streams : recordStream(p, s)
  \/ \E p \in Ptrs, s \in Streams : Launch(p, s)
  \/ \E d \in Devices, id \in Pools, f \in Filters : beginAllocateToPool(d, id, f)
  \/ \E d \in Devices, id \in Pools : endAllocateToPool(d, id)
  \/ \E b \in Thresholds : setThreshold(b)
  \/ \E v \in EnableValues : enable(v)

Gpu == \E s \in Streams : GpuStep(s)

Next ==
  \/ \E t \in Threads : Calls(t) \/ ThreadStep(t)
  \/ Others
  \/ Gpu

Spec == Init /\ [][Next]_vars

(* The operating system runs every thread inside an operation, and the GPU *)
(* executes what is queued; nobody is forced to call an operation.         *)
Fairness ==
  /\ \A t \in Threads : WF_vars(ThreadStep(t))
  /\ \A s \in Streams : WF_vars(GpuStep(s))
FairSpec == Spec /\ Fairness

-----------------------------------------------------------------------------
PendingPtrs == {pf.ptr : pf \in pending_frees_}
WorkPtrs(t) == {pf.ptr : pf \in work[t]}
Entries == pending_frees_ \union UNION {work[t] : t \in Threads}
OwnedPtrs == DOMAIN meta_ \union PendingPtrs \union UNION {WorkPtrs(t) : t \in Threads}
DroppedPtrs == {pf.ptr : pf \in dropped}

TablesOK ==
  /\ DOMAIN meta_ \subseteq Ptrs /\ meta_ \in [DOMAIN meta_ -> AllocMeta]
  /\ pending_frees_ \subseteq PendingFree
  /\ DOMAIN pool_allocs_ \subseteq Pools
  /\ pool_allocs_ \in [DOMAIN pool_allocs_ -> SUBSET Ptrs]

ConfigOK ==
  /\ active_pools_ \in [Devices -> Seq(ActivePoolEntry)]
  /\ threshold_ \in Thresholds /\ enabled_ \in BOOLEAN

EventsOK ==
  /\ event_pool_ \subseteq Events
  /\ DOMAIN event_device \subseteq Events
  /\ event_device \in [DOMAIN event_device -> Devices]
  /\ dropped \subseteq PendingFree

MemoryOK ==
  /\ current_bytes \in [Devices \X BOOLEAN -> Int]
  /\ sub \subseteq Ptrs
  /\ queue \in [Streams -> Seq(Operation)]
  /\ held \in [Ptrs -> Nat]

(* A thread that looks for memory knows what it looks for. *)
ThreadsOK ==
  /\ pc \in [Threads -> PcValues]
  /\ level \in [Threads -> 0..2]
  /\ req \in [Threads -> AllocMeta \union {NoReq}]
  /\ \A t \in Threads : pc[t] \in {"poll", "attempt", "force"} => req[t] \in AllocMeta
  /\ work \in [Threads -> SUBSET PendingFree]
  /\ todo \in [Threads -> SUBSET (Streams \union Devices)]

(* The variables have their types; at most two retries follow an attempt.  *)
TypeOK == TablesOK /\ ConfigOK /\ EventsOK /\ MemoryOK /\ ThreadsOK

(* Every address is owned once.  An allocation is live, or a pending free, *)
(* or in the hands of one thread, never two of these, and the sub-         *)
(* allocator its metadata names still has it: no interleaving of free_impl,*)
(* the pollers, the forced flushes, emptyCache and releasePool frees an    *)
(* address twice, frees one that is in use, or frees to the wrong          *)
(* allocator after the threshold moved.                                    *)
OneOwner ==
  /\ OwnedPtrs \subseteq sub
  /\ DOMAIN meta_ \intersect PendingPtrs = {}
  /\ \A t \in Threads : WorkPtrs(t) \intersect (DOMAIN meta_ \union PendingPtrs) = {}
  /\ \A s, t \in Threads : s # t => WorkPtrs(s) \intersect WorkPtrs(t) = {}
  /\ \A a, b \in pending_frees_ : a.ptr = b.ptr => a = b
  /\ \A t \in Threads : \A a, b \in work[t] : a.ptr = b.ptr => a = b

Home(p, m) == PtrDevice[p] = m.device /\ PtrLarge[p] = m.is_large

(* An allocation is freed by the sub-allocator it came from: the metadata  *)
(* of a live, pending or collected entry names the device and the size     *)
(* class of its address, wherever threshold_ has moved since alloc_impl    *)
(* read it.                                                                *)
RoutedHome ==
  /\ \A p \in DOMAIN meta_ : Home(p, meta_[p])
  /\ \A pf \in Entries : Home(pf.ptr, pf.meta)

(* What a sub-allocator has handed out is owned, so it can still be freed, *)
(* unless a free_impl threw while it recorded events for it: no other      *)
(* path, and no race of free_impl, the pollers, the flushes and            *)
(* releasePool, loses an address, and a dropped one stays out of use.      *)
NothingLost ==
  /\ sub = OwnedPtrs \union DroppedPtrs
  /\ OwnedPtrs \intersect DroppedPtrs = {}

(* "Event-based recycling respects recordStream() semantics" (README.md:50)*)
(* for every allocation: what was handed out can still be freed.           *)
Reclaimable == sub \subseteq OwnedPtrs

(* A CUDA event guards one deferred free at a time: the events of two      *)
(* entries differ, none of them is in the EventPool, and what is there has *)
(* completed.  Recycling an event early would let a poll see an old record.*)
EventExclusive ==
  /\ \A a, b \in Entries : a # b => a.events \intersect b.events = {}
  /\ \A a \in Entries : a.events \intersect event_pool_ = {}
  /\ Done(event_pool_)

(* The program never holds one address for two allocations: no allocation  *)
(* is made at an address another holder will still free.                   *)
NoAlias == \A p \in Ptrs : held[p] <= 1

(* Memory handed out again is out of use, or in use only on the stream the *)
(* new owner works on: frees are stream-ordered (DESIGN.md:193), and "sub- *)
(* sequent allocations on the same stream happen after this memory was     *)
(* last used" (vmm_allocator.cc:341-343).                                  *)
ReuseOrdered ==
  \A t \in Threads : pc[t] = "publish" =>
    \A pf \in work[t] : Queued(Kernel(pf.ptr)) \subseteq {pf.meta.alloc_stream}

(* Why that is so for deferred frees: behind every kernel that still uses  *)
(* the address of a pending free, one of its events is queued.             *)
FencedKernels ==
  \A pf \in pending_frees_ : \A s \in Streams : \A i \in DOMAIN queue[s] :
    queue[s][i] = Kernel(pf.ptr) =>
      \E j \in DOMAIN queue[s], e \in pf.events : j > i /\ queue[s][j] = Marker(e)

(* A pool tracks exactly the live allocations tagged with it: releasePool  *)
(* neither misses one nor frees one that was freed before.                 *)
PoolTracking ==
  /\ \A id \in DOMAIN pool_allocs_ :
       pool_allocs_[id] = {p \in DOMAIN meta_ : meta_[p].pool_id = id}
  /\ \A p \in DOMAIN meta_ : meta_[p].pool_id \in DOMAIN pool_allocs_ \union {NoPool}

(* "Allocations during capture are tagged with the given pool through the  *)
(* stream filter" (zero-cuda-graph.md:70): an allocation on a stream some  *)
(* active pool of the device asks for gets a pool.                         *)
CaptureTagged ==
  [][\A t \in Threads : pc[t] = "idle" /\ pc'[t] = "poll" =>
       LET m == req'[t]
           stack == active_pools_[m.device]
       IN (\E i \in DOMAIN stack : m.alloc_stream \in stack[i].filter)
            => m.pool_id # NoPool]_vars

(* "Only if the allocation is still impossible after everything has been   *)
(* released is OOM thrown" (zero-cuda-graph.md:58): an allocation gives up *)
(* only when no address of its sub-allocator is on its way to being freed. *)
OomOnlyWhenLive ==
  [][\A t \in Threads : pc[t] = "attempt" /\ pc'[t] = "idle" =>
       \A pf \in pending_frees_ \union
                   UNION {work[u] : u \in {v \in Threads : pc[v] # "publish"}} :
         ~ Home(pf.ptr, req[t])]_vars

(* The bytes charged to the statistics of device and size class c: those   *)
(* of the live allocations and of the frees that have not come to doFree,  *)
(* those that threw included.                                              *)
Class(m) == <<m.device, m.is_large>>
BytesOf(p, m) == {p} \X (1..m.size)
Charged ==
  pending_frees_ \union dropped
    \union UNION {work[t] : t \in {u \in Threads : pc[u] # "publish"}}
Bytes(c) ==
  (UNION {BytesOf(p, meta_[p]) : p \in {q \in DOMAIN meta_ : Class(meta_[q]) = c}})
    \union (UNION {BytesOf(pf.ptr, pf.meta) : pf \in {a \in Charged : Class(a.meta) = c}})

(* current_bytes is the size of what was published and not freed since,    *)
(* also when a free dropped it.                                            *)
StatsAgree ==
  \A c \in Devices \X BOOLEAN : current_bytes[c] = Cardinality(Bytes(c))

(* Every operation comes to an end: the forced flushes wait for events     *)
(* outside the lock, and the retries of an allocation are bounded.         *)
OperationsEnd ==
  \A t \in Threads : pc[t] # "idle" ~> pc[t] = "idle"
=============================================================================
