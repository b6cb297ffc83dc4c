--------------------------- MODULE VMMAllocatorProofs ---------------------------
(***************************************************************************)
(* Proofs about VMMAllocator for all threads, devices, streams, addresses, *)
(* events, pools and sizes: its types and routing; the tables that follow  *)
(* the allocations (pools, pointers, tags, statistics); the events and the *)
(* order in which memory is handed out again.                              *)
(***************************************************************************)
EXTENDS VMMAllocator, FiniteSetTheorems, TLAPS

USE DEF Goto, SetWork

-----------------------------------------------------------------------------
(* Types of what the actions write *)

LEMMA RemoveAtType ==
  ASSUME NEW S, NEW s \in Seq(S), NEW i \in DOMAIN s
  PROVE  RemoveAt(s, i) \in Seq(S)
  BY DEF RemoveAt

LEMMA EntryType ==
  ASSUME NEW p \in Ptrs, NEW m \in AllocMeta
  PROVE  Entry(p, m) \in PendingFree
  BY DEF Entry, PendingFree

LEMMA EntrySize ==
  ASSUME NEW pf \in PendingFree
  PROVE  pf.meta.size \in Int
<1>1. pf.meta.size \in Sizes
  BY DEF PendingFree, AllocMeta
<1>2. pf.meta.size \in Nat
  BY <1>1, SizesAssumption
<1>q. QED BY <1>2

LEMMA doFreeType ==
  ASSUME MemoryOK, NEW pf \in PendingFree, doFree(pf)
  PROVE  /\ current_bytes' \in [Devices \X BOOLEAN -> Int]
         /\ sub' \subseteq Ptrs
<1> DEFINE c == <<pf.meta.device, pf.meta.is_large>>
<1>1. c \in Devices \X BOOLEAN
  BY DEF PendingFree, AllocMeta
<1>2. pf.meta.size \in Int
  BY EntrySize
<1>3. current_bytes[c] - pf.meta.size \in Int
  BY <1>1, <1>2 DEF MemoryOK
<1>4. current_bytes' = [current_bytes EXCEPT ![c] = current_bytes[c] - pf.meta.size]
  BY DEF doFree
<1>5. current_bytes' \in [Devices \X BOOLEAN -> Int]
  <2> HIDE DEF c
  <2>q. QED BY <1>1, <1>3, <1>4 DEF MemoryOK
<1>q. QED BY <1>5 DEF doFree, MemoryOK

LEMMA QueueAppend ==
  ASSUME queue \in [Streams -> Seq(Operation)], NEW s \in Streams, NEW op \in Operation
  PROVE  [queue EXCEPT ![s] = Append(@, op)] \in [Streams -> Seq(Operation)]
<1>1. Append(queue[s], op) \in Seq(Operation)
  OBVIOUS
<1>q. QED BY <1>1

LEMMA acquireType ==
  ASSUME EventsOK, NEW e \in Events, NEW d \in Devices, acquire(e, d),
         dropped' \subseteq PendingFree
  PROVE  EventsOK'
<1>1. CASE e \in event_pool_ /\ event_pool_' = event_pool_ \ {e} /\ UNCHANGED event_device
  BY <1>1 DEF EventsOK
<1>2. CASE event_device' = Put(event_device, e, d) /\ UNCHANGED event_pool_
  BY <1>2 DEF EventsOK, Put
<1>q. QED BY <1>1, <1>2 DEF acquire

-----------------------------------------------------------------------------
(* TypeOK *)

LEMMA InitTypeOK == Init => TypeOK
  BY SizesAssumption DEF Init, TypeOK, TablesOK, ConfigOK, EventsOK, MemoryOK,
     ThreadsOK, EmptyMap, PcValues

LEMMA NextTypeOK == TypeOK /\ [Next]_vars => TypeOK'
<1> SUFFICES ASSUME TypeOK, [Next]_vars PROVE TypeOK' OBVIOUS
<1>1. ASSUME NEW t \in Threads, Calls(t) \/ ThreadStep(t) PROVE TypeOK'
  <2>1. CASE \E size \in Sizes, s \in AllocStreams : AllocBegin(t, size, s)
    <3> DEFINE m(size, s) ==
          [size |-> size, device |-> StreamDevice[s], is_large |-> size >= threshold_,
           alloc_stream |-> s, pool_id |-> ActivePool(StreamDevice[s], s),
           recorded_streams |-> {}]
    <3>a. PICK size \in Sizes, s \in AllocStreams : AllocBegin(t, size, s)
      BY <2>1
    <3>b. s \in Streams /\ StreamDevice[s] \in Devices
      BY PlaceAssumption
    <3>c. ActivePool(StreamDevice[s], s) \in Pools \union {NoPool}
      <4>1. active_pools_[StreamDevice[s]] \in Seq(ActivePoolEntry)
        BY <3>b DEF TypeOK, ConfigOK
      <4>2. CASE active_pools_[StreamDevice[s]] = <<>>
        BY <4>2 DEF ActivePool
      <4>3. CASE active_pools_[StreamDevice[s]] # <<>>
        <5> DEFINE stack == active_pools_[StreamDevice[s]]
        <5>1. stack[Len(stack)] \in ActivePoolEntry
          BY <4>1, <4>3
        <5>q. QED BY <5>1 DEF ActivePool, ActivePoolEntry
      <4>q. QED BY <4>2, <4>3
    <3>d. m(size, s) \in AllocMeta
      BY <3>b, <3>c DEF AllocMeta
    <3>e. req' = [req EXCEPT ![t] = m(size, s)]
      BY <3>a DEF AllocBegin
    <3>f. /\ pc' = [pc EXCEPT ![t] = "poll"] /\ level' = [level EXCEPT ![t] = 0]
          /\ UNCHANGED <<work, todo>>
      BY <3>a DEF AllocBegin
    <3> HIDE DEF m
    <3>1. ThreadsOK'
      BY <3>d, <3>e, <3>f DEF TypeOK, ThreadsOK, PcValues
    <3>q. QED
      BY <2>1, <3>1 DEF AllocBegin, TypeOK, TablesOK, tables, ConfigOK, config, EventsOK, event_vars, MemoryOK
  <2>2. CASE \E p \in Ptrs : FreeBegin(t, p)
    <3>1. TablesOK'
      BY <2>2 DEF FreeBegin, TypeOK, TablesOK, Without, Untracked
    <3>2. MemoryOK'
      <4>1. PICK p \in Ptrs : FreeBegin(t, p)
        BY <2>2
      <4>2. held[p] \in Nat /\ held[p] > 0
        BY <4>1 DEF FreeBegin, TypeOK, MemoryOK
      <4>q. QED BY <4>1, <4>2 DEF FreeBegin, TypeOK, MemoryOK
    <3>3. ThreadsOK'
      <4>1. PICK p \in Ptrs : FreeBegin(t, p)
        BY <2>2
      <4>2. meta_[p] \in AllocMeta
        BY <4>1 DEF FreeBegin, TypeOK, TablesOK
      <4>3. Entry(p, meta_[p]) \in PendingFree
        BY <4>2, EntryType
      <4>4. StreamsToRecord(meta_[p]) \subseteq Streams
        BY <4>2 DEF StreamsToRecord, AllocMeta
      <4>q. QED
        BY <4>1, <4>3, <4>4 DEF FreeBegin, TypeOK, ThreadsOK, PcValues
    <3>q. QED
      BY <2>2, <3>1, <3>2, <3>3 DEF FreeBegin, TypeOK, ConfigOK, config, EventsOK, event_vars
  <2>3. CASE \E id \in Pools : ReleasePoolBegin(t, id)
    <3>1. TablesOK'
      BY <2>3 DEF ReleasePoolBegin, TypeOK, TablesOK, Without
    <3>2. ThreadsOK'
      BY <2>3 DEF ReleasePoolBegin, TypeOK, TablesOK, ThreadsOK, PcValues, Entry, PendingFree
    <3>q. QED
      BY <2>3, <3>1, <3>2 DEF ReleasePoolBegin, TypeOK, ConfigOK, config, EventsOK, event_vars, MemoryOK
  <2>4. CASE EmptyCacheBegin(t)
    <3>1. ThreadsOK'
      BY <2>4 DEF EmptyCacheBegin, TypeOK, ThreadsOK, PcValues
    <3>q. QED
      BY <2>4, <3>1 DEF EmptyCacheBegin, TypeOK, TablesOK, tables, ConfigOK, config, EventsOK, event_vars, MemoryOK
  <2>5. CASE PollCollect(t)
    <3>1. TablesOK'
      BY <2>5 DEF PollCollect, TypeOK, TablesOK
    <3>2. ThreadsOK'
      BY <2>5 DEF PollCollect, TypeOK, TablesOK, ThreadsOK, PcValues
    <3>q. QED
      BY <2>5, <3>1, <3>2 DEF PollCollect, TypeOK, ConfigOK, config, EventsOK, event_vars, MemoryOK
  <2>6. CASE ForceCollect(t)
    <3>1. TablesOK'
      BY <2>6 DEF ForceCollect, TypeOK, TablesOK
    <3>2. ThreadsOK'
      BY <2>6 DEF ForceCollect, TypeOK, TablesOK, ThreadsOK, PcValues
    <3>q. QED
      BY <2>6, <3>1, <3>2 DEF ForceCollect, TypeOK, ConfigOK, config, EventsOK, event_vars, MemoryOK
  <2>7. CASE Reap(t)
    <3>1. EventsOK'
      BY <2>7 DEF Reap, release, TypeOK, EventsOK, ThreadsOK, PendingFree
    <3>2. MemoryOK'
      <4>1. PICK pf \in work[t] : doFree(pf)
        BY <2>7 DEF Reap
      <4>2. pf \in PendingFree /\ MemoryOK
        BY DEF TypeOK, ThreadsOK
      <4>q. QED BY <2>7, <4>1, <4>2, doFreeType DEF Reap, MemoryOK
    <3>3. ThreadsOK'
      BY <2>7 DEF Reap, TypeOK, ThreadsOK
    <3>q. QED
      BY <2>7, <3>1, <3>2, <3>3 DEF Reap, TypeOK, TablesOK, tables, ConfigOK, config
  <2>8. CASE Allocate(t)
    <3>1. MemoryOK'
      BY <2>8 DEF Allocate, FreePlaces, TypeOK, MemoryOK
    <3>2. ThreadsOK'
      BY <2>8, EntryType DEF Allocate, FreePlaces, TypeOK, ThreadsOK, PcValues
    <3>q. QED
      BY <2>8, <3>1, <3>2 DEF Allocate, TypeOK, TablesOK, tables, ConfigOK, config, EventsOK, event_vars
  <2>9. CASE AllocateFails(t)
    <3>1. ThreadsOK'
      <4>1. CASE level[t] < 2
        <5>1. level[t] + 1 \in 0..2
          BY <4>1 DEF TypeOK, ThreadsOK
        <5>q. QED BY <2>9, <4>1, <5>1 DEF AllocateFails, TypeOK, ThreadsOK, PcValues
      <4>2. CASE ~ level[t] < 2
        BY <2>9, <4>2 DEF AllocateFails, TypeOK, ThreadsOK, PcValues
      <4>q. QED BY <4>1, <4>2
    <3>q. QED
      BY <2>9, <3>1 DEF AllocateFails, TypeOK, TablesOK, tables, ConfigOK, config, EventsOK, event_vars, MemoryOK
  <2>10. CASE Publish(t)
    <3>1. TablesOK'
      BY <2>10 DEF Publish, TypeOK, TablesOK, ThreadsOK, Put, PendingFree, AllocMeta
    <3>2. MemoryOK'
      <4>1. PICK pf \in work[t] :
             /\ current_bytes' =
                  [current_bytes EXCEPT ![<<pf.meta.device, pf.meta.is_large>>] =
                     @ + pf.meta.size]
             /\ held' = [held EXCEPT ![pf.ptr] = @ + 1]
        BY <2>10 DEF Publish
      <4>2. pf \in PendingFree
        BY DEF TypeOK, ThreadsOK
      <4> DEFINE c == <<pf.meta.device, pf.meta.is_large>>
      <4>a. c \in Devices \X BOOLEAN /\ pf.ptr \in Ptrs
        BY <4>2 DEF PendingFree, AllocMeta
      <4>b. held[pf.ptr] + 1 \in Nat
        BY <4>a DEF TypeOK, MemoryOK
      <4> HIDE DEF c
      <4>3. pf.meta.size \in Int
        BY <4>2, EntrySize
      <4>4. current_bytes[c] + pf.meta.size \in Int
        BY <4>a, <4>3 DEF TypeOK, MemoryOK
      <4>5. current_bytes' = [current_bytes EXCEPT ![c] = current_bytes[c] + pf.meta.size]
        BY <4>1 DEF c
      <4>6. UNCHANGED <<sub, queue>>
        BY <2>10 DEF Publish
      <4>q. QED BY <4>1, <4>a, <4>b, <4>4, <4>5, <4>6 DEF TypeOK, MemoryOK
    <3>3. ThreadsOK'
      BY <2>10 DEF Publish, TypeOK, ThreadsOK, PcValues
    <3>q. QED
      BY <2>10, <3>1, <3>2, <3>3 DEF Publish, TypeOK, ConfigOK, config, EventsOK, event_vars
  <2>11. CASE \E s \in Streams : RecordEvent(t, s)
    <3>a. PICK s \in Streams, e \in Events, d \in Devices :
             /\ acquire(e, d)
             /\ \/ /\ queue' = [queue EXCEPT ![s] = Append(@, Marker(e))]
                   /\ SetWork(t, {[pf EXCEPT !.events = @ \union {e}] : pf \in work[t]})
                   /\ todo' = [todo EXCEPT ![t] = @ \ {s}]
                   /\ UNCHANGED <<dropped, pc>>
                \/ /\ SetWork(t, {}) /\ dropped' = dropped \union work[t]
                   /\ todo' = [todo EXCEPT ![t] = {}]
                   /\ Goto(t, "idle")
                   /\ UNCHANGED queue
      BY <2>11 DEF RecordEvent, Throw
    <3>1. EventsOK'
      <4>1. dropped' \subseteq PendingFree
        BY <3>a DEF TypeOK, EventsOK, ThreadsOK
      <4>q. QED BY <3>a, <4>1, acquireType DEF TypeOK
    <3>2. MemoryOK'
      <4>1. Marker(e) \in Operation
        BY DEF Marker, Operation
      <4>2. queue' \in [Streams -> Seq(Operation)]
        <5>1. CASE UNCHANGED queue
          BY <5>1 DEF TypeOK, MemoryOK
        <5>2. CASE queue' = [queue EXCEPT ![s] = Append(@, Marker(e))]
          BY <5>2, <4>1, QueueAppend DEF TypeOK, MemoryOK
        <5>q. QED BY <3>a, <5>1, <5>2
      <4>q. QED BY <2>11, <4>2 DEF RecordEvent, TypeOK, MemoryOK
    <3>3. ThreadsOK'
      <4>1. \A pf \in work[t] : [pf EXCEPT !.events = @ \union {e}] \in PendingFree
        BY DEF TypeOK, ThreadsOK, PendingFree
      <4>2. UNCHANGED <<req, level>>
        BY <2>11 DEF RecordEvent
      <4>q. QED BY <3>a, <4>1, <4>2 DEF TypeOK, ThreadsOK, PcValues
    <3>q. QED
      BY <2>11, <3>1, <3>2, <3>3 DEF RecordEvent, TypeOK, TablesOK, tables, ConfigOK, config
  <2>12. CASE Defer(t)
    <3>1. TablesOK'
      BY <2>12 DEF Defer, TypeOK, TablesOK, ThreadsOK
    <3>2. ThreadsOK'
      BY <2>12 DEF Defer, TypeOK, ThreadsOK, PcValues
    <3>q. QED
      BY <2>12, <3>1, <3>2 DEF Defer, TypeOK, ConfigOK, config, EventsOK, event_vars, MemoryOK
  <2>13. CASE FreeNow(t)
    <3>1. MemoryOK'
      <4>1. PICK pf \in work[t] : doFree(pf)
        BY <2>13 DEF FreeNow
      <4>2. pf \in PendingFree /\ MemoryOK
        BY DEF TypeOK, ThreadsOK
      <4>q. QED BY <2>13, <4>1, <4>2, doFreeType DEF FreeNow, MemoryOK
    <3>2. ThreadsOK'
      BY <2>13 DEF FreeNow, TypeOK, ThreadsOK, PcValues
    <3>q. QED
      BY <2>13, <3>1, <3>2 DEF FreeNow, TypeOK, TablesOK, tables, ConfigOK, config, EventsOK, event_vars
  <2>14. CASE \E d \in Devices : FlushDevice(t, d)
    <3>1. TablesOK'
      BY <2>14 DEF FlushDevice, TypeOK, TablesOK
    <3>2. ThreadsOK'
      BY <2>14 DEF FlushDevice, TypeOK, TablesOK, ThreadsOK
    <3>q. QED
      BY <2>14, <3>1, <3>2 DEF FlushDevice, TypeOK, ConfigOK, config, EventsOK, event_vars, MemoryOK
  <2>15. CASE EmptyCacheEnd(t)
    <3>1. ThreadsOK'
      BY <2>15 DEF EmptyCacheEnd, TypeOK, ThreadsOK, PcValues
    <3>q. QED
      BY <2>15, <3>1 DEF EmptyCacheEnd, TypeOK, TablesOK, tables, ConfigOK, config, EventsOK, event_vars, MemoryOK
  <2>16. CASE ReleasePoolSync(t)
    <3>1. EventsOK'
      BY <2>16 DEF ReleasePoolSync, release, TypeOK, EventsOK, ThreadsOK, PendingFree
    <3>2. ThreadsOK'
      <4>1. PICK pf \in work[t] :
               SetWork(t, (work[t] \ {pf}) \union {[pf EXCEPT !.events = {}]})
        BY <2>16 DEF ReleasePoolSync
      <4>2. [pf EXCEPT !.events = {}] \in PendingFree
        BY DEF TypeOK, ThreadsOK, PendingFree
      <4>q. QED BY <2>16, <4>1, <4>2 DEF ReleasePoolSync, TypeOK, ThreadsOK
    <3>q. QED
      BY <2>16, <3>1, <3>2 DEF ReleasePoolSync, TypeOK, TablesOK, tables, ConfigOK, config, MemoryOK
  <2>17. CASE ReleasePoolFree(t)
    <3>1. MemoryOK'
      <4>1. PICK pf \in work[t] : doFree(pf)
        BY <2>17 DEF ReleasePoolFree
      <4>2. pf \in PendingFree /\ MemoryOK
        BY DEF TypeOK, ThreadsOK
      <4>q. QED BY <2>17, <4>1, <4>2, doFreeType DEF ReleasePoolFree, MemoryOK
    <3>2. ThreadsOK'
      BY <2>17 DEF ReleasePoolFree, TypeOK, ThreadsOK, PcValues
    <3>q. QED
      BY <2>17, <3>1, <3>2 DEF ReleasePoolFree, TypeOK, TablesOK, tables, ConfigOK, config, EventsOK, event_vars
  <2>18. CASE AcquireFails(t)
    <3>1. EventsOK'
      BY <2>18 DEF AcquireFails, Throw, TypeOK, EventsOK, ThreadsOK
    <3>2. ThreadsOK'
      BY <2>18 DEF AcquireFails, Throw, TypeOK, ThreadsOK, PcValues
    <3>q. QED
      BY <2>18, <3>1, <3>2 DEF AcquireFails, TypeOK, TablesOK, tables, ConfigOK, config, MemoryOK
  <2>q. QED
    BY <1>1, <2>1, <2>2, <2>3, <2>4, <2>5, <2>6, <2>7, <2>8, <2>9, <2>10, <2>11, <2>12, <2>13, <2>14, <2>15, <2>16, <2>17, <2>18
       DEF Calls, ThreadStep
<1>2. ASSUME Others \/ Gpu PROVE TypeOK'
  <2>1. CASE \E p \in Ptrs : FreeUnknown(p)
    <3>1. MemoryOK'
      <4>1. PICK p \in Ptrs : FreeUnknown(p)
        BY <2>1
      <4>2. held[p] \in Nat /\ held[p] > 0
        BY <4>1 DEF FreeUnknown, TypeOK, MemoryOK
      <4>q. QED BY <4>1, <4>2 DEF FreeUnknown, TypeOK, MemoryOK
    <3>q. QED
      BY <2>1, <3>1 DEF FreeUnknown, TypeOK, TablesOK, tables, ConfigOK, config, EventsOK, event_vars, ThreadsOK, locals
  <2>2. CASE \E p \in Ptrs, s \in Streams : recordStream(p, s)
    <3>1. TablesOK'
      <4>1. PICK p \in Ptrs, s \in Streams : recordStream(p, s)
        BY <2>2
      <4>2. p \in DOMAIN meta_ /\ meta_[p] \in AllocMeta
        BY <4>1 DEF recordStream, TypeOK, TablesOK
      <4>3. [meta_[p] EXCEPT !.recorded_streams = @ \union {s}] \in AllocMeta
        BY <4>2 DEF AllocMeta
      <4>4. meta_' = [meta_ EXCEPT ![p] = [meta_[p] EXCEPT !.recorded_streams = @ \union {s}]]
        BY <4>1 DEF recordStream
      <4>q. QED BY <4>1, <4>3, <4>4 DEF recordStream, TypeOK, TablesOK
    <3>q. QED
      BY <2>2, <3>1 DEF recordStream, TypeOK, ConfigOK, config, EventsOK, event_vars, MemoryOK, ThreadsOK, locals
  <2>3. CASE \E p \in Ptrs, s \in Streams : Launch(p, s)
    <3>1. MemoryOK'
      <4>1. PICK p \in Ptrs, s \in Streams : Launch(p, s)
        BY <2>3
      <4>2. Kernel(p) \in Operation
        BY DEF Kernel, Operation
      <4>3. queue' \in [Streams -> Seq(Operation)]
        BY <4>1, <4>2, QueueAppend DEF Launch, TypeOK, MemoryOK
      <4>q. QED BY <4>1, <4>3 DEF Launch, TypeOK, MemoryOK
    <3>q. QED
      BY <2>3, <3>1 DEF Launch, TypeOK, TablesOK, tables, ConfigOK, config, EventsOK, event_vars, ThreadsOK, locals
  <2>4. CASE \E d \in Devices, id \in Pools, f \in Filters : beginAllocateToPool(d, id, f)
    <3>1. ConfigOK'
      <4>1. PICK d \in Devices, id \in Pools, f \in Filters :
               beginAllocateToPool(d, id, f)
        BY <2>4
      <4>2. [id |-> id, filter |-> f] \in ActivePoolEntry
        BY PlaceAssumption DEF ActivePoolEntry
      <4>3. Append(active_pools_[d], [id |-> id, filter |-> f]) \in Seq(ActivePoolEntry)
        BY <4>2 DEF TypeOK, ConfigOK
      <4>q. QED BY <4>1, <4>3 DEF beginAllocateToPool, TypeOK, ConfigOK
    <3>q. QED
      BY <2>4, <3>1 DEF beginAllocateToPool, TypeOK, TablesOK, tables, EventsOK, event_vars, MemoryOK, ThreadsOK, locals
  <2>5. CASE \E d \in Devices, id \in Pools : endAllocateToPool(d, id)
    <3>1. ConfigOK'
      <4>1. PICK d \in Devices, id \in Pools : endAllocateToPool(d, id)
        BY <2>5
      <4>2. PICK i \in DOMAIN active_pools_[d] :
               active_pools_' = [active_pools_ EXCEPT ![d] = RemoveAt(@, i)]
        BY <4>1 DEF endAllocateToPool
      <4>3. RemoveAt(active_pools_[d], i) \in Seq(ActivePoolEntry)
        BY RemoveAtType DEF TypeOK, ConfigOK
      <4>q. QED BY <4>1, <4>2, <4>3 DEF endAllocateToPool, TypeOK, ConfigOK
    <3>q. QED
      BY <2>5, <3>1 DEF endAllocateToPool, TypeOK, TablesOK, tables, EventsOK, event_vars, MemoryOK, ThreadsOK, locals
  <2>6. CASE \E b \in Thresholds : setThreshold(b)
    <3>1. ConfigOK'
      BY <2>6 DEF setThreshold, TypeOK, ConfigOK
    <3>q. QED
      BY <2>6, <3>1 DEF setThreshold, TypeOK, TablesOK, tables, EventsOK, event_vars, MemoryOK, ThreadsOK, locals
  <2>7. CASE \E v \in EnableValues : enable(v)
    <3>1. ConfigOK'
      BY <2>7, PlaceAssumption DEF enable, TypeOK, ConfigOK
    <3>q. QED
      BY <2>7, <3>1 DEF enable, TypeOK, TablesOK, tables, EventsOK, event_vars, MemoryOK, ThreadsOK, locals
  <2>8. CASE \E s \in Streams : GpuStep(s)
    <3>1. MemoryOK'
      <4>1. PICK s \in Streams : GpuStep(s)
        BY <2>8
      <4>2. Tail(queue[s]) \in Seq(Operation)
        BY <4>1 DEF GpuStep, TypeOK, MemoryOK
      <4>q. QED BY <4>1, <4>2 DEF GpuStep, TypeOK, MemoryOK
    <3>q. QED
      BY <2>8, <3>1 DEF GpuStep, TypeOK, TablesOK, tables, ConfigOK, config, EventsOK, event_vars, ThreadsOK, locals
  <2>q. QED BY <1>2, <2>1, <2>2, <2>3, <2>4, <2>5, <2>6, <2>7, <2>8 DEF Others, Gpu
<1>3. CASE UNCHANGED vars
  BY <1>3 DEF vars, TypeOK, TablesOK, tables, ConfigOK, config, EventsOK, event_vars,
     MemoryOK, ThreadsOK, locals
<1>q. QED BY <1>1, <1>2, <1>3 DEF Next

(* The tables, the configuration, the streams and the locals of the        *)
(* operations keep their types; an allocation is tried at most three times.*)
THEOREM TypeCorrect == Spec => []TypeOK
  BY InitTypeOK, NextTypeOK, PTL DEF Spec

-----------------------------------------------------------------------------
(* OneOwner *)

(* The same, place by place and address by address, and what free_impl     *)
(* dropped is a place of its own.                                          *)
OnePlace ==
  /\ \A p \in DOMAIN meta_ : p \in sub
  /\ \A a \in pending_frees_ : a.ptr \in sub /\ a.ptr \notin DOMAIN meta_
  /\ \A t \in Threads : \A a \in work[t] : a.ptr \in sub /\ a.ptr \notin DOMAIN meta_
  /\ \A t \in Threads : \A a \in work[t], b \in pending_frees_ : a.ptr # b.ptr
  /\ \A s, t \in Threads : s # t => \A a \in work[s], b \in work[t] : a.ptr # b.ptr
  /\ \A a, b \in pending_frees_ : a.ptr = b.ptr => a = b
  /\ \A t \in Threads : \A a, b \in work[t] : a.ptr = b.ptr => a = b
  /\ \A a \in dropped : a.ptr \in sub /\ a.ptr \notin DOMAIN meta_
  /\ \A a \in dropped, b \in pending_frees_ : a.ptr # b.ptr
  /\ \A t \in Threads : \A a \in work[t], b \in dropped : a.ptr # b.ptr
  /\ \A a, b \in dropped : a.ptr = b.ptr => a = b

LEMMA OnePlaceIsOneOwner == OnePlace => OneOwner
  BY DEF OnePlace, OneOwner, OwnedPtrs, PendingPtrs, WorkPtrs

LEMMA InitOnePlace == Init => OnePlace
  BY DEF Init, OnePlace, EmptyMap

LEMMA NextOnePlace ==
  ASSUME TypeOK, OnePlace, [Next]_vars
  PROVE  OnePlace'
<1> USE DEF OnePlace
<1>w. work \in [Threads -> SUBSET PendingFree]
  BY DEF TypeOK, ThreadsOK
<1>1. ASSUME NEW t \in Threads, Calls(t) \/ ThreadStep(t) PROVE OnePlace'
  <2>1. CASE \E size \in Sizes, s \in AllocStreams : AllocBegin(t, size, s)
    BY <1>w, <2>1 DEF AllocBegin, event_vars, tables
  <2>2. CASE \E p \in Ptrs : FreeBegin(t, p)
    <3>1. PICK p \in DOMAIN meta_ : /\ meta_' = Without(meta_, {p})
                                    /\ SetWork(t, {Entry(p, meta_[p])})
      BY <2>2 DEF FreeBegin
    <3>2. UNCHANGED <<pending_frees_, sub, dropped>>
      BY <2>2 DEF FreeBegin, event_vars
    <3>3. DOMAIN meta_' = DOMAIN meta_ \ {p}
      BY <3>1 DEF Without
    <3>4. Entry(p, meta_[p]).ptr = p
      BY DEF Entry
    <3>5. work'[t] = {Entry(p, meta_[p])}
      BY <1>w, <3>1
    <3>6. \A s \in Threads : s # t => work'[s] = work[s]
      BY <1>w, <3>1
    <3>7. \A a, b \in work'[t] : a.ptr = p /\ a = b
      BY <3>4, <3>5
    <3>q. QED BY <3>2, <3>3, <3>6, <3>7
  <2>3. CASE \E id \in Pools : ReleasePoolBegin(t, id)
    <3>1. PICK id \in Pools : ReleasePoolBegin(t, id)
      BY <2>3
    <3> DEFINE live == pool_allocs_[id] \intersect DOMAIN meta_
               pool_pending == {pf \in pending_frees_ : pf.meta.pool_id = id}
               entries == {Entry(p, meta_[p]) : p \in live} \union pool_pending
    <3>2. /\ meta_' = Without(meta_, live)
          /\ pending_frees_' = pending_frees_ \ pool_pending
          /\ work' = [work EXCEPT ![t] = entries]
          /\ UNCHANGED <<sub, dropped>>
      BY <3>1 DEF ReleasePoolBegin, event_vars
    <3>3. DOMAIN meta_' = DOMAIN meta_ \ live
      BY <3>2 DEF Without
    <3>4. \A e \in entries : \/ e.ptr \in live /\ e = Entry(e.ptr, meta_[e.ptr])
                             \/ e \in pool_pending
      BY DEF Entry
    <3>5. pool_pending \subseteq pending_frees_ /\ live \subseteq DOMAIN meta_
      OBVIOUS
    <3> HIDE DEF live, pool_pending, entries
    <3>6. \A a, b \in entries : a.ptr = b.ptr => a = b
      BY <3>4, <3>5
    <3>q. QED BY <1>w, <3>2, <3>3, <3>4, <3>5, <3>6
  <2>4. CASE EmptyCacheBegin(t)
    BY <1>w, <2>4 DEF EmptyCacheBegin, event_vars, tables
  <2>5. CASE PollCollect(t)
    BY <1>w, <2>5 DEF PollCollect, event_vars
  <2>6. CASE ForceCollect(t)
    BY <1>w, <2>6 DEF ForceCollect, event_vars
  <2>7. CASE Reap(t)
    BY <1>w, <2>7 DEF Reap, event_vars, tables, doFree
  <2>8. CASE Allocate(t)
    <3>1. PICK p \in FreePlaces(req[t]) : /\ sub' = sub \union {p}
                                          /\ SetWork(t, {Entry(p, req[t])})
      BY <2>8 DEF Allocate
    <3>2. UNCHANGED <<meta_, pending_frees_, dropped>>
      BY <2>8 DEF Allocate, tables, event_vars
    <3>3. p \notin sub
      BY DEF FreePlaces
    <3>4. Entry(p, req[t]).ptr = p
      BY DEF Entry
    <3>q. QED BY <1>w, <3>1, <3>2, <3>3, <3>4
  <2>9. CASE AllocateFails(t)
    BY <1>w, <2>9 DEF AllocateFails, event_vars, tables
  <2>10. CASE Publish(t)
    BY <1>w, <2>10 DEF Publish, event_vars, Put
  <2>11. CASE \E s \in Streams : RecordEvent(t, s)
    <3>1. UNCHANGED <<meta_, pending_frees_, sub>>
      BY <2>11 DEF RecordEvent, tables
    <3>2. CASE Throw(t)
      BY <1>w, <3>1, <3>2 DEF Throw
    <3>3. ASSUME NEW e \in Events, UNCHANGED dropped,
                 SetWork(t, {[pf EXCEPT !.events = @ \union {e}] : pf \in work[t]})
          PROVE  OnePlace'
      <4> DEFINE guarded(a) == [a EXCEPT !.events = @ \union {e}]
      <4>1. \A a \in work[t] : guarded(a).ptr = a.ptr
        BY <1>w DEF PendingFree
      <4>2. work' = [work EXCEPT ![t] = {guarded(a) : a \in work[t]}]
        BY <3>3
      <4> HIDE DEF guarded
      <4>3. /\ \A b \in work'[t] : \E a \in work[t] : b = guarded(a) /\ b.ptr = a.ptr
            /\ \A s \in Threads : s # t => work'[s] = work[s]
        BY <1>w, <4>1, <4>2
      <4>4. \A a, b \in work'[t] : a.ptr = b.ptr => a = b
        BY <4>3
      <4>q. QED BY <3>1, <3>3, <4>3, <4>4
    <3>q. QED BY <2>11, <3>2, <3>3 DEF RecordEvent
  <2>12. CASE Defer(t)
    BY <1>w, <2>12 DEF Defer, event_vars
  <2>13. CASE FreeNow(t)
    BY <1>w, <2>13 DEF FreeNow, event_vars, tables, doFree
  <2>14. CASE \E d \in Devices : FlushDevice(t, d)
    BY <1>w, <2>14 DEF FlushDevice, event_vars
  <2>15. CASE EmptyCacheEnd(t)
    BY <1>w, <2>15 DEF EmptyCacheEnd, event_vars, tables
  <2>16. CASE ReleasePoolSync(t)
    <3>1. UNCHANGED <<meta_, pending_frees_, sub, dropped>>
      BY <2>16 DEF ReleasePoolSync, tables
    <3>2. PICK pf \in work[t] :
            SetWork(t, (work[t] \ {pf}) \union {[pf EXCEPT !.events = {}]})
      BY <2>16 DEF ReleasePoolSync
    <3> DEFINE done == [pf EXCEPT !.events = {}]
    <3>3. done.ptr = pf.ptr
      BY <1>w DEF PendingFree
    <3>a. work'[t] = (work[t] \ {pf}) \union {done}
      BY <1>w, <3>2
    <3> HIDE DEF done
    <3>4. \A b \in work'[t] : \E a \in work[t] : b.ptr = a.ptr
      BY <3>3, <3>a
    <3>5. \A a, b \in work'[t] : a.ptr = b.ptr => a = b
      BY <3>3, <3>a
    <3>6. \A s \in Threads : s # t => work'[s] = work[s]
      BY <1>w, <3>2
    <3>q. QED BY <3>1, <3>4, <3>5, <3>6
  <2>17. CASE ReleasePoolFree(t)
    BY <1>w, <2>17 DEF ReleasePoolFree, event_vars, tables, doFree
  <2>18. CASE AcquireFails(t)
    BY <1>w, <2>18 DEF AcquireFails, event_vars, Throw, tables
  <2>q. QED
    BY <1>1, <2>1, <2>2, <2>3, <2>4, <2>5, <2>6, <2>7, <2>8, <2>9,
       <2>10, <2>11, <2>12, <2>13, <2>14, <2>15, <2>16, <2>17, <2>18 DEF Calls, ThreadStep
<1>2. ASSUME Others \/ Gpu PROVE OnePlace'
  <2>1. CASE \E p \in Ptrs : FreeUnknown(p)
    BY <2>1 DEF FreeUnknown, event_vars, locals, tables
  <2>2. CASE \E p \in Ptrs, s \in Streams : recordStream(p, s)
    BY <2>2 DEF recordStream, event_vars, locals
  <2>3. CASE \E p \in Ptrs, s \in Streams : Launch(p, s)
    BY <2>3 DEF Launch, event_vars, locals, tables
  <2>4. CASE \E d \in Devices, id \in Pools, f \in Filters : beginAllocateToPool(d, id, f)
    BY <2>4 DEF beginAllocateToPool, event_vars, locals, tables
  <2>5. CASE \E d \in Devices, id \in Pools : endAllocateToPool(d, id)
    BY <2>5 DEF endAllocateToPool, event_vars, locals, tables
  <2>6. CASE \E b \in Thresholds : setThreshold(b)
    BY <2>6 DEF setThreshold, event_vars, locals, tables
  <2>7. CASE \E v \in EnableValues : enable(v)
    BY <2>7 DEF enable, event_vars, locals, tables
  <2>8. CASE \E s \in Streams : GpuStep(s)
    BY <2>8 DEF GpuStep, event_vars, locals, tables
  <2>q. QED BY <1>2, <2>1, <2>2, <2>3, <2>4, <2>5, <2>6, <2>7, <2>8 DEF Others, Gpu
<1>3. CASE UNCHANGED vars
  BY <1>3 DEF vars, tables, locals, event_vars
<1>q. QED BY <1>1, <1>2, <1>3 DEF Next

(* No interleaving of the operations makes one address have two owners, or *)
(* an owner for an address its sub-allocator does not have: no double free *)
(* and no free of memory in use, for any number of threads and devices.    *)
THEOREM OneOwnerHolds == Spec => []OneOwner
<1>1. Init => TypeOK /\ OnePlace
  BY InitTypeOK, InitOnePlace
<1>2. TypeOK /\ OnePlace /\ [Next]_vars => TypeOK' /\ OnePlace'
  BY NextTypeOK, NextOnePlace
<1>3. OnePlace => OneOwner
  BY OnePlaceIsOneOwner
<1>q. QED BY <1>1, <1>2, <1>3, PTL DEF Spec

-----------------------------------------------------------------------------
(* RoutedHome *)

LEMMA RoutedHomePointwise ==
  RoutedHome <=> /\ \A p \in DOMAIN meta_ : Home(p, meta_[p])
                 /\ \A a \in pending_frees_ : Home(a.ptr, a.meta)
                 /\ \A t \in Threads : \A a \in work[t] : Home(a.ptr, a.meta)
  BY DEF RoutedHome, Entries

LEMMA NextRoutedHome ==
  ASSUME TypeOK, RoutedHome, [Next]_vars
  PROVE  RoutedHome'
<1> DEFINE Routed == /\ \A p \in DOMAIN meta_ : Home(p, meta_[p])
                     /\ \A a \in pending_frees_ : Home(a.ptr, a.meta)
                     /\ \A t \in Threads : \A a \in work[t] : Home(a.ptr, a.meta)
<1> SUFFICES Routed'
  BY DEF RoutedHome, Entries
<1>r. Routed
  BY RoutedHomePointwise
<1>w. work \in [Threads -> SUBSET PendingFree]
  BY DEF TypeOK, ThreadsOK
<1>1. ASSUME NEW t \in Threads, Calls(t) \/ ThreadStep(t) PROVE Routed'
  <2>1. CASE \E size \in Sizes, s \in AllocStreams : AllocBegin(t, size, s)
    BY <1>r, <1>w, <2>1 DEF AllocBegin, tables
  <2>2. CASE \E p \in Ptrs : FreeBegin(t, p)
    <3>1. PICK p \in DOMAIN meta_ : /\ meta_' = Without(meta_, {p})
                                    /\ SetWork(t, {Entry(p, meta_[p])})
      BY <2>2 DEF FreeBegin
    <3>2. Home(Entry(p, meta_[p]).ptr, Entry(p, meta_[p]).meta)
      BY <1>r DEF Entry
    <3>3. \A q \in DOMAIN meta_' : q \in DOMAIN meta_ /\ meta_'[q] = meta_[q]
      BY <3>1 DEF Without
    <3>4. UNCHANGED pending_frees_
      BY <2>2 DEF FreeBegin
    <3>q. QED BY <1>r, <1>w, <3>1, <3>2, <3>3, <3>4
  <2>3. CASE \E id \in Pools : ReleasePoolBegin(t, id)
    <3>1. PICK id \in Pools : ReleasePoolBegin(t, id)
      BY <2>3
    <3> DEFINE live == pool_allocs_[id] \intersect DOMAIN meta_
               pool_pending == {pf \in pending_frees_ : pf.meta.pool_id = id}
               entries == {Entry(p, meta_[p]) : p \in live} \union pool_pending
    <3>2. /\ meta_' = Without(meta_, live)
          /\ pending_frees_' = pending_frees_ \ pool_pending
          /\ work' = [work EXCEPT ![t] = entries]
      BY <3>1 DEF ReleasePoolBegin
    <3>3. \A q \in DOMAIN meta_' : q \in DOMAIN meta_ /\ meta_'[q] = meta_[q]
      BY <3>2 DEF Without
    <3>4. \A e \in entries : Home(e.ptr, e.meta)
      BY <1>r DEF Entry
    <3> HIDE DEF live, pool_pending, entries
    <3>q. QED BY <1>r, <1>w, <3>2, <3>3, <3>4
  <2>4. CASE EmptyCacheBegin(t)
    BY <1>r, <1>w, <2>4 DEF EmptyCacheBegin, tables
  <2>5. CASE PollCollect(t)
    BY <1>r, <1>w, <2>5 DEF PollCollect
  <2>6. CASE ForceCollect(t)
    BY <1>r, <1>w, <2>6 DEF ForceCollect
  <2>7. CASE Reap(t)
    BY <1>r, <1>w, <2>7 DEF Reap, tables
  <2>8. CASE Allocate(t)
    <3>1. PICK p \in FreePlaces(req[t]) : SetWork(t, {Entry(p, req[t])})
      BY <2>8 DEF Allocate
    <3>2. UNCHANGED <<meta_, pending_frees_>>
      BY <2>8 DEF Allocate, tables
    <3>3. Home(Entry(p, req[t]).ptr, Entry(p, req[t]).meta)
      BY DEF FreePlaces, Home, Entry
    <3>q. QED BY <1>r, <1>w, <3>1, <3>2, <3>3
  <2>9. CASE AllocateFails(t)
    BY <1>r, <1>w, <2>9 DEF AllocateFails, tables
  <2>10. CASE Publish(t)
    <3>1. PICK pf \in work[t] : meta_' = Put(meta_, pf.ptr, pf.meta)
      BY <2>10 DEF Publish
    <3>2. UNCHANGED pending_frees_ /\ SetWork(t, {})
      BY <2>10 DEF Publish
    <3>3. \A q \in DOMAIN meta_' : Home(q, meta_'[q])
      BY <1>r, <3>1 DEF Put
    <3>q. QED BY <1>r, <1>w, <3>2, <3>3
  <2>11. CASE \E s \in Streams : RecordEvent(t, s)
    <3>1. UNCHANGED <<meta_, pending_frees_>>
      BY <2>11 DEF RecordEvent, tables
    <3>2. CASE SetWork(t, {})
      BY <1>r, <1>w, <3>1, <3>2
    <3>3. ASSUME NEW e \in Events,
                 SetWork(t, {[pf EXCEPT !.events = @ \union {e}] : pf \in work[t]})
          PROVE  Routed'
      <4> DEFINE guarded(a) == [a EXCEPT !.events = @ \union {e}]
      <4>1. \A a \in work[t] : guarded(a).ptr = a.ptr /\ guarded(a).meta = a.meta
        BY <1>w DEF PendingFree
      <4>2. work' = [work EXCEPT ![t] = {guarded(a) : a \in work[t]}]
        BY <3>3
      <4> HIDE DEF guarded
      <4>3. \A s \in Threads : \A b \in work'[s] : Home(b.ptr, b.meta)
        BY <1>r, <1>w, <4>1, <4>2
      <4>q. QED BY <1>r, <3>1, <4>3
    <3>q. QED BY <2>11, <3>2, <3>3 DEF RecordEvent, Throw
  <2>12. CASE Defer(t)
    BY <1>r, <1>w, <2>12 DEF Defer
  <2>13. CASE FreeNow(t)
    BY <1>r, <1>w, <2>13 DEF FreeNow, tables
  <2>14. CASE \E d \in Devices : FlushDevice(t, d)
    BY <1>r, <1>w, <2>14 DEF FlushDevice
  <2>15. CASE EmptyCacheEnd(t)
    BY <1>r, <1>w, <2>15 DEF EmptyCacheEnd, tables
  <2>16. CASE ReleasePoolSync(t)
    <3>1. UNCHANGED <<meta_, pending_frees_>>
      BY <2>16 DEF ReleasePoolSync, tables
    <3>2. PICK pf \in work[t] :
            SetWork(t, (work[t] \ {pf}) \union {[pf EXCEPT !.events = {}]})
      BY <2>16 DEF ReleasePoolSync
    <3> DEFINE done == [pf EXCEPT !.events = {}]
    <3>3. Home(done.ptr, done.meta)
      BY <1>r, <1>w DEF PendingFree
    <3>4. work' = [work EXCEPT ![t] = (work[t] \ {pf}) \union {done}]
      BY <3>2
    <3> HIDE DEF done
    <3>q. QED BY <1>r, <1>w, <3>1, <3>3, <3>4
  <2>17. CASE ReleasePoolFree(t)
    BY <1>r, <1>w, <2>17 DEF ReleasePoolFree, tables
  <2>18. CASE AcquireFails(t)
    BY <1>r, <1>w, <2>18 DEF AcquireFails, Throw, tables
  <2>q. QED
    BY <1>1, <2>1, <2>2, <2>3, <2>4, <2>5, <2>6, <2>7, <2>8, <2>9,
       <2>10, <2>11, <2>12, <2>13, <2>14, <2>15, <2>16, <2>17, <2>18 DEF Calls, ThreadStep
<1>2. ASSUME Others \/ Gpu PROVE Routed'
  <2>1. CASE \E p \in Ptrs : FreeUnknown(p)
    BY <1>r, <2>1 DEF FreeUnknown, locals, tables
  <2>2. CASE \E p \in Ptrs, s \in Streams : recordStream(p, s)
    <3>1. PICK p \in DOMAIN meta_, s \in Streams :
            meta_' = [meta_ EXCEPT ![p].recorded_streams = @ \union {s}]
      BY <2>2 DEF recordStream
    <3>2. meta_ \in [DOMAIN meta_ -> AllocMeta]
      BY DEF TypeOK, TablesOK
    <3>3. \A q \in DOMAIN meta_ : /\ meta_'[q].device = meta_[q].device
                                  /\ meta_'[q].is_large = meta_[q].is_large
      BY <3>1, <3>2 DEF AllocMeta
    <3>4. DOMAIN meta_' = DOMAIN meta_ /\ UNCHANGED <<pending_frees_, work>>
      BY <2>2, <3>1 DEF recordStream, locals
    <3>q. QED BY <1>r, <3>3, <3>4 DEF Home
  <2>3. CASE \E p \in Ptrs, s \in Streams : Launch(p, s)
    BY <1>r, <2>3 DEF Launch, locals, tables
  <2>4. CASE \E d \in Devices, id \in Pools, f \in Filters : beginAllocateToPool(d, id, f)
    BY <1>r, <2>4 DEF beginAllocateToPool, locals, tables
  <2>5. CASE \E d \in Devices, id \in Pools : endAllocateToPool(d, id)
    BY <1>r, <2>5 DEF endAllocateToPool, locals, tables
  <2>6. CASE \E b \in Thresholds : setThreshold(b)
    BY <1>r, <2>6 DEF setThreshold, locals, tables
  <2>7. CASE \E v \in EnableValues : enable(v)
    BY <1>r, <2>7 DEF enable, locals, tables
  <2>8. CASE \E s \in Streams : GpuStep(s)
    BY <1>r, <2>8 DEF GpuStep, locals, tables
  <2>q. QED BY <1>2, <2>1, <2>2, <2>3, <2>4, <2>5, <2>6, <2>7, <2>8 DEF Others, Gpu
<1>3. CASE UNCHANGED vars
  BY <1>r, <1>3 DEF vars, tables, locals
<1>q. QED BY <1>1, <1>2, <1>3 DEF Next

(* An allocation is freed where it was made: the device and the size class *)
(* in the metadata name the sub-allocator of the address, however often    *)
(* the threshold moves between the allocation and the free.                *)
THEOREM RoutedHomeHolds == Spec => []RoutedHome
<1>1. Init => RoutedHome
  BY DEF Init, RoutedHome, Entries, EmptyMap
<1>2. TypeOK /\ RoutedHome /\ [Next]_vars => RoutedHome'
  BY NextRoutedHome
<1>q. QED BY <1>1, <1>2, TypeCorrect, PTL DEF Spec

-----------------------------------------------------------------------------
(* Events *)

(* The EventPool and the entries hold events that were created. *)
EventsCreated ==
  /\ event_pool_ \subseteq DOMAIN event_device
  /\ \A a \in pending_frees_ : a.events \subseteq DOMAIN event_device
  /\ \A t \in Threads : \A a \in work[t] : a.events \subseteq DOMAIN event_device

LEMMA NextEventsCreated ==
  ASSUME TypeOK, EventsCreated, [Next]_vars
  PROVE  EventsCreated'
<1> USE DEF EventsCreated
<1>w. work \in [Threads -> SUBSET PendingFree]
  BY DEF TypeOK, ThreadsOK
<1>1. ASSUME NEW t \in Threads, Calls(t) \/ ThreadStep(t) PROVE EventsCreated'
  <2>1. CASE \E size \in Sizes, s \in AllocStreams : AllocBegin(t, size, s)
    BY <1>w, <2>1 DEF AllocBegin, event_vars, tables
  <2>2. CASE \E p \in Ptrs : FreeBegin(t, p)
    <3>1. PICK p \in DOMAIN meta_ : SetWork(t, {Entry(p, meta_[p])})
      BY <2>2 DEF FreeBegin
    <3>2. Entry(p, meta_[p]).events = {}
      BY DEF Entry
    <3>3. UNCHANGED <<pending_frees_, event_vars>>
      BY <2>2 DEF FreeBegin
    <3>q. QED BY <1>w, <3>1, <3>2, <3>3 DEF event_vars
  <2>3. CASE \E id \in Pools : ReleasePoolBegin(t, id)
    <3>1. PICK id \in Pools : ReleasePoolBegin(t, id)
      BY <2>3
    <3> DEFINE live == pool_allocs_[id] \intersect DOMAIN meta_
               pool_pending == {pf \in pending_frees_ : pf.meta.pool_id = id}
               entries == {Entry(p, meta_[p]) : p \in live} \union pool_pending
    <3>2. /\ pending_frees_' = pending_frees_ \ pool_pending
          /\ work' = [work EXCEPT ![t] = entries]
          /\ UNCHANGED event_vars
      BY <3>1 DEF ReleasePoolBegin
    <3>3. \A e \in entries : e.events = {} \/ e \in pending_frees_
      BY DEF Entry
    <3> HIDE DEF live, pool_pending, entries
    <3>q. QED BY <1>w, <3>2, <3>3 DEF event_vars
  <2>4. CASE EmptyCacheBegin(t)
    BY <1>w, <2>4 DEF EmptyCacheBegin, event_vars, tables
  <2>5. CASE PollCollect(t)
    BY <1>w, <2>5 DEF PollCollect, event_vars
  <2>6. CASE ForceCollect(t)
    BY <1>w, <2>6 DEF ForceCollect, event_vars
  <2>7. CASE Reap(t)
    BY <1>w, <2>7 DEF Reap, tables, release
  <2>8. CASE Allocate(t)
    <3>1. PICK p \in FreePlaces(req[t]) : SetWork(t, {Entry(p, req[t])})
      BY <2>8 DEF Allocate
    <3>2. Entry(p, req[t]).events = {}
      BY DEF Entry
    <3>3. UNCHANGED <<pending_frees_, event_vars>>
      BY <2>8 DEF Allocate, tables
    <3>q. QED BY <1>w, <3>1, <3>2, <3>3 DEF event_vars
  <2>9. CASE AllocateFails(t)
    BY <1>w, <2>9 DEF AllocateFails, event_vars, tables
  <2>10. CASE Publish(t)
    BY <1>w, <2>10 DEF Publish, event_vars
  <2>11. CASE \E s \in Streams : RecordEvent(t, s)
    <3>1. UNCHANGED pending_frees_
      BY <2>11 DEF RecordEvent, tables
    <3>2. PICK e \in Events, d \in Devices :
            /\ acquire(e, d)
            /\ \/ SetWork(t, {[pf EXCEPT !.events = @ \union {e}] : pf \in work[t]})
               \/ SetWork(t, {})
      BY <2>11 DEF RecordEvent, Throw
    <3>3. /\ e \in DOMAIN event_device'
          /\ DOMAIN event_device \subseteq DOMAIN event_device'
          /\ event_pool_' \subseteq event_pool_
      BY <3>2 DEF acquire, Put
    <3>4. CASE SetWork(t, {})
      BY <1>w, <3>1, <3>3, <3>4
    <3>5. CASE SetWork(t, {[pf EXCEPT !.events = @ \union {e}] : pf \in work[t]})
      <4> DEFINE guarded(a) == [a EXCEPT !.events = @ \union {e}]
      <4>1. \A a \in work[t] : guarded(a).events = a.events \union {e}
        BY <1>w DEF PendingFree
      <4>2. work' = [work EXCEPT ![t] = {guarded(a) : a \in work[t]}]
        BY <3>5
      <4> HIDE DEF guarded
      <4>3. \A b \in work'[t] : b.events \subseteq DOMAIN event_device'
        BY <1>w, <3>3, <4>1, <4>2
      <4>q. QED BY <1>w, <3>1, <3>3, <4>2, <4>3
    <3>q. QED BY <3>2, <3>4, <3>5
  <2>12. CASE Defer(t)
    BY <1>w, <2>12 DEF Defer, event_vars
  <2>13. CASE FreeNow(t)
    BY <1>w, <2>13 DEF FreeNow, event_vars, tables
  <2>14. CASE \E d \in Devices : FlushDevice(t, d)
    BY <1>w, <2>14 DEF FlushDevice, event_vars
  <2>15. CASE EmptyCacheEnd(t)
    BY <1>w, <2>15 DEF EmptyCacheEnd, event_vars, tables
  <2>16. CASE ReleasePoolSync(t)
    <3>1. PICK pf \in work[t] :
            /\ event_pool_' = event_pool_ \union pf.events
            /\ SetWork(t, (work[t] \ {pf}) \union {[pf EXCEPT !.events = {}]})
      BY <2>16 DEF ReleasePoolSync, release
    <3> DEFINE done == [pf EXCEPT !.events = {}]
    <3>2. done.events = {}
      BY <1>w DEF PendingFree
    <3>3. work' = [work EXCEPT ![t] = (work[t] \ {pf}) \union {done}]
      BY <3>1
    <3>4. UNCHANGED <<pending_frees_, event_device>>
      BY <2>16 DEF ReleasePoolSync, tables
    <3> HIDE DEF done
    <3>q. QED BY <1>w, <3>1, <3>2, <3>3, <3>4
  <2>17. CASE ReleasePoolFree(t)
    BY <1>w, <2>17 DEF ReleasePoolFree, event_vars, tables
  <2>18. CASE AcquireFails(t)
    BY <1>w, <2>18 DEF AcquireFails, Throw, tables
  <2>q. QED
    BY <1>1, <2>1, <2>2, <2>3, <2>4, <2>5, <2>6, <2>7, <2>8, <2>9,
       <2>10, <2>11, <2>12, <2>13, <2>14, <2>15, <2>16, <2>17, <2>18 DEF Calls, ThreadStep
<1>2. ASSUME Others \/ Gpu PROVE EventsCreated'
  <2>1. CASE \E p \in Ptrs : FreeUnknown(p)
    BY <2>1 DEF FreeUnknown, locals, event_vars, tables
  <2>2. CASE \E p \in Ptrs, s \in Streams : recordStream(p, s)
    BY <2>2 DEF recordStream, locals, event_vars
  <2>3. CASE \E p \in Ptrs, s \in Streams : Launch(p, s)
    BY <2>3 DEF Launch, locals, event_vars, tables
  <2>4. CASE \E d \in Devices, id \in Pools, f \in Filters : beginAllocateToPool(d, id, f)
    BY <2>4 DEF beginAllocateToPool, locals, event_vars, tables
  <2>5. CASE \E d \in Devices, id \in Pools : endAllocateToPool(d, id)
    BY <2>5 DEF endAllocateToPool, locals, event_vars, tables
  <2>6. CASE \E b \in Thresholds : setThreshold(b)
    BY <2>6 DEF setThreshold, locals, event_vars, tables
  <2>7. CASE \E v \in EnableValues : enable(v)
    BY <2>7 DEF enable, locals, event_vars, tables
  <2>8. CASE \E s \in Streams : GpuStep(s)
    BY <2>8 DEF GpuStep, locals, event_vars, tables
  <2>q. QED BY <1>2, <2>1, <2>2, <2>3, <2>4, <2>5, <2>6, <2>7, <2>8 DEF Others, Gpu
<1>3. CASE UNCHANGED vars
  BY <1>3 DEF vars, tables, locals, event_vars
<1>q. QED BY <1>1, <1>2, <1>3 DEF Next

-----------------------------------------------------------------------------
(* NothingLost *)

(* Between its operations a thread holds no entry, and the single entry of *)
(* a free or of an allocation stays with it until it is passed on.         *)
WorkByPc ==
  \A t \in Threads :
    /\ pc[t] \in {"idle", "poll", "force"} => work[t] = {}
    /\ pc[t] \in {"publish", "record", "dofree"} => \E pf : work[t] = {pf}

LEMMA NextWorkByPc ==
  ASSUME TypeOK, WorkByPc, [Next]_vars
  PROVE  WorkByPc'
<1> USE DEF WorkByPc
<1>w. work \in [Threads -> SUBSET PendingFree] /\ pc \in [Threads -> PcValues]
  BY DEF TypeOK, ThreadsOK
<1>1. ASSUME NEW t \in Threads, Calls(t) \/ ThreadStep(t) PROVE WorkByPc'
  <2>1. CASE \E size \in Sizes, s \in AllocStreams : AllocBegin(t, size, s)
    BY <1>w, <2>1 DEF AllocBegin
  <2>2. CASE \E p \in Ptrs : FreeBegin(t, p)
    <3>1. PICK p : work' = [work EXCEPT ![t] = {Entry(p, meta_[p])}]
      BY <2>2 DEF FreeBegin
    <3>2. \/ pc' = [pc EXCEPT ![t] = "dofree"]
          \/ pc' = [pc EXCEPT ![t] = "record"]
      BY <2>2 DEF FreeBegin
    <3>q. QED BY <1>w, <3>1, <3>2
  <2>3. CASE \E id \in Pools : ReleasePoolBegin(t, id)
    BY <1>w, <2>3 DEF ReleasePoolBegin
  <2>4. CASE EmptyCacheBegin(t)
    BY <1>w, <2>4 DEF EmptyCacheBegin
  <2>5. CASE PollCollect(t)
    BY <1>w, <2>5 DEF PollCollect
  <2>6. CASE ForceCollect(t)
    BY <1>w, <2>6 DEF ForceCollect
  <2>7. CASE Reap(t)
    BY <1>w, <2>7 DEF Reap
  <2>8. CASE Allocate(t)
    BY <1>w, <2>8 DEF Allocate
  <2>9. CASE AllocateFails(t)
    BY <1>w, <2>9 DEF AllocateFails
  <2>10. CASE Publish(t)
    BY <1>w, <2>10 DEF Publish
  <2>11. CASE \E s \in Streams : RecordEvent(t, s)
    <3>1. PICK e \in Events :
            \/ /\ SetWork(t, {[pf EXCEPT !.events = @ \union {e}] : pf \in work[t]})
               /\ UNCHANGED pc
            \/ SetWork(t, {}) /\ Goto(t, "idle")
      BY <2>11 DEF RecordEvent, Throw
    <3>2. PICK pf : work[t] = {pf} /\ pc[t] = "record"
      BY <2>11 DEF RecordEvent
    <3> DEFINE guarded(a) == [a EXCEPT !.events = @ \union {e}]
    <3>3. \/ work' = [work EXCEPT ![t] = {guarded(a) : a \in work[t]}] /\ UNCHANGED pc
          \/ work' = [work EXCEPT ![t] = {}] /\ pc' = [pc EXCEPT ![t] = "idle"]
      BY <3>1
    <3> HIDE DEF guarded
    <3>4. {guarded(a) : a \in work[t]} = {guarded(pf)}
      BY <3>2
    <3>5. CASE work' = [work EXCEPT ![t] = {guarded(a) : a \in work[t]}] /\ UNCHANGED pc
      BY <1>w, <3>2, <3>4, <3>5
    <3>6. CASE work' = [work EXCEPT ![t] = {}] /\ pc' = [pc EXCEPT ![t] = "idle"]
      BY <1>w, <3>6
    <3>q. QED BY <3>3, <3>5, <3>6
  <2>12. CASE Defer(t)
    BY <1>w, <2>12 DEF Defer
  <2>13. CASE FreeNow(t)
    BY <1>w, <2>13 DEF FreeNow
  <2>14. CASE \E d \in Devices : FlushDevice(t, d)
    BY <1>w, <2>14 DEF FlushDevice
  <2>15. CASE EmptyCacheEnd(t)
    BY <1>w, <2>15 DEF EmptyCacheEnd
  <2>16. CASE ReleasePoolSync(t)
    BY <1>w, <2>16 DEF ReleasePoolSync
  <2>17. CASE ReleasePoolFree(t)
    BY <1>w, <2>17 DEF ReleasePoolFree
  <2>18. CASE AcquireFails(t)
    BY <1>w, <2>18 DEF AcquireFails, Throw
  <2>q. QED
    BY <1>1, <2>1, <2>2, <2>3, <2>4, <2>5, <2>6, <2>7, <2>8, <2>9,
       <2>10, <2>11, <2>12, <2>13, <2>14, <2>15, <2>16, <2>17, <2>18 DEF Calls, ThreadStep
<1>2. ASSUME Others \/ Gpu PROVE WorkByPc'
  <2>1. CASE \E p \in Ptrs : FreeUnknown(p)
    BY <2>1 DEF FreeUnknown, locals
  <2>2. CASE \E p \in Ptrs, s \in Streams : recordStream(p, s)
    BY <2>2 DEF recordStream, locals
  <2>3. CASE \E p \in Ptrs, s \in Streams : Launch(p, s)
    BY <2>3 DEF Launch, locals
  <2>4. CASE \E d \in Devices, id \in Pools, f \in Filters : beginAllocateToPool(d, id, f)
    BY <2>4 DEF beginAllocateToPool, locals
  <2>5. CASE \E d \in Devices, id \in Pools : endAllocateToPool(d, id)
    BY <2>5 DEF endAllocateToPool, locals
  <2>6. CASE \E b \in Thresholds : setThreshold(b)
    BY <2>6 DEF setThreshold, locals
  <2>7. CASE \E v \in EnableValues : enable(v)
    BY <2>7 DEF enable, locals
  <2>8. CASE \E s \in Streams : GpuStep(s)
    BY <2>8 DEF GpuStep, locals
  <2>q. QED BY <1>2, <2>1, <2>2, <2>3, <2>4, <2>5, <2>6, <2>7, <2>8 DEF Others, Gpu
<1>3. CASE UNCHANGED vars
  BY <1>3 DEF vars, locals
<1>q. QED BY <1>1, <1>2, <1>3 DEF Next

(* NothingLost, address by address. *)
Owned(p) ==
  \/ p \in DOMAIN meta_
  \/ \E a \in pending_frees_ : a.ptr = p
  \/ \E t \in Threads : \E a \in work[t] : a.ptr = p

Dropped(p) == \E a \in dropped : a.ptr = p

AllOwned == \A p \in sub : Owned(p) \/ Dropped(p)

LEMMA NothingLostPointwise == OnePlace /\ AllOwned => NothingLost
<1> SUFFICES ASSUME OnePlace, AllOwned PROVE NothingLost OBVIOUS
<1>1. \A p : (p \in OwnedPtrs <=> Owned(p)) /\ (p \in DroppedPtrs <=> Dropped(p))
  BY DEF OwnedPtrs, DroppedPtrs, Owned, Dropped, PendingPtrs, WorkPtrs
<1>2. \A p : Owned(p) => p \in sub /\ ~ Dropped(p)
  BY DEF OnePlace, Owned, Dropped
<1>3. \A p : Dropped(p) => p \in sub
  BY DEF OnePlace, Dropped
<1>4. \A p : p \in sub <=> p \in OwnedPtrs \/ p \in DroppedPtrs
  BY <1>1, <1>2, <1>3 DEF AllOwned
<1>q. QED BY <1>1, <1>2, <1>4 DEF NothingLost

LEMMA doFreeHome ==
  ASSUME NEW pf, Home(pf.ptr, pf.meta), doFree(pf)
  PROVE  sub' = sub \ {pf.ptr}
  BY DEF doFree, Home

LEMMA NextAllOwned ==
  ASSUME TypeOK, RoutedHome, WorkByPc, AllOwned, [Next]_vars
  PROVE  AllOwned'
<1> USE DEF AllOwned, Dropped
<1>n. AllOwned
  OBVIOUS
<1>w. work \in [Threads -> SUBSET PendingFree]
  BY DEF TypeOK, ThreadsOK
<1>h. \A t \in Threads : \A a \in work[t] : Home(a.ptr, a.meta)
  BY RoutedHomePointwise
<1>1. ASSUME NEW t \in Threads, Calls(t) \/ ThreadStep(t) PROVE AllOwned'
  <2>1. CASE \E size \in Sizes, s \in AllocStreams : AllocBegin(t, size, s)
    BY <1>n, <2>1 DEF AllocBegin, Owned, event_vars, tables
  <2>2. CASE \E p \in Ptrs : FreeBegin(t, p)
    <3>1. PICK p \in DOMAIN meta_ : /\ meta_' = Without(meta_, {p})
                                    /\ SetWork(t, {Entry(p, meta_[p])})
      BY <2>2 DEF FreeBegin
    <3>2. Entry(p, meta_[p]).ptr = p /\ Entry(p, meta_[p]) \in work'[t]
      BY <1>w, <3>1 DEF Entry
    <3>3. DOMAIN meta_' = DOMAIN meta_ \ {p}
      BY <3>1 DEF Without
    <3>4. UNCHANGED <<pending_frees_, sub, dropped>> /\ work[t] = {}
      BY <2>2 DEF FreeBegin, WorkByPc, event_vars
    <3>5. \A s \in Threads : s # t => work'[s] = work[s]
      BY <1>w, <3>1
    <3>q. QED BY <1>n, <3>2, <3>3, <3>4, <3>5 DEF Owned
  <2>3. CASE \E id \in Pools : ReleasePoolBegin(t, id)
    <3>1. PICK id \in Pools : ReleasePoolBegin(t, id)
      BY <2>3
    <3> DEFINE live == pool_allocs_[id] \intersect DOMAIN meta_
               pool_pending == {pf \in pending_frees_ : pf.meta.pool_id = id}
               entries == {Entry(p, meta_[p]) : p \in live} \union pool_pending
    <3>2. /\ meta_' = Without(meta_, live)
          /\ pending_frees_' = pending_frees_ \ pool_pending
          /\ work' = [work EXCEPT ![t] = entries]
          /\ UNCHANGED <<sub, dropped>> /\ work[t] = {}
      BY <3>1 DEF ReleasePoolBegin, WorkByPc, event_vars
    <3>3. DOMAIN meta_' = DOMAIN meta_ \ live
      BY <3>2 DEF Without
    <3>4. /\ \A p \in live : \E e \in entries : e.ptr = p
          /\ \A a \in pool_pending : a \in entries
      <4>1. ASSUME NEW p \in live PROVE \E e \in entries : e.ptr = p
        <5>1. Entry(p, meta_[p]).ptr = p
          BY DEF Entry
        <5>2. Entry(p, meta_[p]) \in entries
          OBVIOUS
        <5>q. QED BY <5>1, <5>2
      <4>q. QED BY <4>1
    <3> HIDE DEF live, pool_pending, entries
    <3>5. work'[t] = entries /\ \A s \in Threads : s # t => work'[s] = work[s]
      BY <1>w, <3>2
    <3>q. QED BY <1>n, <3>2, <3>3, <3>4, <3>5 DEF Owned
  <2>4. CASE EmptyCacheBegin(t)
    BY <1>n, <2>4 DEF EmptyCacheBegin, Owned, event_vars, tables
  <2>5. CASE PollCollect(t)
    <3>1. work[t] = {} /\ UNCHANGED <<meta_, sub, dropped>>
      BY <2>5 DEF PollCollect, WorkByPc, event_vars
    <3>2. /\ \A a \in pending_frees_ : a \in pending_frees_' \/ a \in work'[t]
          /\ \A s \in Threads : s # t => work'[s] = work[s]
      BY <1>w, <2>5 DEF PollCollect
    <3>q. QED BY <1>n, <3>1, <3>2 DEF Owned
  <2>6. CASE ForceCollect(t)
    <3>1. work[t] = {} /\ UNCHANGED <<meta_, sub, dropped>>
      BY <2>6 DEF ForceCollect, WorkByPc, event_vars
    <3>2. /\ \A a \in pending_frees_ : a \in pending_frees_' \/ a \in work'[t]
          /\ \A s \in Threads : s # t => work'[s] = work[s]
      BY <1>w, <2>6 DEF ForceCollect
    <3>q. QED BY <1>n, <3>1, <3>2 DEF Owned
  <2>7. CASE Reap(t)
    <3>1. PICK pf \in work[t] : doFree(pf) /\ SetWork(t, work[t] \ {pf})
      BY <2>7 DEF Reap
    <3>2. sub' = sub \ {pf.ptr}
      BY <1>h, <3>1, doFreeHome
    <3>3. UNCHANGED <<meta_, pending_frees_, dropped>>
      BY <2>7 DEF Reap, tables
    <3>4. work'[t] = work[t] \ {pf} /\ \A s \in Threads : s # t => work'[s] = work[s]
      BY <1>w, <3>1
    <3>q. QED BY <1>n, <3>2, <3>3, <3>4 DEF Owned
  <2>8. CASE Allocate(t)
    <3>1. PICK p \in FreePlaces(req[t]) : /\ sub' = sub \union {p}
                                          /\ SetWork(t, {Entry(p, req[t])})
      BY <2>8 DEF Allocate
    <3>2. UNCHANGED <<meta_, pending_frees_, dropped>> /\ work[t] = {}
      BY <2>8 DEF Allocate, tables, event_vars
    <3>3. Entry(p, req[t]).ptr = p /\ Entry(p, req[t]) \in work'[t]
      BY <1>w, <3>1 DEF Entry
    <3>4. \A s \in Threads : s # t => work'[s] = work[s]
      BY <1>w, <3>1
    <3>q. QED BY <1>n, <3>1, <3>2, <3>3, <3>4 DEF Owned
  <2>9. CASE AllocateFails(t)
    BY <1>n, <2>9 DEF AllocateFails, Owned, event_vars, tables
  <2>10. CASE Publish(t)
    <3>1. PICK pf \in work[t] : meta_' = Put(meta_, pf.ptr, pf.meta)
      BY <2>10 DEF Publish
    <3>2. UNCHANGED <<pending_frees_, sub, dropped>> /\ work[t] = {pf}
      BY <2>10 DEF Publish, WorkByPc, event_vars
    <3>3. DOMAIN meta_' = DOMAIN meta_ \union {pf.ptr}
      BY <3>1 DEF Put
    <3>4. \A s \in Threads : s # t => work'[s] = work[s]
      BY <1>w, <2>10 DEF Publish
    <3>q. QED BY <1>n, <3>2, <3>3, <3>4 DEF Owned
  <2>11. CASE \E s \in Streams : RecordEvent(t, s)
    <3>1. UNCHANGED <<meta_, pending_frees_, sub>>
      BY <2>11 DEF RecordEvent, tables
    <3>2. CASE Throw(t)
      BY <1>n, <1>w, <3>1, <3>2 DEF Throw, Owned
    <3>3. ASSUME NEW e \in Events, UNCHANGED dropped,
                 SetWork(t, {[pf EXCEPT !.events = @ \union {e}] : pf \in work[t]})
          PROVE  AllOwned'
      <4> DEFINE guarded(a) == [a EXCEPT !.events = @ \union {e}]
      <4>1. \A a \in work[t] : guarded(a).ptr = a.ptr
        BY <1>w DEF PendingFree
      <4>2. work' = [work EXCEPT ![t] = {guarded(a) : a \in work[t]}]
        BY <3>3
      <4> HIDE DEF guarded
      <4>3. /\ \A a \in work[t] : guarded(a) \in work'[t] /\ guarded(a).ptr = a.ptr
            /\ \A u \in Threads : u # t => work'[u] = work[u]
        BY <1>w, <4>1, <4>2
      <4>q. QED BY <1>n, <3>1, <3>3, <4>3 DEF Owned
    <3>q. QED BY <2>11, <3>2, <3>3 DEF RecordEvent
  <2>12. CASE Defer(t)
    <3>1. /\ UNCHANGED <<meta_, sub, dropped>>
          /\ pending_frees_' = pending_frees_ \union work[t]
          /\ \A s \in Threads : s # t => work'[s] = work[s]
      BY <1>w, <2>12 DEF Defer, event_vars
    <3>q. QED BY <1>n, <3>1 DEF Owned
  <2>13. CASE FreeNow(t)
    <3>1. PICK pf \in work[t] : doFree(pf) /\ SetWork(t, {})
      BY <2>13 DEF FreeNow
    <3>2. sub' = sub \ {pf.ptr}
      BY <1>h, <3>1, doFreeHome
    <3>3. UNCHANGED <<meta_, pending_frees_, dropped>> /\ work[t] = {pf}
      BY <2>13 DEF FreeNow, tables, WorkByPc, event_vars
    <3>4. work'[t] = {} /\ \A s \in Threads : s # t => work'[s] = work[s]
      BY <1>w, <3>1
    <3>q. QED BY <1>n, <3>2, <3>3, <3>4 DEF Owned
  <2>14. CASE \E d \in Devices : FlushDevice(t, d)
    <3>1. work[t] = {} /\ UNCHANGED <<meta_, sub, dropped>>
      BY <2>14 DEF FlushDevice, event_vars
    <3>2. /\ \A a \in pending_frees_ : a \in pending_frees_' \/ a \in work'[t]
          /\ \A s \in Threads : s # t => work'[s] = work[s]
      BY <1>w, <2>14 DEF FlushDevice
    <3>q. QED BY <1>n, <3>1, <3>2 DEF Owned
  <2>15. CASE EmptyCacheEnd(t)
    BY <1>n, <2>15 DEF EmptyCacheEnd, Owned, event_vars, tables
  <2>16. CASE ReleasePoolSync(t)
    <3>1. UNCHANGED <<meta_, pending_frees_, sub, dropped>>
      BY <2>16 DEF ReleasePoolSync, tables
    <3>2. PICK pf \in work[t] :
            SetWork(t, (work[t] \ {pf}) \union {[pf EXCEPT !.events = {}]})
      BY <2>16 DEF ReleasePoolSync
    <3> DEFINE done == [pf EXCEPT !.events = {}]
    <3>3. done.ptr = pf.ptr
      BY <1>w DEF PendingFree
    <3>4. work'[t] = (work[t] \ {pf}) \union {done}
      BY <1>w, <3>2
    <3> HIDE DEF done
    <3>5. \A a \in work[t] : \E b \in work'[t] : b.ptr = a.ptr
      BY <3>3, <3>4
    <3>6. \A s \in Threads : s # t => work'[s] = work[s]
      BY <1>w, <3>2
    <3>q. QED BY <1>n, <3>1, <3>5, <3>6 DEF Owned
  <2>17. CASE ReleasePoolFree(t)
    <3>1. PICK pf \in work[t] : doFree(pf) /\ SetWork(t, work[t] \ {pf})
      BY <2>17 DEF ReleasePoolFree
    <3>2. sub' = sub \ {pf.ptr}
      BY <1>h, <3>1, doFreeHome
    <3>3. UNCHANGED <<meta_, pending_frees_, dropped>>
      BY <2>17 DEF ReleasePoolFree, tables, event_vars
    <3>4. work'[t] = work[t] \ {pf} /\ \A s \in Threads : s # t => work'[s] = work[s]
      BY <1>w, <3>1
    <3>q. QED BY <1>n, <3>2, <3>3, <3>4 DEF Owned
  <2>18. CASE AcquireFails(t)
    BY <1>n, <1>w, <2>18 DEF AcquireFails, Throw, Owned, tables
  <2>q. QED
    BY <1>1, <2>1, <2>2, <2>3, <2>4, <2>5, <2>6, <2>7, <2>8, <2>9,
       <2>10, <2>11, <2>12, <2>13, <2>14, <2>15, <2>16, <2>17, <2>18 DEF Calls, ThreadStep
<1>2. ASSUME Others \/ Gpu PROVE AllOwned'
  <2>1. CASE \E p \in Ptrs : FreeUnknown(p)
    BY <1>n, <2>1 DEF FreeUnknown, Owned, event_vars, locals, tables
  <2>2. CASE \E p \in Ptrs, s \in Streams : recordStream(p, s)
    BY <1>n, <2>2 DEF recordStream, Owned, event_vars, locals
  <2>3. CASE \E p \in Ptrs, s \in Streams : Launch(p, s)
    BY <1>n, <2>3 DEF Launch, Owned, event_vars, locals, tables
  <2>4. CASE \E d \in Devices, id \in Pools, f \in Filters : beginAllocateToPool(d, id, f)
    BY <1>n, <2>4 DEF beginAllocateToPool, Owned, event_vars, locals, tables
  <2>5. CASE \E d \in Devices, id \in Pools : endAllocateToPool(d, id)
    BY <1>n, <2>5 DEF endAllocateToPool, Owned, event_vars, locals, tables
  <2>6. CASE \E b \in Thresholds : setThreshold(b)
    BY <1>n, <2>6 DEF setThreshold, Owned, event_vars, locals, tables
  <2>7. CASE \E v \in EnableValues : enable(v)
    BY <1>n, <2>7 DEF enable, Owned, event_vars, locals, tables
  <2>8. CASE \E s \in Streams : GpuStep(s)
    BY <1>n, <2>8 DEF GpuStep, Owned, event_vars, locals, tables
  <2>q. QED BY <1>2, <2>1, <2>2, <2>3, <2>4, <2>5, <2>6, <2>7, <2>8 DEF Others, Gpu
<1>3. CASE UNCHANGED vars
  BY <1>n, <1>3 DEF vars, tables, locals, Owned, event_vars
<1>q. QED BY <1>1, <1>2, <1>3 DEF Next

(* The allocator loses an address only where free_impl throws while it     *)
(* records events: apart from those, what the sub-allocators handed out is *)
(* live, pending, or in the hands of a thread, for any number of threads,  *)
(* devices and pools and whichever CUDA calls fail.                        *)
THEOREM NothingLostHolds == Spec => []NothingLost
<1>1. Init => OnePlace /\ WorkByPc /\ AllOwned
  BY InitOnePlace DEF Init, WorkByPc, AllOwned
<1>2. TypeOK /\ RoutedHome /\ OnePlace /\ WorkByPc /\ AllOwned /\ [Next]_vars
        => OnePlace' /\ WorkByPc' /\ AllOwned'
  BY NextOnePlace, NextWorkByPc, NextAllOwned
<1>3. OnePlace /\ AllOwned => NothingLost
  BY NothingLostPointwise
<1>q. QED BY <1>1, <1>2, <1>3, TypeCorrect, RoutedHomeHolds, PTL DEF Spec

-----------------------------------------------------------------------------
(* Which steps touch the live allocations *)

LEMMA LiveSteps ==
  ASSUME [Next]_vars
  PROVE  \/ \E t \in Threads, p \in Ptrs : FreeBegin(t, p)
         \/ \E t \in Threads, id \in Pools : ReleasePoolBegin(t, id)
         \/ \E t \in Threads : Publish(t)
         \/ \E p \in Ptrs, s \in Streams : recordStream(p, s)
         \/ UNCHANGED <<meta_, pool_allocs_, held>>
         \/ \E p \in Ptrs : FreeUnknown(p)
<1> DEFINE Goal == \/ \E t \in Threads, p \in Ptrs : FreeBegin(t, p)
                   \/ \E t \in Threads, id \in Pools : ReleasePoolBegin(t, id)
                   \/ \E t \in Threads : Publish(t)
                   \/ \E p \in Ptrs, s \in Streams : recordStream(p, s)
                   \/ UNCHANGED <<meta_, pool_allocs_, held>>
                   \/ \E p \in Ptrs : FreeUnknown(p)
<1>1. ASSUME NEW t \in Threads, Calls(t) PROVE Goal
  BY <1>1 DEF Calls, AllocBegin, EmptyCacheBegin, tables
<1>2. ASSUME NEW t \in Threads, ThreadStep(t) PROVE Goal
  BY <1>2 DEF ThreadStep, PollCollect, ForceCollect, Reap, Allocate, AllocateFails, AcquireFails, RecordEvent,
     Defer, FreeNow, FlushDevice, EmptyCacheEnd, ReleasePoolSync, ReleasePoolFree, tables
<1>3. ASSUME Others \/ Gpu PROVE Goal
  BY <1>3 DEF Others, Gpu, Launch, beginAllocateToPool,
     endAllocateToPool, setThreshold, enable, GpuStep, tables
<1>4. CASE UNCHANGED vars
  BY <1>4 DEF vars, tables
<1>q. QED BY <1>1, <1>2, <1>3, <1>4 DEF Next

LEMMA RecordedMeta ==
  ASSUME TypeOK, NEW p \in Ptrs, NEW s \in Streams, recordStream(p, s)
  PROVE  /\ DOMAIN meta_' = DOMAIN meta_
         /\ \A q \in DOMAIN meta_ : meta_'[q].pool_id = meta_[q].pool_id
<1>1. \A q \in DOMAIN meta_ : meta_[q] \in AllocMeta
  BY DEF TypeOK, TablesOK
<1>2. p \in DOMAIN meta_ /\ meta_' = [meta_ EXCEPT ![p].recorded_streams = @ \union {s}]
  BY DEF recordStream
<1>q. QED BY <1>1, <1>2 DEF AllocMeta

-----------------------------------------------------------------------------
(* PoolTracking *)

LEMMA NextPoolTracking ==
  ASSUME TypeOK, OnePlace, PoolTracking, [Next]_vars
  PROVE  PoolTracking'
<1> DEFINE Tracked(id) == pool_allocs_[id] = {p \in DOMAIN meta_ : meta_[p].pool_id = id}
           Known(p) == meta_[p].pool_id \in DOMAIN pool_allocs_ \union {NoPool}
<1>i. (\A id \in DOMAIN pool_allocs_ : Tracked(id)) /\ \A p \in DOMAIN meta_ : Known(p)
  BY DEF PoolTracking
<1>t. /\ DOMAIN pool_allocs_ \subseteq Pools /\ NoPool \notin Pools
      /\ work \in [Threads -> SUBSET PendingFree]
  BY PlaceAssumption DEF TypeOK, TablesOK, ThreadsOK
<1>1. ASSUME NEW t \in Threads, NEW p \in Ptrs, FreeBegin(t, p) PROVE PoolTracking'
  <2>1. /\ meta_' = Without(meta_, {p}) /\ p \in DOMAIN meta_
        /\ pool_allocs_' = Untracked(p, meta_[p].pool_id)
    BY <1>1 DEF FreeBegin
  <2>2. /\ DOMAIN meta_' = DOMAIN meta_ \ {p}
        /\ \A q \in DOMAIN meta_' : meta_'[q] = meta_[q]
    BY <2>1 DEF Without
  <2>3. /\ DOMAIN pool_allocs_' = DOMAIN pool_allocs_
        /\ \A id \in DOMAIN pool_allocs_ :
             pool_allocs_'[id] = IF id = meta_[p].pool_id THEN pool_allocs_[id] \ {p}
                                 ELSE pool_allocs_[id]
    BY <2>1 DEF Untracked
  <2>4. ASSUME NEW id \in DOMAIN pool_allocs_
        PROVE  pool_allocs_'[id] = {q \in DOMAIN meta_' : meta_'[q].pool_id = id}
    <3>1. pool_allocs_[id] = {q \in DOMAIN meta_ : meta_[q].pool_id = id}
      BY <1>i
    <3>2. {q \in DOMAIN meta_' : meta_'[q].pool_id = id} = pool_allocs_[id] \ {p}
      BY <2>2, <3>1
    <3>3. CASE id = meta_[p].pool_id
      BY <2>3, <3>2, <3>3
    <3>4. CASE id # meta_[p].pool_id
      BY <2>3, <3>1, <3>2, <3>4
    <3>q. QED BY <3>3, <3>4
  <2>5. \A q \in DOMAIN meta_' : meta_'[q].pool_id \in DOMAIN pool_allocs_' \union {NoPool}
    BY <1>i, <2>2, <2>3
  <2>q. QED BY <2>3, <2>4, <2>5 DEF PoolTracking
<1>2. ASSUME NEW t \in Threads, NEW id \in Pools, ReleasePoolBegin(t, id) PROVE PoolTracking'
  <2> DEFINE live == pool_allocs_[id] \intersect DOMAIN meta_
  <2>1. /\ meta_' = Without(meta_, live) /\ id \in DOMAIN pool_allocs_
        /\ pool_allocs_' = Without(pool_allocs_, {id})
    BY <1>2 DEF ReleasePoolBegin
  <2>2. live = {p \in DOMAIN meta_ : meta_[p].pool_id = id}
    BY <1>i, <2>1
  <2> HIDE DEF live
  <2>3. /\ DOMAIN meta_' = DOMAIN meta_ \ live
        /\ \A q \in DOMAIN meta_' : meta_'[q] = meta_[q]
    BY <2>1 DEF Without
  <2>4. /\ DOMAIN pool_allocs_' = DOMAIN pool_allocs_ \ {id}
        /\ \A i \in DOMAIN pool_allocs_' : pool_allocs_'[i] = pool_allocs_[i]
    BY <2>1 DEF Without
  <2>q. QED BY <1>i, <2>2, <2>3, <2>4 DEF PoolTracking
<1>3. ASSUME NEW t \in Threads, Publish(t) PROVE PoolTracking'
  <2>1. PICK pf \in work[t] :
          LET id == pf.meta.pool_id
              tagged == IF id \in DOMAIN pool_allocs_ THEN pool_allocs_[id] ELSE {}
          IN  /\ meta_' = Put(meta_, pf.ptr, pf.meta)
              /\ pool_allocs_' = IF id = NoPool THEN pool_allocs_
                                 ELSE Put(pool_allocs_, id, tagged \union {pf.ptr})
    BY <1>3 DEF Publish
  <2>2. pf.ptr \notin DOMAIN meta_
    BY DEF OnePlace
  <2>3. /\ DOMAIN meta_' = DOMAIN meta_ \union {pf.ptr} /\ meta_'[pf.ptr] = pf.meta
        /\ \A q \in DOMAIN meta_ : meta_'[q] = meta_[q]
    BY <2>1, <2>2 DEF Put
  <2>4. CASE pf.meta.pool_id = NoPool
    BY <1>i, <1>t, <2>1, <2>2, <2>3, <2>4 DEF PoolTracking
  <2>5. CASE pf.meta.pool_id # NoPool
    <3> DEFINE id == pf.meta.pool_id
               tagged == IF id \in DOMAIN pool_allocs_ THEN pool_allocs_[id] ELSE {}
    <3>1. pool_allocs_' = Put(pool_allocs_, id, tagged \union {pf.ptr})
      BY <2>1, <2>5
    <3>2. tagged = {p \in DOMAIN meta_ : meta_[p].pool_id = id}
      BY <1>i, <2>5
    <3> HIDE DEF tagged
    <3>3. /\ DOMAIN pool_allocs_' = DOMAIN pool_allocs_ \union {id}
          /\ pool_allocs_'[id] = tagged \union {pf.ptr}
          /\ \A i \in DOMAIN pool_allocs_ : i # id => pool_allocs_'[i] = pool_allocs_[i]
      BY <3>1 DEF Put
    <3>q. QED BY <1>i, <2>2, <2>3, <3>2, <3>3 DEF PoolTracking
  <2>q. QED BY <2>4, <2>5
<1>4. ASSUME NEW p \in Ptrs, NEW s \in Streams, recordStream(p, s) PROVE PoolTracking'
  <2>1. UNCHANGED pool_allocs_
    BY <1>4 DEF recordStream
  <2>q. QED BY <1>4, <1>i, <2>1, RecordedMeta DEF PoolTracking
<1>5. CASE UNCHANGED <<meta_, pool_allocs_>>
  BY <1>5 DEF PoolTracking
<1>q. QED BY <1>1, <1>2, <1>3, <1>4, <1>5, LiveSteps DEF FreeUnknown, tables

(* Each pool lists exactly the live allocations tagged with it, whatever   *)
(* is freed or published while pools are released: releasePool neither     *)
(* misses a live allocation nor frees one that is gone.                    *)
THEOREM PoolTrackingHolds == Spec => []PoolTracking
<1>1. Init => OnePlace /\ PoolTracking
  BY InitOnePlace DEF Init, PoolTracking, EmptyMap
<1>2. TypeOK /\ OnePlace /\ PoolTracking /\ [Next]_vars => OnePlace' /\ PoolTracking'
  BY NextOnePlace, NextPoolTracking
<1>q. QED BY <1>1, <1>2, TypeCorrect, PTL DEF Spec

-----------------------------------------------------------------------------
(* NoAlias *)

(* What the program holds is live, and held once.                          *)
HeldLive == \A p \in Ptrs : held[p] = 0 \/ (held[p] = 1 /\ p \in DOMAIN meta_)

LEMMA NextHeldLive ==
  ASSUME ~ KeepPoolPtrs \/ Pools = {}, TypeOK, OnePlace, WorkByPc, HeldLive, [Next]_vars
  PROVE  HeldLive'
<1>t. held \in [Ptrs -> Nat] /\ work \in [Threads -> SUBSET PendingFree]
  BY DEF TypeOK, MemoryOK, ThreadsOK
<1>1. ASSUME NEW t \in Threads, NEW p \in Ptrs, FreeBegin(t, p) PROVE HeldLive'
  <2>1. held' = [held EXCEPT ![p] = @ - 1] /\ held[p] > 0 /\ meta_' = Without(meta_, {p})
    BY <1>1 DEF FreeBegin
  <2>2. held[p] = 1
    BY <1>t, <2>1 DEF HeldLive
  <2>q. QED BY <1>t, <2>1, <2>2 DEF HeldLive, Without
<1>2. ASSUME NEW t \in Threads, NEW id \in Pools, ReleasePoolBegin(t, id) PROVE HeldLive'
  <2> DEFINE live == pool_allocs_[id] \intersect DOMAIN meta_
  <2>1. /\ meta_' = Without(meta_, live) /\ UNCHANGED held
        /\ \A p \in live : held[p] = 0
    BY <1>2 DEF ReleasePoolBegin
  <2> HIDE DEF live
  <2>q. QED BY <2>1 DEF HeldLive, Without
<1>3. ASSUME NEW t \in Threads, Publish(t) PROVE HeldLive'
  <2>1. PICK pf \in work[t] : /\ meta_' = Put(meta_, pf.ptr, pf.meta)
                              /\ held' = [held EXCEPT ![pf.ptr] = @ + 1]
    BY <1>3 DEF Publish
  <2>2. pf.ptr \notin DOMAIN meta_ /\ pf.ptr \in Ptrs
    BY <1>t DEF OnePlace, PendingFree
  <2>3. held[pf.ptr] = 0
    BY <2>2 DEF HeldLive
  <2>q. QED BY <1>t, <2>1, <2>2, <2>3 DEF HeldLive, Put
<1>4. ASSUME NEW p \in Ptrs, NEW s \in Streams, recordStream(p, s) PROVE HeldLive'
  <2>1. UNCHANGED held
    BY <1>4 DEF recordStream
  <2>q. QED BY <1>4, <2>1, RecordedMeta DEF HeldLive
<1>5. CASE UNCHANGED <<meta_, held>>
  BY <1>5 DEF HeldLive
<1>6. ASSUME NEW p \in Ptrs, FreeUnknown(p) PROVE FALSE
  BY <1>6, <1>t DEF FreeUnknown, HeldLive
<1>q. QED BY <1>1, <1>2, <1>3, <1>4, <1>5, <1>6, LiveSteps

(* The program never holds one address for two allocations, provided it    *)
(* gives up the pointers of a pool before it releases the pool.  Without   *)
(* that, its free of an old pointer takes the new allocation out of meta_. *)
THEOREM NoAliasHolds == ~ KeepPoolPtrs \/ Pools = {} => (Spec => []NoAlias)
<1> SUFFICES ASSUME ~ KeepPoolPtrs \/ Pools = {} PROVE Spec => []NoAlias OBVIOUS
<1>1. Init => OnePlace /\ WorkByPc /\ HeldLive
  BY InitOnePlace DEF Init, WorkByPc, HeldLive
<1>2. TypeOK /\ OnePlace /\ WorkByPc /\ HeldLive /\ [Next]_vars
        => OnePlace' /\ WorkByPc' /\ HeldLive'
  BY NextOnePlace, NextWorkByPc, NextHeldLive
<1>3. HeldLive => NoAlias
  BY DEF HeldLive, NoAlias
<1>q. QED BY <1>1, <1>2, <1>3, TypeCorrect, PTL DEF Spec

-----------------------------------------------------------------------------
(* StatsAgree *)

(* Address p is charged to class c with n bytes. *)
IsCharged(a) == \/ a \in pending_frees_ \/ a \in dropped
                \/ \E t \in Threads : pc[t] # "publish" /\ a \in work[t]
Charge(p, n, c) ==
  \/ p \in DOMAIN meta_ /\ meta_[p].size = n /\ Class(meta_[p]) = c
  \/ \E a : IsCharged(a) /\ a.ptr = p /\ a.meta.size = n /\ Class(a.meta) = c

BytesAreCharged ==
  \A c, x : x \in Bytes(c) <=> \E p, n : Charge(p, n, c) /\ x \in {p} \X (1..n)

LEMMA BytesPointwise == BytesAreCharged
<1> SUFFICES ASSUME NEW c
             PROVE  \A x : x \in Bytes(c) <=> \E p, n : Charge(p, n, c) /\ x \in {p} \X (1..n)
  BY DEF BytesAreCharged
<1>1. \A a : a \in Charged <=> IsCharged(a)
  BY DEF Charged, IsCharged
<1>2. ASSUME NEW x, x \in Bytes(c) PROVE \E p, n : Charge(p, n, c) /\ x \in {p} \X (1..n)
  <2>1. CASE \E p \in DOMAIN meta_ : Class(meta_[p]) = c /\ x \in BytesOf(p, meta_[p])
    BY <2>1 DEF BytesOf, Charge
  <2>2. CASE \E a \in Charged : Class(a.meta) = c /\ x \in BytesOf(a.ptr, a.meta)
    BY <1>1, <2>2 DEF BytesOf, Charge
  <2>q. QED BY <1>2, <2>1, <2>2 DEF Bytes
<1>3. ASSUME NEW x, NEW p, NEW n, Charge(p, n, c), x \in {p} \X (1..n) PROVE x \in Bytes(c)
  <2>1. CASE p \in DOMAIN meta_ /\ meta_[p].size = n /\ Class(meta_[p]) = c
    <3>1. x \in BytesOf(p, meta_[p])
      BY <1>3, <2>1 DEF BytesOf
    <3>q. QED BY <2>1, <3>1 DEF Bytes
  <2>2. CASE \E a : IsCharged(a) /\ a.ptr = p /\ a.meta.size = n /\ Class(a.meta) = c
    <3>1. PICK a \in Charged : a.ptr = p /\ a.meta.size = n /\ Class(a.meta) = c
      BY <1>1, <2>2
    <3>2. x \in BytesOf(a.ptr, a.meta)
      BY <1>3, <3>1 DEF BytesOf
    <3>q. QED BY <3>1, <3>2 DEF Bytes
  <2>q. QED BY <1>3, <2>1, <2>2 DEF Charge
<1>q. QED BY <1>2, <1>3

LEMMA ChargedOnce ==
  ASSUME OnePlace, NEW p, NEW n, NEW c, NEW m, NEW d, Charge(p, n, c), Charge(p, m, d)
  PROVE  n = m /\ c = d
BY DEF OnePlace, Charge, IsCharged

(* A step moves the charges about, adds the one it publishes, or drops the *)
(* one it frees.                                                           *)
SameCharges == \A p, n, c : Charge(p, n, c)' <=> Charge(p, n, c)
Publishes(a) ==
  /\ current_bytes' = [current_bytes EXCEPT ![Class(a.meta)] = @ + a.meta.size]
  /\ \A n, c : ~ Charge(a.ptr, n, c)
  /\ \A p, n, c : Charge(p, n, c)' <=> \/ Charge(p, n, c)
                                       \/ p = a.ptr /\ n = a.meta.size /\ c = Class(a.meta)
Frees(a) ==
  /\ current_bytes' = [current_bytes EXCEPT ![Class(a.meta)] = @ - a.meta.size]
  /\ Charge(a.ptr, a.meta.size, Class(a.meta))
  /\ \A p, n, c : Charge(p, n, c)' <=> Charge(p, n, c) /\ p # a.ptr

ChargeStep ==
  \/ UNCHANGED current_bytes /\ SameCharges
  \/ \E a \in PendingFree : Publishes(a) \/ Frees(a)

(* Thread t gives up the charged entries gone, and takes the entries come. *)
LEMMA WorkCharged ==
  ASSUME NEW t \in Threads, work \in [Threads -> SUBSET PendingFree], pc \in [Threads -> PcValues],
         \A u \in Threads : u # t => work'[u] = work[u] /\ pc'[u] = pc[u],
         pc[t] # "publish", pc'[t] # "publish",
         NEW a
  PROVE  IsCharged(a)' <=> \/ a \in pending_frees_' \/ a \in dropped' \/ a \in work'[t]
                           \/ \E u \in Threads : u # t /\ pc[u] # "publish" /\ a \in work[u]
BY DEF IsCharged

(* doFree of an entry that thread t drops from its work. *)
LEMMA DroppedCharge ==
  ASSUME TypeOK, OnePlace, NEW t \in Threads, NEW a \in work[t], pc[t] # "publish",
         pc'[t] # "publish", \A u \in Threads : u # t => pc'[u] = pc[u],
         doFree(a), SetWork(t, work[t] \ {a}), UNCHANGED <<tables, dropped>>
  PROVE  ChargeStep
<1>t. a \in PendingFree /\ work \in [Threads -> SUBSET PendingFree] /\ pc \in [Threads -> PcValues]
  BY DEF TypeOK, ThreadsOK
<1>1. current_bytes' = [current_bytes EXCEPT ![Class(a.meta)] = @ - a.meta.size]
  BY DEF doFree, Class
<1>2. IsCharged(a) /\ Charge(a.ptr, a.meta.size, Class(a.meta))
  BY DEF Charge, IsCharged
<1>3. /\ work'[t] = work[t] \ {a} /\ \A u \in Threads : u # t => work'[u] = work[u]
      /\ UNCHANGED <<meta_, pending_frees_, dropped>>
  BY <1>t DEF tables
<1>4. \A b : IsCharged(b)' <=> IsCharged(b) /\ b # a
  BY <1>t, <1>3, WorkCharged DEF IsCharged, OnePlace
<1>5. \A b : IsCharged(b) => (b # a <=> b.ptr # a.ptr)
  BY DEF IsCharged, OnePlace
<1>6. a.ptr \notin DOMAIN meta_
  BY DEF OnePlace
<1>7. \A p, n, c : Charge(p, n, c)' <=> Charge(p, n, c) /\ p # a.ptr
  BY <1>3, <1>4, <1>5, <1>6 DEF Charge
<1>q. QED BY <1>t, <1>1, <1>2, <1>7 DEF ChargeStep, Frees

LEMMA NextCharge ==
  ASSUME TypeOK, OnePlace, WorkByPc, [Next]_vars
  PROVE  ChargeStep
<1>w. work \in [Threads -> SUBSET PendingFree] /\ pc \in [Threads -> PcValues]
  BY DEF TypeOK, ThreadsOK
<1>s. (\A a : IsCharged(a)' <=> IsCharged(a)) /\ UNCHANGED <<meta_, current_bytes>> => ChargeStep
  BY DEF ChargeStep, SameCharges, Charge
<1>1. ASSUME NEW t \in Threads, Calls(t) \/ ThreadStep(t) PROVE ChargeStep
  <2>1. CASE \E size \in Sizes, s \in AllocStreams : AllocBegin(t, size, s)
    BY <1>w, <1>s, <2>1 DEF AllocBegin, tables, event_vars, IsCharged
  <2>2. CASE \E p \in Ptrs : FreeBegin(t, p)
    <3>1. PICK p \in DOMAIN meta_ : /\ meta_' = Without(meta_, {p}) /\ pc[t] = "idle"
                                    /\ work' = [work EXCEPT ![t] = {Entry(p, meta_[p])}]
                                    /\ UNCHANGED <<pending_frees_, dropped, current_bytes>>
                                    /\ \/ pc' = [pc EXCEPT ![t] = "dofree"]
                                       \/ pc' = [pc EXCEPT ![t] = "record"]
      BY <2>2 DEF FreeBegin, event_vars
    <3> DEFINE e == Entry(p, meta_[p])
    <3>2. e.ptr = p /\ e.meta = meta_[p]
      BY DEF Entry
    <3> HIDE DEF e
    <3>3. /\ work'[t] = {e} /\ pc'[t] # "publish"
          /\ \A u \in Threads : u # t => work'[u] = work[u] /\ pc'[u] = pc[u]
      BY <1>w, <3>1 DEF e
    <3>4. work[t] = {}
      BY <3>1 DEF WorkByPc
    <3>5. \A a : IsCharged(a)' <=> IsCharged(a) \/ a = e
      BY <1>w, <3>1, <3>3, <3>4, WorkCharged DEF IsCharged
    <3>6. DOMAIN meta_' = DOMAIN meta_ \ {p} /\ \A q \in DOMAIN meta_' : meta_'[q] = meta_[q]
      BY <3>1 DEF Without
    <3>7. SameCharges
      BY <3>2, <3>5, <3>6 DEF SameCharges, Charge
    <3>q. QED BY <3>1, <3>7 DEF ChargeStep
  <2>3. CASE \E id \in Pools : ReleasePoolBegin(t, id)
    <3>1. PICK id \in Pools : ReleasePoolBegin(t, id)
      BY <2>3
    <3> DEFINE live == pool_allocs_[id] \intersect DOMAIN meta_
               pool_pending == {pf \in pending_frees_ : pf.meta.pool_id = id}
               freed == {Entry(p, meta_[p]) : p \in live}
    <3>2. /\ meta_' = Without(meta_, live)
          /\ pending_frees_' = pending_frees_ \ pool_pending
          /\ work' = [work EXCEPT ![t] = freed \union pool_pending]
          /\ pc[t] = "idle" /\ \E label \in {"idle", "release"} : pc' = [pc EXCEPT ![t] = label]
          /\ UNCHANGED <<dropped, current_bytes>>
      BY <3>1 DEF ReleasePoolBegin, event_vars
    <3>3. work[t] = {}
      BY <3>2 DEF WorkByPc
    <3>4. DOMAIN meta_' = DOMAIN meta_ \ live /\ \A q \in DOMAIN meta_' : meta_'[q] = meta_[q]
      BY <3>2 DEF Without
    <3>5. \A a \in freed : a.ptr \in live /\ a.meta = meta_[a.ptr]
      BY DEF Entry
    <3>6. ASSUME NEW p \in live PROVE \E a \in freed : a.ptr = p /\ a.meta = meta_[p]
      <4>1. Entry(p, meta_[p]).ptr = p /\ Entry(p, meta_[p]).meta = meta_[p]
        BY DEF Entry
      <4>2. Entry(p, meta_[p]) \in freed
        OBVIOUS
      <4>q. QED BY <4>1, <4>2
    <3>7. live \subseteq DOMAIN meta_ /\ pool_pending \subseteq pending_frees_
      OBVIOUS
    <3> HIDE DEF live, pool_pending, freed
    <3>8. /\ work'[t] = freed \union pool_pending /\ pc'[t] # "publish"
          /\ \A u \in Threads : u # t => work'[u] = work[u] /\ pc'[u] = pc[u]
      BY <1>w, <3>2
    <3>9. \A a : IsCharged(a)' <=> IsCharged(a) \/ a \in freed
      BY <1>w, <3>2, <3>3, <3>7, <3>8, WorkCharged DEF IsCharged
    <3>10. ASSUME NEW p, NEW n, NEW c PROVE Charge(p, n, c)' <=> Charge(p, n, c)
      BY <3>4, <3>5, <3>6, <3>7, <3>9 DEF Charge
    <3>q. QED BY <3>2, <3>10 DEF ChargeStep, SameCharges
  <2>4. CASE EmptyCacheBegin(t)
    BY <1>w, <1>s, <2>4 DEF EmptyCacheBegin, tables, event_vars, IsCharged
  <2>5. CASE PollCollect(t)
    <3>1. PICK ready \in SUBSET pending_frees_ :
            /\ pending_frees_' = pending_frees_ \ ready /\ work' = [work EXCEPT ![t] = ready]
            /\ pc[t] = "poll" /\ pc' = [pc EXCEPT ![t] = "attempt"]
            /\ UNCHANGED <<meta_, dropped, current_bytes>>
      BY <2>5 DEF PollCollect, event_vars
    <3>2. work[t] = {}
      BY <3>1 DEF WorkByPc
    <3>3. \A a : IsCharged(a)' <=> IsCharged(a)
      BY <1>w, <3>1, <3>2 DEF IsCharged
    <3>q. QED BY <1>s, <3>1, <3>3
  <2>6. CASE ForceCollect(t)
    <3>1. PICK to_free \in SUBSET pending_frees_ :
            /\ pending_frees_' = pending_frees_ \ to_free /\ work' = [work EXCEPT ![t] = to_free]
            /\ pc[t] = "force" /\ pc' = [pc EXCEPT ![t] = "attempt"]
            /\ UNCHANGED <<meta_, dropped, current_bytes>>
      BY <2>6 DEF ForceCollect, event_vars
    <3>2. work[t] = {}
      BY <3>1 DEF WorkByPc
    <3>3. \A a : IsCharged(a)' <=> IsCharged(a)
      BY <1>w, <3>1, <3>2 DEF IsCharged
    <3>q. QED BY <1>s, <3>1, <3>3
  <2>7. CASE Reap(t)
    <3>1. PICK a \in work[t] : doFree(a) /\ SetWork(t, work[t] \ {a})
      BY <2>7 DEF Reap
    <3>2. pc[t] # "publish" /\ UNCHANGED <<pc, tables, dropped>>
      BY <2>7 DEF Reap
    <3>q. QED BY <3>1, <3>2, DroppedCharge
  <2>8. CASE Allocate(t)
    <3>1. PICK a : /\ work' = [work EXCEPT ![t] = {a}] /\ pc' = [pc EXCEPT ![t] = "publish"]
                   /\ work[t] = {} /\ UNCHANGED <<pending_frees_, meta_, dropped, current_bytes>>
      BY <2>8 DEF Allocate, tables, event_vars
    <3>2. \A b : IsCharged(b)' <=> IsCharged(b)
      BY <1>w, <3>1 DEF IsCharged
    <3>q. QED BY <1>s, <3>1, <3>2
  <2>9. CASE AllocateFails(t)
    <3>1. /\ UNCHANGED <<pending_frees_, meta_, dropped, current_bytes, work>> /\ work[t] = {}
          /\ \E label \in {"idle", "force"} : pc' = [pc EXCEPT ![t] = label]
      BY <2>9 DEF AllocateFails, tables, event_vars
    <3>2. \A b : IsCharged(b)' <=> IsCharged(b)
      BY <1>w, <3>1 DEF IsCharged
    <3>q. QED BY <1>s, <3>1, <3>2
  <2>10. CASE Publish(t)
    <3>1. PICK a \in work[t] :
            /\ meta_' = Put(meta_, a.ptr, a.meta)
            /\ current_bytes' = [current_bytes EXCEPT ![Class(a.meta)] = @ + a.meta.size]
      BY <2>10 DEF Publish, Class
    <3>2. /\ pc[t] = "publish" /\ pc' = [pc EXCEPT ![t] = "idle"]
          /\ work' = [work EXCEPT ![t] = {}] /\ UNCHANGED <<pending_frees_, dropped>>
      BY <2>10 DEF Publish, event_vars
    <3>3. a \in PendingFree /\ a.ptr \notin DOMAIN meta_
      BY <1>w DEF OnePlace
    <3>4. \A b : IsCharged(b) => b.ptr # a.ptr
      BY <3>2 DEF OnePlace, IsCharged
    <3>5. \A b : IsCharged(b)' <=> IsCharged(b)
      BY <1>w, <3>2 DEF IsCharged
    <3>6. /\ DOMAIN meta_' = DOMAIN meta_ \union {a.ptr} /\ meta_'[a.ptr] = a.meta
          /\ \A q \in DOMAIN meta_ : meta_'[q] = meta_[q]
      BY <3>1, <3>3 DEF Put
    <3>7. \A n, c : ~ Charge(a.ptr, n, c)
      BY <3>3, <3>4 DEF Charge
    <3>8. \A p, n, c : Charge(p, n, c)' <=> \/ Charge(p, n, c)
                                            \/ p = a.ptr /\ n = a.meta.size /\ c = Class(a.meta)
      BY <3>3, <3>5, <3>6 DEF Charge
    <3>q. QED BY <3>1, <3>3, <3>7, <3>8 DEF ChargeStep, Publishes
  <2>t. ASSUME Throw(t), pc[t] = "record", UNCHANGED <<meta_, pending_frees_, current_bytes>>
        PROVE  ChargeStep
    <3>1. /\ dropped' = dropped \union work[t] /\ work' = [work EXCEPT ![t] = {}]
          /\ pc' = [pc EXCEPT ![t] = "idle"]
      BY <2>t DEF Throw
    <3>2. \A a : IsCharged(a)' <=> IsCharged(a)
      BY <1>w, <2>t, <3>1 DEF IsCharged
    <3>q. QED BY <1>s, <2>t, <3>2
  <2>11. CASE \E s \in Streams : RecordEvent(t, s)
    <3>1. UNCHANGED <<meta_, pending_frees_, current_bytes>> /\ pc[t] = "record"
      BY <2>11 DEF RecordEvent, tables
    <3>2. CASE Throw(t)
      BY <2>t, <3>1, <3>2
    <3>3. ASSUME NEW e \in Events, UNCHANGED <<dropped, pc>>,
                 SetWork(t, {[pf EXCEPT !.events = @ \union {e}] : pf \in work[t]})
          PROVE  ChargeStep
      <4> DEFINE guarded(a) == [a EXCEPT !.events = @ \union {e}]
      <4>1. \A a \in work[t] : guarded(a).ptr = a.ptr /\ guarded(a).meta = a.meta
        BY <1>w DEF PendingFree
      <4>2. work' = [work EXCEPT ![t] = {guarded(a) : a \in work[t]}]
        BY <3>3
      <4> HIDE DEF guarded
      <4>3. /\ work'[t] = {guarded(a) : a \in work[t]}
            /\ \A u \in Threads : u # t => work'[u] = work[u]
        BY <1>w, <4>2
      <4>4. ASSUME NEW p, NEW m
            PROVE (\E a : IsCharged(a)' /\ a.ptr = p /\ a.meta = m)
                    <=> \E a : IsCharged(a) /\ a.ptr = p /\ a.meta = m
        BY <3>1, <3>3, <4>1, <4>3 DEF IsCharged
      <4>5. SameCharges
        BY <3>1, <4>4 DEF SameCharges, Charge
      <4>q. QED BY <3>1, <4>5 DEF ChargeStep
    <3>q. QED BY <2>11, <3>2, <3>3 DEF RecordEvent
  <2>12. CASE Defer(t)
    <3>1. /\ pending_frees_' = pending_frees_ \union work[t] /\ work' = [work EXCEPT ![t] = {}]
          /\ pc[t] = "record" /\ pc' = [pc EXCEPT ![t] = "idle"]
          /\ UNCHANGED <<meta_, dropped, current_bytes>>
      BY <2>12 DEF Defer, event_vars
    <3>2. \A a : IsCharged(a)' <=> IsCharged(a)
      BY <1>w, <3>1 DEF IsCharged
    <3>q. QED BY <1>s, <3>1, <3>2
  <2>13. CASE FreeNow(t)
    <3>1. PICK a \in work[t] : doFree(a) /\ SetWork(t, {})
      BY <2>13 DEF FreeNow
    <3>2. pc[t] = "dofree" /\ pc' = [pc EXCEPT ![t] = "idle"] /\ UNCHANGED <<tables, dropped>>
      BY <2>13 DEF FreeNow, event_vars
    <3>3. work[t] \ {a} = {}
      BY <3>2 DEF WorkByPc
    <3>4. /\ pc[t] # "publish" /\ pc'[t] # "publish"
          /\ \A u \in Threads : u # t => pc'[u] = pc[u]
      BY <1>w, <3>2
    <3>q. QED BY <3>1, <3>2, <3>3, <3>4, DroppedCharge
  <2>14. CASE \E d \in Devices : FlushDevice(t, d)
    <3>1. PICK taken \in SUBSET pending_frees_ :
            /\ pending_frees_' = pending_frees_ \ taken /\ work' = [work EXCEPT ![t] = taken]
            /\ pc[t] = "flush" /\ work[t] = {} /\ UNCHANGED <<pc, meta_, dropped, current_bytes>>
      <4>1. PICK d \in Devices : FlushDevice(t, d)
        BY <2>14
      <4> DEFINE taken == {pf \in pending_frees_ : pf.meta.device = d}
      <4>2. pending_frees_ \ taken = {pf \in pending_frees_ : pf.meta.device # d}
        OBVIOUS
      <4>q. QED BY <4>1, <4>2 DEF FlushDevice, event_vars
    <3>2. \A a : IsCharged(a)' <=> IsCharged(a)
      BY <1>w, <3>1 DEF IsCharged
    <3>q. QED BY <1>s, <3>1, <3>2
  <2>15. CASE EmptyCacheEnd(t)
    BY <1>w, <1>s, <2>15 DEF EmptyCacheEnd, tables, event_vars, IsCharged
  <2>16. CASE ReleasePoolSync(t)
    <3>1. PICK pf \in work[t] :
            SetWork(t, (work[t] \ {pf}) \union {[pf EXCEPT !.events = {}]})
      BY <2>16 DEF ReleasePoolSync
    <3>2. UNCHANGED <<meta_, pending_frees_, dropped, current_bytes, pc>> /\ pc[t] = "release"
      BY <2>16 DEF ReleasePoolSync, tables
    <3> DEFINE done == [pf EXCEPT !.events = {}]
    <3>3. done.ptr = pf.ptr /\ done.meta = pf.meta
      BY <1>w DEF PendingFree
    <3>4. work'[t] = (work[t] \ {pf}) \union {done} /\ \A u \in Threads : u # t => work'[u] = work[u]
      BY <1>w, <3>1
    <3> HIDE DEF done
    <3>5. ASSUME NEW p, NEW m
          PROVE (\E a : IsCharged(a)' /\ a.ptr = p /\ a.meta = m)
                  <=> \E a : IsCharged(a) /\ a.ptr = p /\ a.meta = m
      BY <3>2, <3>3, <3>4 DEF IsCharged
    <3>6. SameCharges
      BY <3>2, <3>5 DEF SameCharges, Charge
    <3>q. QED BY <3>2, <3>6 DEF ChargeStep
  <2>17. CASE ReleasePoolFree(t)
    <3>1. PICK a \in work[t] : doFree(a) /\ SetWork(t, work[t] \ {a})
      BY <2>17 DEF ReleasePoolFree
    <3>2. /\ pc[t] = "release" /\ UNCHANGED <<tables, dropped>>
          /\ \E label \in {"idle", "release"} : pc' = [pc EXCEPT ![t] = label]
      BY <2>17 DEF ReleasePoolFree, event_vars
    <3>3. /\ pc[t] # "publish" /\ pc'[t] # "publish"
          /\ \A u \in Threads : u # t => pc'[u] = pc[u]
      BY <1>w, <3>2
    <3>q. QED BY <3>1, <3>2, <3>3, DroppedCharge
  <2>18. CASE AcquireFails(t)
    BY <2>t, <2>18 DEF AcquireFails, tables
  <2>q. QED
    BY <1>1, <2>1, <2>2, <2>3, <2>4, <2>5, <2>6, <2>7, <2>8, <2>9,
       <2>10, <2>11, <2>12, <2>13, <2>14, <2>15, <2>16, <2>17, <2>18 DEF Calls, ThreadStep
<1>2. ASSUME NEW p \in Ptrs, NEW s \in Streams, recordStream(p, s) PROVE ChargeStep
  <2>1. \A q \in DOMAIN meta_ : meta_[q] \in AllocMeta
    BY DEF TypeOK, TablesOK
  <2>2. p \in DOMAIN meta_ /\ meta_' = [meta_ EXCEPT ![p].recorded_streams = @ \union {s}]
    BY <1>2 DEF recordStream
  <2>3. /\ DOMAIN meta_' = DOMAIN meta_
        /\ \A q \in DOMAIN meta_ : meta_'[q].size = meta_[q].size /\ Class(meta_'[q]) = Class(meta_[q])
    BY <2>1, <2>2 DEF AllocMeta, Class
  <2>4. UNCHANGED <<pending_frees_, dropped, current_bytes, work, pc>>
    BY <1>2 DEF recordStream, locals, event_vars
  <2>5. SameCharges
    BY <2>3, <2>4 DEF SameCharges, Charge, IsCharged
  <2>q. QED BY <2>4, <2>5 DEF ChargeStep
<1>3. UNCHANGED <<meta_, pending_frees_, dropped, work, pc, current_bytes>> => ChargeStep
  BY <1>s DEF IsCharged
<1>4. CASE Others \/ Gpu
  BY <1>2, <1>3, <1>4 DEF Others, Gpu, FreeUnknown, Launch, beginAllocateToPool,
     endAllocateToPool, setThreshold, enable, GpuStep, tables, locals, event_vars
<1>5. CASE UNCHANGED vars
  BY <1>3, <1>5 DEF vars, tables, locals, event_vars
<1>q. QED BY <1>1, <1>4, <1>5 DEF Next

LEMMA BlockBytes ==
  ASSUME NEW p, NEW n \in Nat
  PROVE  IsFiniteSet({p} \X (1..n)) /\ Cardinality({p} \X (1..n)) = n
<1>1. IsFiniteSet({p}) /\ Cardinality({p}) = 1
  BY FS_Singleton
<1>2. IsFiniteSet(1..n) /\ Cardinality(1..n) = n
  BY FS_Interval
<1> DEFINE S == {p}
           T == 1..n
<1> HIDE DEF S, T
<1>3. IsFiniteSet(S \X T) /\ Cardinality(S \X T) = Cardinality(S) * Cardinality(T)
  BY <1>1, <1>2, FS_Product DEF S, T
<1>4. IsFiniteSet(S \X T) /\ Cardinality(S \X T) = 1 * n
  BY <1>1, <1>2, <1>3 DEF S, T
<1>q. QED BY <1>4 DEF S, T

FiniteBytes == \A c \in Devices \X BOOLEAN : IsFiniteSet(Bytes(c))

LEMMA NextStatsAgree ==
  ASSUME TypeOK, OnePlace, WorkByPc, FiniteBytes, StatsAgree, [Next]_vars
  PROVE  FiniteBytes' /\ StatsAgree'
<1> SUFFICES ASSUME NEW c \in Devices \X BOOLEAN
             PROVE  IsFiniteSet(Bytes(c)') /\ current_bytes'[c] = Cardinality(Bytes(c)')
  BY DEF FiniteBytes, StatsAgree
<1>b. \A x : x \in Bytes(c) <=> \E p, n : Charge(p, n, c) /\ x \in {p} \X (1..n)
  BY BytesPointwise DEF BytesAreCharged
<1>a. BytesAreCharged'
  BY BytesPointwise, PTL
<1>n. \A x : x \in Bytes(c)' <=> \E p, n : Charge(p, n, c)' /\ x \in {p} \X (1..n)
  BY <1>a DEF BytesAreCharged
<1>t. current_bytes \in [Devices \X BOOLEAN -> Int]
  BY DEF TypeOK, MemoryOK
<1>i. /\ IsFiniteSet(Bytes(c)) /\ current_bytes[c] = Cardinality(Bytes(c))
      /\ Cardinality(Bytes(c)) \in Nat
  BY FS_CardinalityType DEF FiniteBytes, StatsAgree
<1>1. CASE UNCHANGED current_bytes /\ SameCharges
  <2>1. Bytes(c)' = Bytes(c)
    BY <1>1, <1>b, <1>n DEF SameCharges
  <2>q. QED BY <1>1, <1>i, <2>1
<1>2. ASSUME NEW a \in PendingFree, Publishes(a)
      PROVE  IsFiniteSet(Bytes(c)') /\ current_bytes'[c] = Cardinality(Bytes(c)')
  <2> DEFINE block == {a.ptr} \X (1..a.meta.size)
  <2>1. a.meta.size \in Nat /\ Class(a.meta) \in Devices \X BOOLEAN
    BY SizesAssumption DEF PendingFree, AllocMeta, Class
  <2>2. CASE Class(a.meta) = c
    <3>1. Bytes(c)' = Bytes(c) \union block
      BY <1>b, <1>n, <1>2, <2>2 DEF Publishes
    <3>2. Bytes(c) \intersect block = {}
      BY <1>b, <1>2 DEF Publishes
    <3>3. IsFiniteSet(block) /\ Cardinality(block) = a.meta.size
      BY <2>1, BlockBytes
    <3> HIDE DEF block
    <3>4. IsFiniteSet(Bytes(c) \union block)
          /\ Cardinality(Bytes(c) \union block) = Cardinality(Bytes(c)) + a.meta.size - 0
      BY <1>i, <3>2, <3>3, FS_Union, FS_EmptySet
    <3>5. current_bytes'[c] = current_bytes[c] + a.meta.size
      BY <1>t, <1>2, <2>2 DEF Publishes
    <3>q. QED BY <1>i, <2>1, <3>1, <3>4, <3>5
  <2>3. CASE Class(a.meta) # c
    <3>c. \A p, n : Charge(p, n, c)' <=> Charge(p, n, c)
      BY <1>2, <2>3 DEF Publishes
    <3>1. Bytes(c)' = Bytes(c)
      BY <1>b, <1>n, <3>c
    <3>2. current_bytes'[c] = current_bytes[c]
      BY <1>t, <1>2, <2>3 DEF Publishes
    <3>q. QED BY <1>i, <3>1, <3>2
  <2>q. QED BY <2>2, <2>3
<1>3. ASSUME NEW a \in PendingFree, Frees(a)
      PROVE  IsFiniteSet(Bytes(c)') /\ current_bytes'[c] = Cardinality(Bytes(c)')
  <2> DEFINE block == {a.ptr} \X (1..a.meta.size)
  <2>1. a.meta.size \in Nat /\ Class(a.meta) \in Devices \X BOOLEAN
    BY SizesAssumption DEF PendingFree, AllocMeta, Class
  <2>2. \A n, d : Charge(a.ptr, n, d) => n = a.meta.size /\ d = Class(a.meta)
    BY <1>3, ChargedOnce DEF Frees
  <2>3. CASE Class(a.meta) = c
    <3>1. Bytes(c)' = Bytes(c) \ block
      BY <1>b, <1>n, <1>3, <2>2 DEF Frees
    <3>2. Bytes(c) \intersect block = block
      BY <1>b, <1>3, <2>3 DEF Frees
    <3>3. Cardinality(block) = a.meta.size
      BY <2>1, BlockBytes
    <3> HIDE DEF block
    <3>4. /\ IsFiniteSet(Bytes(c) \ block)
          /\ Cardinality(Bytes(c) \ block) = Cardinality(Bytes(c)) - a.meta.size
      <4>1. /\ IsFiniteSet(Bytes(c) \ block)
            /\ Cardinality(Bytes(c) \ block)
                 = Cardinality(Bytes(c)) - Cardinality(Bytes(c) \intersect block)
        BY <1>i, FS_Difference
      <4>q. QED BY <3>2, <3>3, <4>1
    <3>5. current_bytes'[c] = current_bytes[c] - a.meta.size
      BY <1>t, <1>3, <2>3 DEF Frees
    <3>q. QED BY <1>i, <3>1, <3>4, <3>5
  <2>4. CASE Class(a.meta) # c
    <3>c. \A p, n : Charge(p, n, c)' <=> Charge(p, n, c)
      BY <1>3, <2>2, <2>4 DEF Frees
    <3>1. Bytes(c)' = Bytes(c)
      BY <1>b, <1>n, <3>c
    <3>2. current_bytes'[c] = current_bytes[c]
      BY <1>t, <1>3, <2>4 DEF Frees
    <3>q. QED BY <1>i, <3>1, <3>2
  <2>q. QED BY <2>3, <2>4
<1>q. QED BY <1>1, <1>2, <1>3, NextCharge DEF ChargeStep

(* current_bytes is, for each device and size class, what was published    *)
(* there and has not come to doFree, whatever set_threshold does between;  *)
(* an entry that free_impl drops by throwing stays charged for ever.       *)
THEOREM StatsAgreeHolds == Spec => []StatsAgree
<1> DEFINE Inv == OnePlace /\ WorkByPc /\ FiniteBytes /\ StatsAgree
<1>1. Init => Inv
  <2> SUFFICES ASSUME Init PROVE Inv OBVIOUS
  <2>1. OnePlace /\ WorkByPc
    BY InitOnePlace DEF Init, WorkByPc
  <2>2. \A p, n, c : ~ Charge(p, n, c)
    BY DEF Init, Charge, IsCharged, EmptyMap
  <2>3. \A c : Bytes(c) = {}
    BY <2>2, BytesPointwise DEF BytesAreCharged
  <2>4. \A c \in Devices \X BOOLEAN : current_bytes[c] = 0
    BY DEF Init
  <2>q. QED BY <2>1, <2>3, <2>4, FS_EmptySet DEF FiniteBytes, StatsAgree
<1>2. TypeOK /\ Inv /\ [Next]_vars => Inv'
  BY NextOnePlace, NextWorkByPc, NextStatsAgree
<1>3. Inv => StatsAgree
  OBVIOUS
<1> HIDE DEF Inv
<1>q. QED BY <1>1, <1>2, <1>3, TypeCorrect, PTL DEF Spec

-----------------------------------------------------------------------------
(* OomOnlyWhenLive *)

OneThread == \A t, u \in Threads : t = u

(* A retry starts after the pending frees of its device were taken, and    *)
(* nobody adds to them before it ends.                                     *)
Cleared ==
  \A t \in Threads :
    /\ pc[t] = "poll" => level[t] = 0
    /\ pc[t] = "attempt" /\ level[t] # 0 =>
         \A a \in pending_frees_ : a.meta.device # req[t].device

LEMMA NextCleared ==
  ASSUME TypeOK, OneThread, Cleared, [Next]_vars
  PROVE  Cleared'
<1>t. pc \in [Threads -> PcValues] /\ level \in [Threads -> 0..2]
  BY DEF TypeOK, ThreadsOK
<1>1. ASSUME NEW t \in Threads, Calls(t) \/ ThreadStep(t) PROVE Cleared'
  <2>o. \A u \in Threads : u = t
    BY DEF OneThread
  <2>1. CASE PollCollect(t)
    <3>1. pc[t] = "poll" /\ pc' = [pc EXCEPT ![t] = "attempt"] /\ UNCHANGED level
      BY <2>1 DEF PollCollect
    <3>q. QED BY <1>t, <2>o, <3>1 DEF Cleared
  <2>2. CASE ForceCollect(t)
    <3>1. /\ \A a \in pending_frees_' : a.meta.device # req[t].device
          /\ pc' = [pc EXCEPT ![t] = "attempt"] /\ UNCHANGED req
      BY <2>2 DEF ForceCollect
    <3>q. QED BY <1>t, <2>o, <3>1 DEF Cleared
  <2>3. CASE Reap(t)
    BY <2>3 DEF Reap, Cleared, tables
  <2>4. CASE \E size \in Sizes, s \in AllocStreams : AllocBegin(t, size, s)
    <3>1. pc' = [pc EXCEPT ![t] = "poll"] /\ level' = [level EXCEPT ![t] = 0]
      BY <2>4 DEF AllocBegin
    <3>q. QED BY <1>t, <2>o, <3>1 DEF Cleared
  <2>5. CASE pc'[t] \notin {"poll", "attempt"}
    BY <2>o, <2>5 DEF Cleared
  <2>6. CASE \/ Allocate(t) \/ AllocateFails(t) \/ Publish(t)
             \/ \E p \in Ptrs : FreeBegin(t, p)
             \/ \E id \in Pools : ReleasePoolBegin(t, id)
             \/ EmptyCacheBegin(t) \/ EmptyCacheEnd(t)
             \/ AcquireFails(t) \/ \E s \in Streams : RecordEvent(t, s)
             \/ Defer(t) \/ FreeNow(t)
             \/ \E d \in Devices : FlushDevice(t, d)
             \/ ReleasePoolSync(t) \/ ReleasePoolFree(t)
    <3>1. pc'[t] \notin {"poll", "attempt"}
      BY <1>t, <2>6 DEF Allocate, AllocateFails, Publish, FreeBegin, ReleasePoolBegin, EmptyCacheBegin,
         EmptyCacheEnd, AcquireFails, RecordEvent, Throw, Defer, FreeNow, FlushDevice, ReleasePoolSync, ReleasePoolFree
    <3>q. QED BY <2>5, <3>1
  <2>q. QED BY <1>1, <2>1, <2>2, <2>3, <2>4, <2>6 DEF Calls, ThreadStep
<1>2. UNCHANGED <<pc, level, req, pending_frees_>> => Cleared'
  BY DEF Cleared
<1>3. CASE Others \/ Gpu
  BY <1>2, <1>3 DEF Others, Gpu, FreeUnknown, recordStream, Launch, beginAllocateToPool,
     endAllocateToPool, setThreshold, enable, GpuStep, tables, locals
<1>4. CASE UNCHANGED vars
  BY <1>2, <1>4 DEF vars, tables, locals
<1>q. QED BY <1>1, <1>3, <1>4 DEF Next

LEMMA StepOom ==
  ASSUME TypeOK, OneThread, RoutedHome, Cleared, [Next]_vars,
         NEW t \in Threads, pc[t] = "attempt", pc'[t] = "idle",
         NEW u \in Threads, NEW a \in pending_frees_ \union work[u]
  PROVE  ~ Home(a.ptr, req[t])
<1>t. pc \in [Threads -> PcValues]
  BY DEF TypeOK, ThreadsOK
<1>1. ASSUME NEW v \in Threads, Calls(v) PROVE FALSE
  BY <1>1, <1>t DEF Calls, AllocBegin, FreeBegin, ReleasePoolBegin, EmptyCacheBegin, OneThread
<1>2. ASSUME NEW v \in Threads, ThreadStep(v) PROVE AllocateFails(t)
  <2>1. v = t
    BY DEF OneThread
  <2>q. QED
    BY <1>2, <1>t, <2>1 DEF ThreadStep, PollCollect, ForceCollect, Reap, Allocate, Publish,
       AcquireFails, RecordEvent, Throw, Defer, FreeNow, FlushDevice, EmptyCacheEnd, ReleasePoolSync,
       ReleasePoolFree
<1>3. ~ UNCHANGED pc
  OBVIOUS
<1>4. Others \/ Gpu => UNCHANGED pc
  BY DEF Others, Gpu, FreeUnknown, recordStream, Launch, beginAllocateToPool, endAllocateToPool,
     setThreshold, enable, GpuStep, locals
<1>5. AllocateFails(t)
  BY <1>1, <1>2, <1>3, <1>4 DEF Next, vars, locals
<1>6. work[t] = {} /\ level[t] # 0
  BY <1>5, <1>t DEF AllocateFails
<1>7. a \in pending_frees_
  BY <1>6 DEF OneThread
<1>8. a.meta.device # req[t].device
  BY <1>6, <1>7 DEF Cleared
<1>q. QED BY <1>7, <1>8, RoutedHomePointwise DEF Home

(* An allocation of a program with one thread fails only when what it      *)
(* could use is live: nothing of its device is left to be freed, the third *)
(* attempt found no place, and no free is under way.  (With more threads   *)
(* another one can hold an entry that it is about to free.)                *)
THEOREM OomOnlyWhenLiveHolds == OneThread => (Spec => OomOnlyWhenLive)
<1> SUFFICES ASSUME OneThread PROVE Spec => OomOnlyWhenLive OBVIOUS
<1>1. Init => Cleared
  BY DEF Init, Cleared
<1>2. TypeOK /\ Cleared /\ [Next]_vars => Cleared'
  BY NextCleared
<1>3. TypeOK /\ RoutedHome /\ Cleared /\ [Next]_vars =>
        [\A t \in Threads : pc[t] = "attempt" /\ pc'[t] = "idle" =>
           \A pf \in pending_frees_ \union
                       UNION {work[u] : u \in {v \in Threads : pc[v] # "publish"}} :
             ~ Home(pf.ptr, req[t])]_vars
  <2> SUFFICES ASSUME TypeOK, RoutedHome, Cleared, [Next]_vars,
                      NEW t \in Threads, pc[t] = "attempt", pc'[t] = "idle",
                      NEW pf \in pending_frees_ \union
                                   UNION {work[u] : u \in {v \in Threads : pc[v] # "publish"}}
               PROVE  ~ Home(pf.ptr, req[t])
    OBVIOUS
  <2>1. \E u \in Threads : pf \in pending_frees_ \union work[u]
    OBVIOUS
  <2>q. QED BY <2>1, StepOom
<1>q. QED BY <1>1, <1>2, <1>3, TypeCorrect, RoutedHomeHolds, PTL DEF Spec, OomOnlyWhenLive

-----------------------------------------------------------------------------
(* What a step does to a queue *)

Holds(s, op) == \E i \in DOMAIN queue[s] : queue[s][i] = op

LEMMA QueuedHolds ==
  ASSUME NEW op
  PROVE  \A s \in Streams : s \in Queued(op) <=> Holds(s, op)
  BY DEF Queued, Holds

LEMMA AppendedQueue ==
  ASSUME TypeOK, NEW s \in Streams, NEW op \in Operation,
         queue' = [queue EXCEPT ![s] = Append(@, op)]
  PROVE  /\ Len(queue'[s]) = Len(queue[s]) + 1
         /\ DOMAIN queue[s] \subseteq DOMAIN queue'[s]
         /\ DOMAIN queue'[s] = DOMAIN queue[s] \union {Len(queue[s]) + 1}
         /\ \A i \in DOMAIN queue[s] : i < Len(queue[s]) + 1 /\ queue'[s][i] = queue[s][i]
         /\ queue'[s][Len(queue[s]) + 1] = op
         /\ \A u \in Streams : u # s => queue'[u] = queue[u]
<1>1. queue \in [Streams -> Seq(Operation)]
  BY DEF TypeOK, MemoryOK
<1>2. queue'[s] = Append(queue[s], op) /\ \A u \in Streams : u # s => queue'[u] = queue[u]
  BY <1>1
<1>3. queue[s] \in Seq(Operation)
  BY <1>1
<1>q. QED BY <1>2, <1>3

LEMMA TailFacts ==
  ASSUME NEW S, NEW q \in Seq(S), q # <<>>
  PROVE  /\ \A i \in DOMAIN Tail(q) :
              i \in Nat /\ i + 1 \in DOMAIN q /\ Tail(q)[i] = q[i + 1]
         /\ \A j \in DOMAIN q :
              j \in Nat /\ (j > 1 => j - 1 \in DOMAIN Tail(q) /\ Tail(q)[j - 1] = q[j])
<1>1. Len(q) \in Nat \ {0} /\ DOMAIN q = 1..Len(q)
  OBVIOUS
<1>2. Len(Tail(q)) = Len(q) - 1 /\ DOMAIN Tail(q) = 1..(Len(q) - 1)
  OBVIOUS
<1>3. \A i \in 1..(Len(q) - 1) : Tail(q)[i] = q[i + 1]
  OBVIOUS
<1>q. QED BY <1>1, <1>2, <1>3

LEMMA TakenQueue ==
  ASSUME TypeOK, NEW s \in Streams, queue[s] # <<>>,
         queue' = [queue EXCEPT ![s] = Tail(@)]
  PROVE  /\ \A i \in DOMAIN queue'[s] :
              i \in Nat /\ i + 1 \in DOMAIN queue[s] /\ queue'[s][i] = queue[s][i + 1]
         /\ \A j \in DOMAIN queue[s] :
              j \in Nat /\ (j > 1 => j - 1 \in DOMAIN queue'[s] /\ queue'[s][j - 1] = queue[s][j])
         /\ \A u \in Streams : u # s => queue'[u] = queue[u]
<1>1. queue \in [Streams -> Seq(Operation)]
  BY DEF TypeOK, MemoryOK
<1>2. queue'[s] = Tail(queue[s]) /\ \A u \in Streams : u # s => queue'[u] = queue[u]
  BY <1>1
<1>q. QED BY <1>1, <1>2, TailFacts

LEMMA AppendHolds ==
  ASSUME TypeOK, NEW s \in Streams, NEW op \in Operation,
         queue' = [queue EXCEPT ![s] = Append(@, op)], NEW x
  PROVE  \A u \in Streams : Holds(u, x)' => Holds(u, x) \/ (u = s /\ x = op)
  BY AppendedQueue DEF Holds

LEMMA TailHolds ==
  ASSUME TypeOK, NEW s \in Streams, queue[s] # <<>>,
         queue' = [queue EXCEPT ![s] = Tail(@)], NEW x
  PROVE  \A u \in Streams : Holds(u, x)' => Holds(u, x)
  BY TakenQueue DEF Holds

LEMMA KernelsAreNoMarkers ==
  ASSUME NEW p, NEW e
  PROVE  Kernel(p) # Marker(e)
<1>1. Kernel(p).kind = "kernel" /\ Marker(e).kind = "event"
  BY DEF Kernel, Marker
<1>q. QED BY <1>1

LEMMA MarkersDiffer ==
  ASSUME NEW e, NEW f, Marker(e) = Marker(f)
  PROVE  e = f
<1>1. Marker(e).of = e /\ Marker(f).of = f
  BY DEF Marker
<1>q. QED BY <1>1

LEMMA KernelsDiffer ==
  ASSUME NEW p, NEW q, Kernel(p) = Kernel(q)
  PROVE  p = q
<1>1. Kernel(p).of = p /\ Kernel(q).of = q
  BY DEF Kernel
<1>q. QED BY <1>1

LEMMA DoneHolds ==
  ASSUME NEW E
  PROVE  Done(E) <=> \A e \in E : \A s \in Streams : ~ Holds(s, Marker(e))
  BY DEF Done, Queued, Holds

-----------------------------------------------------------------------------
(* Where the entries of a step come from *)

IsEntry(a) == a \in pending_frees_ \/ \E t \in Threads : a \in work[t]

LEMMA EntryByPtr ==
  ASSUME OnePlace, NEW a, NEW b, IsEntry(a), IsEntry(b), a.ptr = b.ptr
  PROVE  a = b
  BY DEF OnePlace, IsEntry

(* Only RecordEvent gives an entry more events.                            *)
LEMMA EntriesCome ==
  ASSUME TypeOK, [Next]_vars, NEW b, IsEntry(b)',
         \A t \in Threads, s \in Streams : ~ RecordEvent(t, s)
  PROVE  IsEntry(b) \/ b.events = {}
<1> USE DEF IsEntry
<1>w. work \in [Threads -> SUBSET PendingFree]
  BY DEF TypeOK, ThreadsOK
<1>1. ASSUME NEW t \in Threads, Calls(t) \/ ThreadStep(t)
      PROVE  IsEntry(b) \/ b.events = {}
  <2>1. CASE \E size \in Sizes, s \in AllocStreams : AllocBegin(t, size, s)
    BY <1>w, <2>1 DEF AllocBegin, tables
  <2>2. CASE \E p \in Ptrs : FreeBegin(t, p)
    BY <1>w, <2>2 DEF FreeBegin, Entry
  <2>3. CASE \E id \in Pools : ReleasePoolBegin(t, id)
    <3>1. PICK id \in Pools : ReleasePoolBegin(t, id)
      BY <2>3
    <3> DEFINE live == pool_allocs_[id] \intersect DOMAIN meta_
               pool_pending == {pf \in pending_frees_ : pf.meta.pool_id = id}
               entries == {Entry(p, meta_[p]) : p \in live} \union pool_pending
    <3>2. /\ pending_frees_' = pending_frees_ \ pool_pending
          /\ work' = [work EXCEPT ![t] = entries]
      BY <3>1 DEF ReleasePoolBegin
    <3>3. \A a \in entries : a \in pending_frees_ \/ a.events = {}
      BY DEF Entry
    <3> HIDE DEF entries
    <3>q. QED BY <1>w, <3>2, <3>3
  <2>4. CASE EmptyCacheBegin(t)
    BY <1>w, <2>4 DEF EmptyCacheBegin, tables
  <2>5. CASE PollCollect(t)
    BY <1>w, <2>5 DEF PollCollect
  <2>6. CASE ForceCollect(t)
    BY <1>w, <2>6 DEF ForceCollect
  <2>7. CASE Reap(t)
    BY <1>w, <2>7 DEF Reap, tables
  <2>8. CASE Allocate(t)
    BY <1>w, <2>8 DEF Allocate, tables, Entry
  <2>9. CASE AllocateFails(t)
    BY <1>w, <2>9 DEF AllocateFails, tables
  <2>10. CASE Publish(t)
    BY <1>w, <2>10 DEF Publish
  <2>12. CASE Defer(t)
    BY <1>w, <2>12 DEF Defer
  <2>13. CASE FreeNow(t)
    BY <1>w, <2>13 DEF FreeNow, tables
  <2>14. CASE \E d \in Devices : FlushDevice(t, d)
    BY <1>w, <2>14 DEF FlushDevice
  <2>15. CASE EmptyCacheEnd(t)
    BY <1>w, <2>15 DEF EmptyCacheEnd, tables
  <2>16. CASE ReleasePoolSync(t)
    <3>1. PICK pf \in work[t] :
            SetWork(t, (work[t] \ {pf}) \union {[pf EXCEPT !.events = {}]})
      BY <2>16 DEF ReleasePoolSync
    <3> DEFINE done == [pf EXCEPT !.events = {}]
    <3>2. done.events = {}
      BY <1>w DEF PendingFree
    <3>3. work' = [work EXCEPT ![t] = (work[t] \ {pf}) \union {done}]
      BY <3>1
    <3>4. UNCHANGED pending_frees_
      BY <2>16 DEF ReleasePoolSync, tables
    <3> HIDE DEF done
    <3>q. QED BY <1>w, <3>2, <3>3, <3>4
  <2>17. CASE ReleasePoolFree(t)
    BY <1>w, <2>17 DEF ReleasePoolFree, tables
  <2>18. CASE AcquireFails(t)
    BY <1>w, <2>18 DEF AcquireFails, Throw, tables
  <2>q. QED
    BY <1>1, <2>1, <2>2, <2>3, <2>4, <2>5, <2>6, <2>7, <2>8, <2>9,
       <2>10, <2>12, <2>13, <2>14, <2>15, <2>16, <2>17, <2>18 DEF Calls, ThreadStep
<1>2. ASSUME Others \/ Gpu PROVE IsEntry(b)
  BY <1>2 DEF Others, Gpu, FreeUnknown, recordStream, Launch, beginAllocateToPool,
     endAllocateToPool, setThreshold, enable, GpuStep, tables, locals
<1>3. CASE UNCHANGED vars
  BY <1>3 DEF vars, tables, locals
<1>q. QED BY <1>1, <1>2, <1>3 DEF Next

-----------------------------------------------------------------------------
(* Which steps touch the events and the queues *)

Recording == \E t \in Threads, s \in Streams : RecordEvent(t, s)
Releasing == \E t \in Threads : Reap(t) \/ ReleasePoolSync(t)

LEMMA EventSteps ==
  ASSUME [Next]_vars, ~ Recording, ~ Releasing
  PROVE  UNCHANGED <<event_pool_, event_device>>
<1>1. ASSUME NEW t \in Threads, Calls(t) PROVE UNCHANGED <<event_pool_, event_device>>
  BY <1>1 DEF Calls, AllocBegin, FreeBegin, ReleasePoolBegin, EmptyCacheBegin, event_vars
<1>2. ASSUME NEW t \in Threads, ThreadStep(t) PROVE UNCHANGED <<event_pool_, event_device>>
  BY <1>2 DEF ThreadStep, Recording, Releasing, PollCollect, ForceCollect, Allocate, AllocateFails, Publish, Defer,
     AcquireFails, FreeNow, FlushDevice, EmptyCacheEnd, ReleasePoolFree, event_vars
<1>3. ASSUME Others \/ Gpu PROVE UNCHANGED <<event_pool_, event_device>>
  BY <1>3 DEF Others, Gpu, FreeUnknown, recordStream, Launch, beginAllocateToPool,
     endAllocateToPool, setThreshold, enable, GpuStep, event_vars
<1>4. CASE UNCHANGED vars
  BY <1>4 DEF vars, event_vars
<1>q. QED BY <1>1, <1>2, <1>3, <1>4 DEF Next

LEMMA QueueSteps ==
  ASSUME [Next]_vars, ~ Recording
  PROVE  \/ UNCHANGED queue
         \/ \E p \in Ptrs, s \in Streams : Launch(p, s)
         \/ \E s \in Streams : GpuStep(s)
<1> DEFINE Goal == \/ UNCHANGED queue
                   \/ \E p \in Ptrs, s \in Streams : Launch(p, s)
                   \/ \E s \in Streams : GpuStep(s)
<1>1. ASSUME NEW t \in Threads, Calls(t) PROVE Goal
  BY <1>1 DEF Calls, AllocBegin, FreeBegin, ReleasePoolBegin, EmptyCacheBegin
<1>2. ASSUME NEW t \in Threads, ThreadStep(t) PROVE Goal
  BY <1>2 DEF ThreadStep, Recording, PollCollect, ForceCollect, Reap, Allocate, AllocateFails, Publish, Defer,
     AcquireFails, FreeNow, FlushDevice, EmptyCacheEnd, ReleasePoolSync, ReleasePoolFree
<1>3. ASSUME Others \/ Gpu PROVE Goal
  BY <1>3 DEF Others, Gpu, FreeUnknown, recordStream, beginAllocateToPool,
     endAllocateToPool, setThreshold, enable
<1>4. CASE UNCHANGED vars
  BY <1>4 DEF vars
<1>q. QED BY <1>1, <1>2, <1>3, <1>4 DEF Next

LEMMA MarkersCome ==
  ASSUME TypeOK, [Next]_vars, ~ Recording, NEW e, NEW s \in Streams, Holds(s, Marker(e))'
  PROVE  Holds(s, Marker(e))
<1>1. CASE UNCHANGED queue
  BY <1>1 DEF Holds
<1>2. ASSUME NEW p \in Ptrs, NEW u \in Streams, Launch(p, u) PROVE Holds(s, Marker(e))
  <2>1. Kernel(p) \in Operation /\ Kernel(p) # Marker(e)
    BY KernelsAreNoMarkers DEF Kernel, Operation
  <2>2. queue' = [queue EXCEPT ![u] = Append(@, Kernel(p))]
    BY <1>2 DEF Launch
  <2>q. QED BY <2>1, <2>2, AppendHolds
<1>3. ASSUME NEW u \in Streams, GpuStep(u) PROVE Holds(s, Marker(e))
  <2>1. queue[u] # <<>> /\ queue' = [queue EXCEPT ![u] = Tail(@)]
    BY <1>3 DEF GpuStep
  <2>q. QED BY <2>1, TailHolds
<1>q. QED BY <1>1, <1>2, <1>3, QueueSteps

-----------------------------------------------------------------------------
(* EventExclusive *)

Apart == \A a, b : IsEntry(a) /\ IsEntry(b) /\ a.ptr # b.ptr =>
                     \A e \in a.events : e \notin b.events
Unpooled == \A a : IsEntry(a) => \A e \in a.events : e \notin event_pool_
Passed == \A e \in event_pool_, s \in Streams : ~ Holds(s, Marker(e))

(* What the first, polling attempt of an allocation has collected is done, *)
(* so that it may return the events without waiting for them.              *)
PolledDone ==
  \A t \in Threads : pc[t] = "attempt" /\ level[t] = 0 =>
    \A a \in work[t] : \A e \in a.events, s \in Streams : ~ Holds(s, Marker(e))
ForcedLevel == \A t \in Threads : pc[t] = "force" => level[t] # 0

(* The streams have only been given events that exist. *)
RecordedExist == \A e : \A s \in Streams : Holds(s, Marker(e)) => e \in DOMAIN event_device

EventInv == Apart /\ Unpooled /\ Passed /\ PolledDone /\ ForcedLevel /\ RecordedExist

LEMMA EventInvExclusive ==
  ASSUME OnePlace, EventInv
  PROVE  EventExclusive
<1>1. \A a \in Entries : IsEntry(a)
  BY DEF Entries, IsEntry
<1>2. \A a, b \in Entries : a # b => a.events \intersect b.events = {}
  BY <1>1, EntryByPtr DEF EventInv, Apart
<1>3. \A a \in Entries : a.events \intersect event_pool_ = {}
  BY <1>1 DEF EventInv, Unpooled
<1>4. Done(event_pool_)
  BY DoneHolds DEF EventInv, Passed
<1>q. QED BY <1>2, <1>3, <1>4 DEF EventExclusive

LEMMA NextPolled ==
  ASSUME TypeOK, OnePlace, PolledDone, ForcedLevel, [Next]_vars, ~ Recording
  PROVE  PolledDone' /\ ForcedLevel'
<1> DEFINE Late(a) == \E e \in a.events, s \in Streams : Holds(s, Marker(e))
<1>t. /\ pc \in [Threads -> PcValues] /\ level \in [Threads -> 0..2]
      /\ work \in [Threads -> SUBSET PendingFree]
  BY DEF TypeOK, ThreadsOK
<1>l. \A a : Late(a)' => Late(a)
  BY MarkersCome
<1>d. \A a : Done(a.events) => ~ Late(a)
  BY DoneHolds
<1>h. /\ \A t \in Threads : pc[t] = "attempt" /\ level[t] = 0 => \A a \in work[t] : ~ Late(a)
      /\ \A t \in Threads : pc[t] = "force" => level[t] # 0
  BY DEF PolledDone, ForcedLevel
<1> DEFINE Goal == /\ \A t \in Threads : pc[t] = "attempt" /\ level[t] = 0 => \A a \in work[t] : ~ Late(a)
                   /\ \A t \in Threads : pc[t] = "force" => level[t] # 0
<1> SUFFICES Goal'
  BY DEF PolledDone, ForcedLevel
<1> HIDE DEF Late
<1>1. ASSUME NEW t \in Threads, Calls(t) PROVE Goal'
  <2>1. /\ pc[t] = "idle" /\ UNCHANGED queue
        /\ \/ pc' = [pc EXCEPT ![t] = "poll"] /\ UNCHANGED work /\ level' = [level EXCEPT ![t] = 0]
           \/ \E label \in {"idle", "dofree", "record", "release", "flush"} :
                /\ pc' = [pc EXCEPT ![t] = label] /\ UNCHANGED level
                /\ \A u \in Threads : u # t => work'[u] = work[u]
    BY <1>1, <1>t DEF Calls, AllocBegin, FreeBegin, ReleasePoolBegin, EmptyCacheBegin
  <2>q. QED BY <2>1, <1>t, <1>l, <1>h
<1>2. ASSUME NEW t \in Threads, ThreadStep(t) PROVE Goal'
  <2>1. CASE PollCollect(t)
    BY <2>1, <1>t, <1>l, <1>d, <1>h DEF PollCollect
  <2>2. CASE ForceCollect(t)
    BY <2>2, <1>t, <1>l, <1>h DEF ForceCollect
  <2>3. CASE Reap(t)
    BY <2>3, <1>t, <1>l, <1>h DEF Reap
  <2>4. CASE Allocate(t) \/ Publish(t) \/ Defer(t) \/ FreeNow(t) \/ EmptyCacheEnd(t)
    BY <2>4, <1>t, <1>l, <1>h DEF Allocate, Publish, Defer, FreeNow, EmptyCacheEnd
  <2>5. CASE AllocateFails(t)
    BY <2>5, <1>t, <1>l, <1>h DEF AllocateFails
  <2>6. CASE ReleasePoolSync(t)
    BY <2>6, <1>t, <1>l, <1>h DEF ReleasePoolSync
  <2>7. CASE ReleasePoolFree(t)
    BY <2>7, <1>t, <1>l, <1>h DEF ReleasePoolFree
  <2>8. CASE \E d \in Devices : FlushDevice(t, d)
    BY <2>8, <1>t, <1>l, <1>h DEF FlushDevice
  <2>9. CASE AcquireFails(t)
    BY <2>9, <1>t, <1>l, <1>h DEF AcquireFails, Throw
  <2>q. QED
    BY <1>2, <2>1, <2>2, <2>3, <2>4, <2>5, <2>6, <2>7, <2>8, <2>9 DEF ThreadStep, Recording
<1>3. ASSUME Others \/ Gpu PROVE Goal'
  BY <1>3, <1>l, <1>h DEF Others, Gpu, FreeUnknown, recordStream, Launch, beginAllocateToPool,
     endAllocateToPool, setThreshold, enable, GpuStep, locals
<1>4. CASE UNCHANGED vars
  BY <1>4, <1>l, <1>h DEF vars, locals
<1>q. QED BY <1>1, <1>2, <1>3, <1>4 DEF Next

(* The acquired event is in no entry, not in the EventPool any more, and   *)
(* no stream has an old record of it to pass.                              *)
LEMMA AcquiredEvent ==
  ASSUME TypeOK, EventsCreated, EventInv, NEW e \in Events, NEW d \in Devices, acquire(e, d)
  PROVE  /\ e \notin event_pool_' /\ event_pool_' \subseteq event_pool_
         /\ \A a : IsEntry(a) => e \notin a.events
         /\ \A s \in Streams : ~ Holds(s, Marker(e))
         /\ e \in DOMAIN event_device' /\ DOMAIN event_device \subseteq DOMAIN event_device'
<1>1. CASE e \in event_pool_ /\ event_pool_' = event_pool_ \ {e} /\ UNCHANGED event_device
  BY <1>1 DEF EventInv, Unpooled, Passed, EventsCreated
<1>2. CASE /\ event_pool_' = event_pool_ /\ event_pool_ = {} /\ e \notin DOMAIN event_device
           /\ event_device' = Put(event_device, e, d)
  BY <1>2 DEF EventsCreated, EventInv, RecordedExist, IsEntry, Put
<1>q. QED BY <1>1, <1>2 DEF acquire

LEMMA RecordEventInv ==
  ASSUME TypeOK, OnePlace, EventsCreated, WorkByPc, EventInv,
         NEW t \in Threads, NEW s \in Streams, RecordEvent(t, s)
  PROVE  EventInv'
<1>w. /\ pc \in [Threads -> PcValues] /\ work \in [Threads -> SUBSET PendingFree]
      /\ level \in [Threads -> 0..2]
  BY DEF TypeOK, ThreadsOK
<1>0. PICK e \in Events, d \in Devices :
        /\ acquire(e, d)
        /\ \/ /\ queue' = [queue EXCEPT ![s] = Append(@, Marker(e))]
              /\ SetWork(t, {[pf EXCEPT !.events = @ \union {e}] : pf \in work[t]})
              /\ UNCHANGED pc
           \/ SetWork(t, {}) /\ Goto(t, "idle") /\ UNCHANGED queue
  BY DEF RecordEvent, Throw
<1>1. pc[t] = "record" /\ UNCHANGED <<pending_frees_, level>>
  BY DEF RecordEvent, tables
<1>2. /\ e \notin event_pool_' /\ event_pool_' \subseteq event_pool_
      /\ \A a : IsEntry(a) => e \notin a.events
      /\ \A u \in Streams : ~ Holds(u, Marker(e))
      /\ e \in DOMAIN event_device' /\ DOMAIN event_device \subseteq DOMAIN event_device'
  BY <1>0, AcquiredEvent
<1>3. \A f : \A u \in Streams : Holds(u, Marker(f))' => Holds(u, Marker(f)) \/ f = e
  <2>1. Marker(e) \in Operation
    BY DEF Marker, Operation
  <2>2. CASE UNCHANGED queue
    BY <2>2 DEF Holds
  <2>3. CASE queue' = [queue EXCEPT ![s] = Append(@, Marker(e))]
    BY <2>1, <2>3, AppendHolds, MarkersDiffer
  <2>q. QED BY <1>0, <2>2, <2>3
(* An entry is an old one, or it is of thread t and has one more event.    *)
<1>4. \A b : IsEntry(b)' =>
        \/ IsEntry(b) /\ \A a \in work[t] : a.ptr # b.ptr
        \/ \E a \in work[t] : a.ptr = b.ptr /\ b.events = a.events \union {e}
  <2> DEFINE guarded(a) == [a EXCEPT !.events = @ \union {e}]
  <2>1. \A a \in work[t] : guarded(a).ptr = a.ptr /\ guarded(a).events = a.events \union {e}
    BY <1>w DEF PendingFree
  <2>2. \/ work' = [work EXCEPT ![t] = {guarded(a) : a \in work[t]}]
        \/ work' = [work EXCEPT ![t] = {}]
    BY <1>0
  <2> HIDE DEF guarded
  <2>3. \A u \in Threads : u # t => work'[u] = work[u]
    BY <1>w, <2>2
  <2>4. \A b \in work'[t] : \E a \in work[t] : a.ptr = b.ptr /\ b.events = a.events \union {e}
    BY <1>w, <2>1, <2>2
  <2>q. QED BY <1>1, <2>3, <2>4 DEF IsEntry, OnePlace
<1>5. Apart'
  <2> SUFFICES ASSUME NEW a, NEW b, IsEntry(a)', IsEntry(b)', a.ptr # b.ptr, NEW f \in a.events
               PROVE  f \notin b.events
    BY DEF Apart
  <2>1. \A c \in work[t] : IsEntry(c)
    BY DEF IsEntry
  <2>2. \A c, g : IsEntry(c) /\ IsEntry(g) /\ c.ptr # g.ptr => \A h \in c.events : h \notin g.events
    BY DEF EventInv, Apart
  <2>3. CASE f = e
    <3>1. \E c \in work[t] : c.ptr = a.ptr
      BY <1>2, <1>4, <2>3
    <3>2. ~ \E c \in work[t] : c.ptr = b.ptr
      BY <1>1, <3>1 DEF WorkByPc
    <3>q. QED BY <1>2, <1>4, <2>3, <3>2
  <2>q. QED BY <1>4, <2>1, <2>2, <2>3
<1>6. Unpooled'
  <2>1. \A c \in work[t] : IsEntry(c)
    BY DEF IsEntry
  <2>q. QED BY <1>2, <1>4, <2>1 DEF EventInv, Unpooled
<1>7. Passed'
  BY <1>2, <1>3 DEF EventInv, Passed
<1>8. PolledDone' /\ ForcedLevel'
  <2> SUFFICES ASSUME NEW u \in Threads
               PROVE  /\ (pc[u] = "attempt" /\ level[u] = 0 =>
                            \A a \in work[u] : \A f \in a.events, v \in Streams : ~ Holds(v, Marker(f)))'
                      /\ (pc[u] = "force" => level[u] # 0)'
    BY DEF PolledDone, ForcedLevel
  <2>1. CASE u = t
    BY <1>w, <1>0, <1>1, <2>1
  <2>2. CASE u # t
    <3>1. pc'[u] = pc[u] /\ level'[u] = level[u] /\ work'[u] = work[u]
      BY <1>w, <1>0, <1>1, <2>2
    <3>2. \A a \in work[u] : e \notin a.events
      BY <1>2 DEF IsEntry
    <3>q. QED BY <1>3, <3>1, <3>2 DEF EventInv, PolledDone, ForcedLevel
  <2>q. QED BY <2>1, <2>2
<1>9. RecordedExist'
  BY <1>2, <1>3 DEF EventInv, RecordedExist
<1>q. QED BY <1>5, <1>6, <1>7, <1>8, <1>9 DEF EventInv

LEMMA NextEventInv ==
  ASSUME TypeOK, OnePlace, EventsCreated, WorkByPc, EventInv, [Next]_vars
  PROVE  EventInv'
<1>w. work \in [Threads -> SUBSET PendingFree]
  BY DEF TypeOK, ThreadsOK
<1>1. CASE Recording
  BY <1>1, RecordEventInv DEF Recording
<1>2. CASE ~ Recording
  <2>e. \A b : IsEntry(b)' => IsEntry(b) \/ b.events = {}
    BY <1>2, EntriesCome DEF Recording
  <2>m. \A e : \A s \in Streams : Holds(s, Marker(e))' => Holds(s, Marker(e))
    BY <1>2, MarkersCome
  <2>1. Apart'
    BY <2>e DEF EventInv, Apart
  <2>2. PolledDone' /\ ForcedLevel'
    BY <1>2, NextPolled DEF EventInv
  <2>3. Unpooled' /\ Passed' /\ RecordedExist'
    <3>1. CASE UNCHANGED <<event_pool_, event_device>>
      BY <2>e, <2>m, <3>1 DEF EventInv, Unpooled, Passed, RecordedExist
    <3>2. ASSUME NEW t \in Threads, Reap(t) \/ ReleasePoolSync(t)
          PROVE  Unpooled' /\ Passed' /\ RecordedExist'
      <4>0. PICK pf \in work[t] :
              /\ event_pool_' = event_pool_ \union pf.events
              /\ \/ work' = [work EXCEPT ![t] = work[t] \ {pf}]
                 \/ work' = [work EXCEPT ![t] = (work[t] \ {pf}) \union {[pf EXCEPT !.events = {}]}]
              /\ \/ pc[t] = "attempt" /\ level[t] = 0
                 \/ Done(pf.events)
        BY <3>2 DEF Reap, ReleasePoolSync, release
      <4>1. UNCHANGED <<event_device, pending_frees_>>
        BY <3>2 DEF Reap, ReleasePoolSync, tables
      <4>2. \A e \in pf.events, s \in Streams : ~ Holds(s, Marker(e))
        BY <4>0, DoneHolds DEF EventInv, PolledDone
      <4>3. IsEntry(pf)
        BY DEF IsEntry
      (* The entries after the step are other entries, or have no events.  *)
      <4>4. \A b : IsEntry(b)' => b.events = {} \/ (IsEntry(b) /\ b.ptr # pf.ptr)
        <5> DEFINE done == [pf EXCEPT !.events = {}]
        <5>1. done.events = {}
          BY <1>w DEF PendingFree
        <5>2. \A b \in work'[t] : b = done \/ (b \in work[t] /\ b # pf)
          BY <1>w, <4>0
        <5>3. \A u \in Threads : u # t => work'[u] = work[u]
          BY <1>w, <4>0
        <5> HIDE DEF done
        <5>q. QED BY <4>1, <5>1, <5>2, <5>3 DEF IsEntry, OnePlace
      <4>5. Unpooled'
        BY <4>0, <4>3, <4>4 DEF EventInv, Apart, Unpooled
      <4>6. Passed' /\ RecordedExist'
        BY <2>m, <4>0, <4>1, <4>2 DEF EventInv, Passed, RecordedExist
      <4>q. QED BY <4>5, <4>6
    <3>q. QED BY <1>2, <3>1, <3>2, EventSteps DEF Releasing
  <2>q. QED BY <2>1, <2>2, <2>3 DEF EventInv
<1>q. QED BY <1>1, <1>2

(* An event guards one deferred free at a time, and what is in the         *)
(* EventPool has been passed by the streams, for any number of threads,    *)
(* streams and devices: returning the events of a collected entry never    *)
(* lets a later poll take an old record for its own.                       *)
THEOREM EventExclusiveHolds == Spec => []EventExclusive
<1>1. Init => OnePlace /\ EventsCreated /\ WorkByPc /\ EventInv
  BY InitOnePlace DEF Init, EventsCreated, WorkByPc, EventInv, Apart, Unpooled, Passed, PolledDone,
     ForcedLevel, RecordedExist, IsEntry, Holds
<1>2. TypeOK /\ OnePlace /\ EventsCreated /\ WorkByPc /\ EventInv /\ [Next]_vars
        => OnePlace' /\ EventsCreated' /\ WorkByPc' /\ EventInv'
  BY NextOnePlace, NextEventsCreated, NextWorkByPc, NextEventInv
<1>3. OnePlace /\ EventInv => EventExclusive
  BY EventInvExclusive
<1>q. QED BY <1>1, <1>2, <1>3, TypeCorrect, PTL DEF Spec

-----------------------------------------------------------------------------
(* FencedKernels and ReuseOrdered *)

(* All allocations of a device are made on one stream.                     *)
OneAllocStream ==
  \A s, u \in AllocStreams : StreamDevice[s] = StreamDevice[u] => s = u

(* A pool is not released while the program lists streams for one of its   *)
(* live allocations: releasePool frees these without waiting for anything. *)
QuietRelease ==
  \A t \in Threads : pc[t] = "idle" /\ pc'[t] = "release" =>
    \A p \in DOMAIN meta_ \ DOMAIN meta_' : meta_[p].recorded_streams = {}

(* Metadata names a stream allocations are made on, of its own device.     *)
StreamHome(m) == m.alloc_stream \in AllocStreams /\ StreamDevice[m.alloc_stream] = m.device
StreamsHome ==
  /\ \A p \in DOMAIN meta_ : StreamHome(meta_[p])
  /\ \A a : IsEntry(a) => StreamHome(a.meta)
  /\ \A t \in Threads : pc[t] \in {"poll", "attempt", "force"} => StreamHome(req[t])

Fenced(a, s) ==
  \A i \in DOMAIN queue[s] : queue[s][i] = Kernel(a.ptr) =>
    \E j \in DOMAIN queue[s], e \in a.events : j > i /\ queue[s][j] = Marker(e)
AllFenced(a) == \A s \in Streams : Fenced(a, s)
InOrder(a) == \A s \in Streams : Holds(s, Kernel(a.ptr)) => s = a.meta.alloc_stream

UsedWhere(p, m, s) == Holds(s, Kernel(p)) => s \in {m.alloc_stream} \union m.recorded_streams
LiveUse == \A p \in DOMAIN meta_ : \A s \in Streams : UsedWhere(p, meta_[p], s)
FreeUse ==
  \A p \in Ptrs \ sub : \A s \in Streams : Holds(s, Kernel(p)) =>
    s \in AllocStreams /\ StreamDevice[s] = PtrDevice[p]
PendingFenced == \A a \in pending_frees_ : AllFenced(a)

(* What a thread knows of the entries in its hands, by what it will do.    *)
WorkUse(t) ==
  /\ pc[t] \in {"publish", "dofree"} => \A a \in work[t] : InOrder(a)
  /\ pc[t] = "record" => \A a \in work[t] : \A s \in Streams \ todo[t] : Fenced(a, s)
  /\ pc[t] \in {"attempt", "flush"} => \A a \in work[t] : AllFenced(a)
  /\ pc[t] = "release" => \A a \in work[t] : InOrder(a) \/ AllFenced(a)

UseInv == LiveUse /\ FreeUse /\ PendingFenced /\ \A t \in Threads : WorkUse(t)

LEMMA KernelsCome ==
  ASSUME TypeOK, [Next]_vars, NEW p, NEW s \in Streams, Holds(s, Kernel(p))'
  PROVE  \/ Holds(s, Kernel(p))
         \/ p \in DOMAIN meta_ /\ UsedWhere(p, meta_[p], s)' /\ UNCHANGED meta_
<1>1. CASE UNCHANGED queue
  BY <1>1 DEF Holds
<1>2. ASSUME NEW q \in Ptrs, NEW u \in Streams, Launch(q, u)
      PROVE  \/ Holds(s, Kernel(p))
             \/ p \in DOMAIN meta_ /\ UsedWhere(p, meta_[p], s)' /\ UNCHANGED meta_
  <2>1. Kernel(q) \in Operation
    BY DEF Kernel, Operation
  <2>2. queue' = [queue EXCEPT ![u] = Append(@, Kernel(q))] /\ UNCHANGED meta_
    BY <1>2 DEF Launch, tables
  <2>3. Holds(s, Kernel(p)) \/ (s = u /\ p = q)
    BY <2>1, <2>2, AppendHolds, KernelsDiffer
  <2>q. QED BY <1>2, <2>2, <2>3 DEF Launch, UsedWhere
<1>3. ASSUME NEW u \in Streams, GpuStep(u) PROVE Holds(s, Kernel(p))
  <2>1. queue[u] # <<>> /\ queue' = [queue EXCEPT ![u] = Tail(@)]
    BY <1>3 DEF GpuStep
  <2>q. QED BY <2>1, TailHolds
<1>4. ASSUME NEW t \in Threads, NEW u \in Streams, RecordEvent(t, u) PROVE Holds(s, Kernel(p))
  <2>1. PICK e \in Events : \/ queue' = [queue EXCEPT ![u] = Append(@, Marker(e))]
                            \/ UNCHANGED queue
    BY <1>4 DEF RecordEvent
  <2>2. Marker(e) \in Operation /\ Kernel(p) # Marker(e)
    BY KernelsAreNoMarkers DEF Marker, Operation
  <2>3. CASE UNCHANGED queue
    BY <2>3 DEF Holds
  <2>q. QED BY <2>1, <2>2, <2>3, AppendHolds
<1>q. QED BY <1>1, <1>2, <1>3, <1>4, QueueSteps DEF Recording

LEMMA FencedAppend ==
  ASSUME TypeOK, NEW u \in Streams, NEW op \in Operation,
         queue' = [queue EXCEPT ![u] = Append(@, op)],
         NEW a, NEW s \in Streams, Fenced(a, s), op # Kernel(a.ptr)
  PROVE  Fenced(a, s)'
<1>1. CASE s = u
  <2> SUFFICES ASSUME NEW i \in DOMAIN queue'[s], queue'[s][i] = Kernel(a.ptr)
               PROVE  \E j \in DOMAIN queue'[s], e \in a.events : j > i /\ queue'[s][j] = Marker(e)
    BY DEF Fenced
  <2>1. i \in DOMAIN queue[s] /\ queue[s][i] = Kernel(a.ptr)
    BY <1>1, AppendedQueue
  <2>2. PICK j \in DOMAIN queue[s], e \in a.events : j > i /\ queue[s][j] = Marker(e)
    BY <2>1 DEF Fenced
  <2>q. QED BY <1>1, <2>2, AppendedQueue
<1>2. CASE s # u
  BY <1>2, AppendedQueue DEF Fenced
<1>q. QED BY <1>1, <1>2

LEMMA FencedTail ==
  ASSUME TypeOK, NEW u \in Streams, queue[u] # <<>>, queue' = [queue EXCEPT ![u] = Tail(@)],
         NEW a, NEW s \in Streams, Fenced(a, s)
  PROVE  Fenced(a, s)'
<1>1. CASE s = u
  <2> SUFFICES ASSUME NEW i \in DOMAIN queue'[s], queue'[s][i] = Kernel(a.ptr)
               PROVE  \E j \in DOMAIN queue'[s], e \in a.events : j > i /\ queue'[s][j] = Marker(e)
    BY DEF Fenced
  <2>1. i \in Nat /\ i + 1 \in DOMAIN queue[s] /\ queue[s][i + 1] = Kernel(a.ptr)
    BY <1>1, TakenQueue
  <2>2. PICK j \in DOMAIN queue[s], e \in a.events : j > i + 1 /\ queue[s][j] = Marker(e)
    BY <2>1 DEF Fenced
  <2>a. j \in Nat
    BY <1>1, <2>2, TakenQueue
  <2>3. j > 1 /\ j - 1 > i
    BY <2>1, <2>2, <2>a
  <2>4. j - 1 \in DOMAIN queue'[s] /\ queue'[s][j - 1] = Marker(e)
    BY <1>1, <2>2, <2>3, TakenQueue
  <2>q. QED BY <2>3, <2>4
<1>2. CASE s # u
  BY <1>2, TakenQueue DEF Fenced
<1>q. QED BY <1>1, <1>2

(* Nothing is launched on an address that is not live.                     *)
LEMMA FencedKept ==
  ASSUME TypeOK, [Next]_vars, NEW a, a.ptr \notin DOMAIN meta_, NEW s \in Streams, Fenced(a, s)
  PROVE  Fenced(a, s)'
<1>1. CASE UNCHANGED queue
  BY <1>1 DEF Fenced
<1>2. ASSUME NEW q \in Ptrs, NEW u \in Streams, Launch(q, u) PROVE Fenced(a, s)'
  <2>1. Kernel(q) \in Operation
    BY DEF Kernel, Operation
  <2>2. queue' = [queue EXCEPT ![u] = Append(@, Kernel(q))] /\ Kernel(q) # Kernel(a.ptr)
    BY <1>2, KernelsDiffer DEF Launch
  <2>q. QED BY <2>1, <2>2, FencedAppend
<1>3. ASSUME NEW u \in Streams, GpuStep(u) PROVE Fenced(a, s)'
  BY <1>3, FencedTail DEF GpuStep
<1>4. ASSUME NEW t \in Threads, NEW u \in Streams, RecordEvent(t, u) PROVE Fenced(a, s)'
  <2>1. PICK e \in Events : \/ queue' = [queue EXCEPT ![u] = Append(@, Marker(e))]
                            \/ UNCHANGED queue
    BY <1>4 DEF RecordEvent
  <2>2. Marker(e) \in Operation /\ Kernel(a.ptr) # Marker(e)
    BY KernelsAreNoMarkers DEF Marker, Operation
  <2>q. QED BY <1>1, <2>1, <2>2, FencedAppend
<1>q. QED BY <1>1, <1>2, <1>3, <1>4, QueueSteps DEF Recording

LEMMA OtherWorkKept ==
  ASSUME TypeOK, OnePlace, [Next]_vars, NEW u \in Threads, WorkUse(u),
         UNCHANGED <<pc[u], work[u], todo[u]>>
  PROVE  WorkUse(u)'
<1>1. \A a \in work[u] : a.ptr \notin DOMAIN meta_
  BY DEF OnePlace
<1>2. \A a \in work[u] : InOrder(a) => InOrder(a)'
  BY <1>1, KernelsCome DEF InOrder
<1>3. \A a \in work[u] : \A s \in Streams : Fenced(a, s) => Fenced(a, s)'
  BY <1>1, FencedKept
<1>q. QED BY <1>2, <1>3 DEF WorkUse, AllFenced

LEMMA PendingKept ==
  ASSUME TypeOK, OnePlace, [Next]_vars, PendingFenced, pending_frees_' \subseteq pending_frees_
  PROVE  PendingFenced'
<1>1. \A a \in pending_frees_ : a.ptr \notin DOMAIN meta_
  BY DEF OnePlace
<1>q. QED BY <1>1, FencedKept DEF PendingFenced, AllFenced

LEMMA LiveKept ==
  ASSUME TypeOK, OnePlace, [Next]_vars, LiveUse,
         \A p \in DOMAIN meta_' :
           /\ p \in DOMAIN meta_
           /\ meta_'[p].alloc_stream = meta_[p].alloc_stream
           /\ meta_[p].recorded_streams \subseteq meta_'[p].recorded_streams
  PROVE  LiveUse'
<1> SUFFICES ASSUME NEW p \in DOMAIN meta_', NEW s \in Streams, Holds(s, Kernel(p))'
             PROVE  s \in {meta_'[p].alloc_stream} \union meta_'[p].recorded_streams
  BY DEF LiveUse, UsedWhere
<1>1. CASE Holds(s, Kernel(p))
  BY <1>1 DEF LiveUse, UsedWhere
<1>2. CASE UsedWhere(p, meta_[p], s)' /\ UNCHANGED meta_
  BY <1>2 DEF UsedWhere
<1>q. QED BY <1>1, <1>2, KernelsCome

LEMMA FreeKept ==
  ASSUME TypeOK, OnePlace, [Next]_vars, FreeUse, sub \subseteq sub'
  PROVE  FreeUse'
<1> SUFFICES ASSUME NEW p \in Ptrs \ sub', NEW s \in Streams, Holds(s, Kernel(p))'
             PROVE  s \in AllocStreams /\ StreamDevice[s] = PtrDevice[p]
  BY DEF FreeUse
<1>1. p \notin sub /\ p \notin DOMAIN meta_
  BY DEF OnePlace
<1>q. QED BY <1>1, KernelsCome DEF FreeUse

(* When the events of an entry have completed, no stream uses its address. *)
LEMMA DoneFenced ==
  ASSUME TypeOK, NEW a, AllFenced(a), \A e \in a.events : \A s \in Streams : ~ Holds(s, Marker(e))
  PROVE  \A s \in Streams : ~ Holds(s, Kernel(a.ptr))
  BY DEF AllFenced, Fenced, Holds

LEMMA FreedUse ==
  ASSUME TypeOK, OnePlace, RoutedHome, StreamsHome, FreeUse, [Next]_vars,
         NEW a, IsEntry(a), doFree(a), InOrder(a)
  PROVE  FreeUse'
<1>1. Home(a.ptr, a.meta) /\ StreamHome(a.meta)
  BY RoutedHomePointwise DEF StreamsHome, IsEntry
<1>2. sub' = sub \ {a.ptr}
  BY <1>1, doFreeHome
<1> SUFFICES ASSUME NEW p \in Ptrs \ sub', NEW s \in Streams, Holds(s, Kernel(p))'
             PROVE  s \in AllocStreams /\ StreamDevice[s] = PtrDevice[p]
  BY DEF FreeUse
<1>3. p \notin DOMAIN meta_
  BY <1>2 DEF OnePlace, IsEntry
<1>4. Holds(s, Kernel(p))
  BY <1>3, KernelsCome
<1>5. CASE p = a.ptr
  BY <1>1, <1>4, <1>5 DEF InOrder, Home, StreamHome
<1>6. CASE p # a.ptr
  BY <1>2, <1>4, <1>6 DEF FreeUse
<1>q. QED BY <1>5, <1>6

LEMMA NextStreamsHome ==
  ASSUME TypeOK, StreamsHome, [Next]_vars
  PROVE  StreamsHome'
<1> DEFINE Goal == /\ \A p \in DOMAIN meta_ : StreamHome(meta_[p])
                   /\ \A a \in pending_frees_ : StreamHome(a.meta)
                   /\ \A t \in Threads : \A a \in work[t] : StreamHome(a.meta)
                   /\ \A t \in Threads : pc[t] \in {"poll", "attempt", "force"} => StreamHome(req[t])
<1> SUFFICES Goal'
  BY DEF StreamsHome, IsEntry
<1>g. Goal
  BY DEF StreamsHome, IsEntry
<1>w. /\ work \in [Threads -> SUBSET PendingFree] /\ pc \in [Threads -> PcValues]
      /\ req \in [Threads -> AllocMeta \union {NoReq}]
  BY DEF TypeOK, ThreadsOK
<1>1. ASSUME NEW t \in Threads, Calls(t) \/ ThreadStep(t) PROVE Goal'
  <2>1. CASE \E size \in Sizes, s \in AllocStreams : AllocBegin(t, size, s)
    <3>1. PICK size \in Sizes, s \in AllocStreams : AllocBegin(t, size, s)
      BY <2>1
    <3>2. req'[t].alloc_stream = s /\ req'[t].device = StreamDevice[s]
      BY <1>w, <3>1 DEF AllocBegin
    <3>3. \A u \in Threads : u # t => req'[u] = req[u] /\ pc'[u] = pc[u]
      BY <1>w, <3>1 DEF AllocBegin
    <3>4. UNCHANGED <<tables, work>>
      BY <3>1 DEF AllocBegin
    <3>q. QED BY <1>g, <3>2, <3>3, <3>4 DEF tables, StreamHome
  <2>2. CASE \E p \in Ptrs : FreeBegin(t, p)
    BY <1>g, <1>w, <2>2 DEF FreeBegin, Without, Entry
  <2>3. CASE \E id \in Pools : ReleasePoolBegin(t, id)
    <3>1. PICK id \in Pools : ReleasePoolBegin(t, id)
      BY <2>3
    <3> DEFINE live == pool_allocs_[id] \intersect DOMAIN meta_
               pool_pending == {pf \in pending_frees_ : pf.meta.pool_id = id}
               entries == {Entry(p, meta_[p]) : p \in live} \union pool_pending
    <3>2. /\ meta_' = Without(meta_, live) /\ UNCHANGED req
          /\ pending_frees_' = pending_frees_ \ pool_pending
          /\ work' = [work EXCEPT ![t] = entries]
          /\ pc' \in {[pc EXCEPT ![t] = "idle"], [pc EXCEPT ![t] = "release"]}
      BY <3>1 DEF ReleasePoolBegin
    <3>3. \A a \in entries : StreamHome(a.meta)
      BY <1>g DEF Entry
    <3>4. \A q \in DOMAIN meta_' : q \in DOMAIN meta_ /\ meta_'[q] = meta_[q]
      BY <3>2 DEF Without
    <3> HIDE DEF entries, live
    <3>q. QED BY <1>g, <1>w, <3>2, <3>3, <3>4
  <2>4. CASE EmptyCacheBegin(t)
    BY <1>g, <1>w, <2>4 DEF EmptyCacheBegin, tables
  <2>5. CASE PollCollect(t)
    BY <1>g, <1>w, <2>5 DEF PollCollect
  <2>6. CASE ForceCollect(t)
    BY <1>g, <1>w, <2>6 DEF ForceCollect
  <2>7. CASE Reap(t)
    BY <1>g, <1>w, <2>7 DEF Reap, tables
  <2>8. CASE Allocate(t)
    BY <1>g, <1>w, <2>8 DEF Allocate, tables, Entry
  <2>9. CASE AllocateFails(t)
    BY <1>g, <1>w, <2>9 DEF AllocateFails, tables
  <2>10. CASE Publish(t)
    BY <1>g, <1>w, <2>10 DEF Publish, Put
  <2>11. CASE \E s \in Streams : RecordEvent(t, s)
    <3>1. UNCHANGED <<tables, req>>
      BY <2>11 DEF RecordEvent
    <3>2. CASE SetWork(t, {}) /\ Goto(t, "idle")
      BY <1>g, <1>w, <3>1, <3>2 DEF tables
    <3>3. ASSUME NEW e \in Events, UNCHANGED pc,
                 SetWork(t, {[pf EXCEPT !.events = @ \union {e}] : pf \in work[t]})
          PROVE  Goal'
      <4> DEFINE guarded(a) == [a EXCEPT !.events = @ \union {e}]
      <4>1. \A a \in work[t] : guarded(a).meta = a.meta
        BY <1>w DEF PendingFree
      <4>2. work' = [work EXCEPT ![t] = {guarded(a) : a \in work[t]}]
        BY <3>3
      <4> HIDE DEF guarded
      <4>q. QED BY <1>g, <1>w, <3>1, <3>3, <4>1, <4>2 DEF tables
    <3>q. QED BY <2>11, <3>2, <3>3 DEF RecordEvent, Throw
  <2>12. CASE Defer(t)
    BY <1>g, <1>w, <2>12 DEF Defer
  <2>13. CASE FreeNow(t)
    BY <1>g, <1>w, <2>13 DEF FreeNow, tables
  <2>14. CASE \E d \in Devices : FlushDevice(t, d)
    BY <1>g, <1>w, <2>14 DEF FlushDevice
  <2>15. CASE EmptyCacheEnd(t)
    BY <1>g, <1>w, <2>15 DEF EmptyCacheEnd, tables
  <2>16. CASE ReleasePoolSync(t)
    <3>1. PICK pf \in work[t] :
            SetWork(t, (work[t] \ {pf}) \union {[pf EXCEPT !.events = {}]})
      BY <2>16 DEF ReleasePoolSync
    <3> DEFINE done == [pf EXCEPT !.events = {}]
    <3>2. done.meta = pf.meta
      BY <1>w DEF PendingFree
    <3>3. work' = [work EXCEPT ![t] = (work[t] \ {pf}) \union {done}]
      BY <3>1
    <3>4. UNCHANGED <<tables, pc, req>>
      BY <2>16 DEF ReleasePoolSync
    <3> HIDE DEF done
    <3>q. QED BY <1>g, <1>w, <3>2, <3>3, <3>4 DEF tables
  <2>17. CASE ReleasePoolFree(t)
    BY <1>g, <1>w, <2>17 DEF ReleasePoolFree, tables
  <2>18. CASE AcquireFails(t)
    BY <1>g, <1>w, <2>18 DEF AcquireFails, Throw, tables
  <2>q. QED
    BY <1>1, <2>1, <2>2, <2>3, <2>4, <2>5, <2>6, <2>7, <2>8, <2>9,
       <2>10, <2>11, <2>12, <2>13, <2>14, <2>15, <2>16, <2>17, <2>18 DEF Calls, ThreadStep
<1>2. CASE \E p \in Ptrs, s \in Streams : recordStream(p, s)
  <2>1. PICK p \in DOMAIN meta_, s \in Streams :
          /\ meta_' = [meta_ EXCEPT ![p].recorded_streams = @ \union {s}]
          /\ UNCHANGED <<pending_frees_, locals>>
    BY <1>2 DEF recordStream
  <2>2. \A q \in DOMAIN meta_ : meta_[q] \in AllocMeta
    BY DEF TypeOK, TablesOK
  <2>3. \A q \in DOMAIN meta_' : /\ q \in DOMAIN meta_
                                 /\ meta_'[q].alloc_stream = meta_[q].alloc_stream
                                 /\ meta_'[q].device = meta_[q].device
    BY <2>1, <2>2 DEF AllocMeta
  <2>q. QED BY <1>g, <2>1, <2>3 DEF locals, StreamHome
<1>3. CASE Others \/ Gpu
  BY <1>g, <1>2, <1>3 DEF Others, Gpu, FreeUnknown, Launch, beginAllocateToPool,
     endAllocateToPool, setThreshold, enable, GpuStep, tables, locals
<1>4. CASE UNCHANGED vars
  BY <1>g, <1>4 DEF vars, tables, locals
<1>q. QED BY <1>1, <1>3, <1>4 DEF Next

(* A step of t that changes neither the entries nor the addresses in use.  *)
LEMMA QuietStep ==
  ASSUME TypeOK, OnePlace, UseInv, [Next]_vars, UNCHANGED <<tables, sub>>
  PROVE  LiveUse' /\ FreeUse' /\ PendingFenced'
  BY LiveKept, FreeKept, PendingKept DEF UseInv, tables

LEMMA NextUseInv ==
  ASSUME OneAllocStream, TypeOK, OnePlace, RoutedHome, WorkByPc, EventInv, StreamsHome, UseInv,
         [Next]_vars, QuietRelease
  PROVE  UseInv'
<1>w. /\ work \in [Threads -> SUBSET PendingFree] /\ pc \in [Threads -> PcValues]
      /\ todo \in [Threads -> SUBSET (Streams \union Devices)]
  BY DEF TypeOK, ThreadsOK
<1>i. LiveUse /\ FreeUse /\ PendingFenced /\ \A u \in Threads : WorkUse(u)
  BY DEF UseInv
<1>e. \A t \in Threads : \A a \in work[t] : a.ptr \notin DOMAIN meta_ /\ IsEntry(a)
  BY DEF OnePlace, IsEntry
<1>p. \A a \in pending_frees_ : AllFenced(a)'
  BY FencedKept DEF OnePlace, UseInv, PendingFenced, AllFenced
<1>f. \A t \in Threads : \A a \in work[t] : AllFenced(a) => AllFenced(a)'
  BY <1>e, FencedKept DEF AllFenced
<1>1. ASSUME NEW t \in Threads, Calls(t) \/ ThreadStep(t) PROVE UseInv'
  <2>o. ASSUME \A u \in Threads : u # t => UNCHANGED <<pc[u], work[u], todo[u]>>, WorkUse(t)'
        PROVE  \A u \in Threads : WorkUse(u)'
    BY <1>i, <2>o, OtherWorkKept
  <2>1. CASE \E size \in Sizes, s \in AllocStreams : AllocBegin(t, size, s)
    <3>1. /\ UNCHANGED <<tables, sub>> /\ pc'[t] = "poll"
          /\ \A u \in Threads : u # t => UNCHANGED <<pc[u], work[u], todo[u]>>
      BY <1>w, <2>1 DEF AllocBegin
    <3>q. QED BY <2>o, <3>1, QuietStep DEF UseInv, WorkUse
  <2>2. CASE \E p \in Ptrs : FreeBegin(t, p)
    <3>1. PICK p \in DOMAIN meta_ : FreeBegin(t, p)
      BY <2>2 DEF FreeBegin
    <3>2. /\ UNCHANGED <<pending_frees_, sub>> /\ meta_' = Without(meta_, {p}) /\ UNCHANGED queue
          /\ \A u \in Threads : u # t => UNCHANGED <<pc[u], work[u], todo[u]>>
          /\ work'[t] = {Entry(p, meta_[p])}
      BY <1>w, <3>1 DEF FreeBegin
    <3>3. /\ Entry(p, meta_[p]).ptr = p /\ Entry(p, meta_[p]).meta = meta_[p]
      BY DEF Entry
    <3>4. \A s \in Streams : Holds(s, Kernel(p))' => s \in {meta_[p].alloc_stream} \union meta_[p].recorded_streams
      BY <1>i, <3>2 DEF LiveUse, UsedWhere, Holds
    <3>5. WorkUse(t)'
      <4>1. CASE meta_[p].recorded_streams = {} /\ pc'[t] = "dofree"
        BY <3>2, <3>3, <3>4, <4>1 DEF WorkUse, InOrder
      <4>2. CASE pc'[t] = "record" /\ todo'[t] = StreamsToRecord(meta_[p])
        <5>1. \A s \in Streams : Holds(s, Kernel(p))' => s \in todo'[t]
          BY <3>4, <4>2 DEF StreamsToRecord
        <5>q. QED BY <3>2, <3>3, <4>2, <5>1 DEF WorkUse, Fenced, Holds
      <4>q. QED BY <1>w, <3>1, <4>1, <4>2 DEF FreeBegin
    <3>6. LiveUse' /\ FreeUse' /\ PendingFenced'
      BY <1>i, <3>2, LiveKept, FreeKept, PendingKept DEF Without
    <3>q. QED BY <2>o, <3>2, <3>5, <3>6 DEF UseInv
  <2>3. CASE \E id \in Pools : ReleasePoolBegin(t, id)
    <3>1. PICK id \in Pools : ReleasePoolBegin(t, id)
      BY <2>3
    <3> DEFINE live == pool_allocs_[id] \intersect DOMAIN meta_
               pool_pending == {pf \in pending_frees_ : pf.meta.pool_id = id}
               entries == {Entry(p, meta_[p]) : p \in live} \union pool_pending
    <3>2. /\ meta_' = Without(meta_, live)
          /\ pending_frees_' = pending_frees_ \ pool_pending
          /\ work' = [work EXCEPT ![t] = entries]
          /\ pc' = [pc EXCEPT ![t] = IF entries = {} THEN "idle" ELSE "release"]
          /\ UNCHANGED <<sub, queue, todo>> /\ pc[t] = "idle"
      BY <3>1 DEF ReleasePoolBegin
    <3>3. \A a \in entries : \/ a.ptr \in live /\ a.meta = meta_[a.ptr]
                             \/ a \in pending_frees_
      BY DEF Entry
    <3>4. live \subseteq DOMAIN meta_
      OBVIOUS
    <3> HIDE DEF live, pool_pending, entries
    <3>5. /\ work'[t] = entries /\ pc'[t] \in {"idle", "release"}
          /\ \A u \in Threads : u # t => UNCHANGED <<pc[u], work[u], todo[u]>>
      BY <1>w, <3>2
    <3>6. ASSUME pc'[t] = "release", NEW a \in entries PROVE InOrder(a)' \/ AllFenced(a)'
      <4>1. CASE a \in pending_frees_
        BY <1>p, <4>1
      <4>2. CASE a.ptr \in live /\ a.meta = meta_[a.ptr]
        <5>1. meta_[a.ptr].recorded_streams = {}
          BY <3>2, <3>4, <3>6, <4>2 DEF QuietRelease, Without
        <5>2. \A s \in Streams : Holds(s, Kernel(a.ptr)) => s = a.meta.alloc_stream
          BY <1>i, <3>4, <4>2, <5>1 DEF LiveUse, UsedWhere
        <5>q. QED BY <3>2, <5>2 DEF InOrder, Holds
      <4>q. QED BY <3>3, <4>1, <4>2
    <3>7. WorkUse(t)'
      BY <3>5, <3>6 DEF WorkUse
    <3>8. LiveUse' /\ FreeUse' /\ PendingFenced'
      BY <1>i, <3>2, LiveKept, FreeKept, PendingKept DEF Without
    <3>q. QED BY <2>o, <3>5, <3>7, <3>8 DEF UseInv
  <2>4. CASE EmptyCacheBegin(t)
    <3>1. /\ UNCHANGED <<tables, sub>> /\ work'[t] = {}
          /\ \A u \in Threads : u # t => UNCHANGED <<pc[u], work[u], todo[u]>>
      BY <1>w, <2>4 DEF EmptyCacheBegin, WorkByPc
    <3>q. QED BY <2>o, <3>1, QuietStep DEF UseInv, WorkUse
  <2>5. CASE PollCollect(t) \/ ForceCollect(t) \/ \E d \in Devices : FlushDevice(t, d)
    <3>1. /\ UNCHANGED <<meta_, sub>> /\ pending_frees_' \subseteq pending_frees_
          /\ work'[t] \subseteq pending_frees_ /\ pc'[t] \in {"attempt", "flush"}
          /\ \A u \in Threads : u # t => UNCHANGED <<pc[u], work[u], todo[u]>>
      BY <1>w, <2>5 DEF PollCollect, ForceCollect, FlushDevice
    <3>2. WorkUse(t)'
      BY <1>p, <3>1 DEF WorkUse
    <3>q. QED BY <1>i, <2>o, <3>1, <3>2, LiveKept, FreeKept, PendingKept DEF UseInv
  <2>7. CASE Reap(t)
    <3>1. PICK pf \in work[t] : /\ doFree(pf) /\ SetWork(t, work[t] \ {pf})
                                /\ (pc[t] = "attempt" /\ level[t] = 0) \/ Done(pf.events)
      BY <2>7 DEF Reap
    <3>2. UNCHANGED <<tables, pc, todo>> /\ pc[t] \in {"attempt", "flush"}
      BY <2>7 DEF Reap
    <3>3. /\ work'[t] \subseteq work[t]
          /\ \A u \in Threads : u # t => UNCHANGED <<pc[u], work[u], todo[u]>>
      BY <1>w, <3>1, <3>2
    <3>4. \A a \in work[t] : AllFenced(a)
      BY <1>i, <3>2 DEF WorkUse
    <3>5. WorkUse(t)'
      BY <1>f, <3>2, <3>3, <3>4 DEF WorkUse
    <3>6. InOrder(pf)
      <4>1. \A e \in pf.events : \A s \in Streams : ~ Holds(s, Marker(e))
        BY <3>1, DoneHolds DEF EventInv, PolledDone
      <4>q. QED BY <3>4, <4>1, DoneFenced DEF InOrder
    <3>7. FreeUse'
      BY <1>e, <1>i, <3>1, <3>6, FreedUse
    <3>q. QED BY <1>i, <2>o, <3>2, <3>3, <3>5, <3>7, LiveKept, PendingKept DEF UseInv, tables
  <2>8. CASE Allocate(t)
    <3>1. PICK p \in FreePlaces(req[t]) : SetWork(t, {Entry(p, req[t])}) /\ sub' = sub \union {p}
      BY <2>8 DEF Allocate
    <3>2. UNCHANGED <<tables, queue, todo>> /\ pc' = [pc EXCEPT ![t] = "publish"] /\ pc[t] = "attempt"
      BY <2>8 DEF Allocate
    <3>3. /\ p \in Ptrs \ sub /\ PtrDevice[p] = req[t].device /\ StreamHome(req[t])
      BY <3>2 DEF FreePlaces, StreamsHome
    <3>4. \A s \in Streams : Holds(s, Kernel(p)) => s = req[t].alloc_stream
      BY <1>i, <3>3 DEF FreeUse, OneAllocStream, StreamHome
    <3>5. Entry(p, req[t]).ptr = p /\ Entry(p, req[t]).meta = req[t]
      BY DEF Entry
    <3>6. /\ work'[t] = {Entry(p, req[t])} /\ pc'[t] = "publish"
          /\ \A u \in Threads : u # t => UNCHANGED <<pc[u], work[u], todo[u]>>
      BY <1>w, <3>1, <3>2
    <3>7. WorkUse(t)'
      BY <3>2, <3>4, <3>5, <3>6 DEF WorkUse, InOrder, Holds
    <3>q. QED BY <1>i, <2>o, <3>1, <3>2, <3>6, <3>7, LiveKept, FreeKept, PendingKept DEF UseInv, tables
  <2>9. CASE AllocateFails(t) \/ EmptyCacheEnd(t)
    <3>1. /\ UNCHANGED <<tables, sub>> /\ work'[t] = {}
          /\ \A u \in Threads : u # t => UNCHANGED <<pc[u], work[u], todo[u]>>
      BY <1>w, <2>9 DEF AllocateFails, EmptyCacheEnd
    <3>q. QED BY <2>o, <3>1, QuietStep DEF UseInv, WorkUse
  <2>10. CASE Publish(t)
    <3>1. PICK pf \in work[t] : meta_' = Put(meta_, pf.ptr, pf.meta)
      BY <2>10 DEF Publish
    <3>2. /\ UNCHANGED <<pending_frees_, sub, queue>> /\ pc[t] = "publish" /\ work'[t] = {}
          /\ \A u \in Threads : u # t => UNCHANGED <<pc[u], work[u], todo[u]>>
      BY <1>w, <2>10 DEF Publish
    <3>3. InOrder(pf)
      BY <1>i, <3>2 DEF WorkUse
    <3>4. LiveUse'
      BY <1>i, <3>1, <3>2, <3>3 DEF LiveUse, UsedWhere, InOrder, Holds, Put
    <3>q. QED BY <1>i, <2>o, <3>2, <3>4, FreeKept, PendingKept DEF UseInv, WorkUse
  <2>11. CASE \E s \in Streams : RecordEvent(t, s)
    <3>0. PICK s \in Streams : RecordEvent(t, s)
      BY <2>11
    <3>1. PICK e \in Events :
            \/ /\ queue' = [queue EXCEPT ![s] = Append(@, Marker(e))]
               /\ SetWork(t, {[pf EXCEPT !.events = @ \union {e}] : pf \in work[t]})
               /\ todo' = [todo EXCEPT ![t] = @ \ {s}]
               /\ UNCHANGED pc
            \/ SetWork(t, {}) /\ todo' = [todo EXCEPT ![t] = {}] /\ Goto(t, "idle")
      BY <3>0 DEF RecordEvent, Throw
    <3>2. UNCHANGED <<tables, sub>> /\ pc[t] = "record"
      BY <3>0 DEF RecordEvent
    <3>3. \A u \in Threads : u # t => UNCHANGED <<pc[u], work[u], todo[u]>>
      BY <1>w, <3>1
    <3>4. CASE SetWork(t, {})
      BY <1>w, <2>o, <3>2, <3>3, <3>4, QuietStep DEF UseInv, WorkUse
    <3>5. CASE /\ queue' = [queue EXCEPT ![s] = Append(@, Marker(e))]
               /\ SetWork(t, {[pf EXCEPT !.events = @ \union {e}] : pf \in work[t]})
               /\ todo' = [todo EXCEPT ![t] = @ \ {s}]
               /\ UNCHANGED pc
      <4> DEFINE guarded(a) == [a EXCEPT !.events = @ \union {e}]
      <4>1. \A a \in work[t] : guarded(a).ptr = a.ptr /\ guarded(a).events = a.events \union {e}
        BY <1>w DEF PendingFree
      <4>2. work' = [work EXCEPT ![t] = {guarded(a) : a \in work[t]}]
        BY <3>5
      <4> HIDE DEF guarded
      <4>3. \A b \in work'[t] : \E a \in work[t] : b.ptr = a.ptr /\ b.events = a.events \union {e}
        BY <1>w, <4>1, <4>2
      <4>4. pc'[t] = "record" /\ todo'[t] = todo[t] \ {s}
        BY <1>w, <3>2, <3>5
      <4>5. ASSUME NEW b \in work'[t], NEW u \in Streams \ todo'[t] PROVE Fenced(b, u)'
        <5>1. PICK a \in work[t] : b.ptr = a.ptr /\ b.events = a.events \union {e}
          BY <4>3
        <5>2. CASE u = s
          <6>1. Marker(e) \in Operation /\ Marker(e) # Kernel(b.ptr)
            BY KernelsAreNoMarkers DEF Marker, Operation
          <6>2. e \in b.events
            BY <5>1
          <6> DEFINE n == Len(queue[s]) + 1
          <6>3. /\ DOMAIN queue'[s] = DOMAIN queue[s] \union {n} /\ queue'[s][n] = Marker(e)
                /\ \A i \in DOMAIN queue[s] : i < n
            BY <3>5, <6>1, AppendedQueue
          <6> HIDE DEF n
          <6>4. \A i \in DOMAIN queue'[s] : queue'[s][i] = Kernel(b.ptr) =>
                  n \in DOMAIN queue'[s] /\ n > i /\ queue'[s][n] = Marker(e)
            <7> SUFFICES ASSUME NEW i \in DOMAIN queue'[s], queue'[s][i] = Kernel(b.ptr)
                         PROVE  n > i
              BY <6>3
            <7>1. i # n
              BY <6>1, <6>3
            <7>2. i \in DOMAIN queue[s] /\ i < n
              BY <6>3, <7>1
            <7>3. i \in Int /\ n \in Int
              <8>1. queue[s] \in Seq(Operation)
                BY DEF TypeOK, MemoryOK
              <8>q. QED BY <7>2, <8>1 DEF n
            <7>q. QED BY <7>2, <7>3
          <6>q. QED BY <5>2, <6>2, <6>4 DEF Fenced
        <5>3. CASE u # s
          <6>1. Fenced(a, u)
            BY <1>i, <3>2, <4>4, <5>3 DEF WorkUse
          <6>2. Fenced(a, u)'
            BY <1>e, <6>1, FencedKept
          <6>q. QED BY <5>1, <6>2 DEF Fenced
        <5>q. QED BY <5>2, <5>3
      <4>6. WorkUse(t)'
        BY <4>4, <4>5 DEF WorkUse
      <4>q. QED BY <2>o, <3>2, <3>3, <4>6, QuietStep DEF UseInv
    <3>q. QED BY <3>1, <3>4, <3>5
  <2>12. CASE Defer(t)
    <3>1. /\ UNCHANGED <<meta_, sub>> /\ pc[t] = "record" /\ todo[t] = {}
          /\ pending_frees_' = pending_frees_ \union work[t]
          /\ work'[t] = {}
          /\ \A u \in Threads : u # t => UNCHANGED <<pc[u], work[u], todo[u]>>
      BY <1>w, <2>12 DEF Defer
    <3>2. \A a \in work[t] : AllFenced(a)
      BY <1>i, <3>1 DEF WorkUse, AllFenced
    <3>3. PendingFenced'
      BY <1>f, <1>p, <3>1, <3>2 DEF PendingFenced
    <3>q. QED BY <1>i, <2>o, <3>1, <3>3, LiveKept, FreeKept DEF UseInv, WorkUse
  <2>13. CASE FreeNow(t)
    <3>1. PICK pf \in work[t] : doFree(pf)
      BY <2>13 DEF FreeNow
    <3>2. /\ UNCHANGED tables /\ pc[t] = "dofree" /\ work'[t] = {}
          /\ \A u \in Threads : u # t => UNCHANGED <<pc[u], work[u], todo[u]>>
      BY <1>w, <2>13 DEF FreeNow
    <3>3. FreeUse'
      BY <1>e, <1>i, <3>1, <3>2, FreedUse DEF WorkUse
    <3>q. QED BY <1>i, <2>o, <3>2, <3>3, LiveKept, PendingKept DEF UseInv, WorkUse, tables
  <2>16. CASE ReleasePoolSync(t)
    <3>1. PICK pf \in work[t] :
            /\ Done(pf.events)
            /\ SetWork(t, (work[t] \ {pf}) \union {[pf EXCEPT !.events = {}]})
      BY <2>16 DEF ReleasePoolSync
    <3>2. UNCHANGED <<tables, sub, queue, pc, todo>> /\ pc[t] = "release"
      BY <2>16 DEF ReleasePoolSync
    <3> DEFINE done == [pf EXCEPT !.events = {}]
    <3>3. done.ptr = pf.ptr /\ done.meta = pf.meta
      BY <1>w DEF PendingFree
    <3>4. /\ work'[t] = (work[t] \ {pf}) \union {done}
          /\ \A u \in Threads : u # t => UNCHANGED <<pc[u], work[u], todo[u]>>
      BY <1>w, <3>1, <3>2
    <3> HIDE DEF done
    <3>5. \A a \in work[t] : InOrder(a) \/ AllFenced(a)
      BY <1>i, <3>2 DEF WorkUse
    <3>6. InOrder(pf)
      <4>1. \A e \in pf.events : \A s \in Streams : ~ Holds(s, Marker(e))
        BY <3>1, DoneHolds
      <4>q. QED BY <3>5, <4>1, DoneFenced DEF InOrder
    <3>7. InOrder(done)'
      BY <3>2, <3>3, <3>6 DEF InOrder, Holds
    <3>8. \A a \in work[t] : InOrder(a)' \/ AllFenced(a)'
      BY <1>f, <3>2, <3>5 DEF InOrder, Holds
    <3>9. WorkUse(t)'
      BY <3>2, <3>4, <3>7, <3>8 DEF WorkUse
    <3>q. QED BY <2>o, <3>2, <3>4, <3>9, QuietStep DEF UseInv
  <2>17. CASE ReleasePoolFree(t)
    <3>1. PICK pf \in work[t] : doFree(pf) /\ SetWork(t, work[t] \ {pf}) /\ pf.events = {}
      BY <2>17 DEF ReleasePoolFree
    <3>2. UNCHANGED <<tables, queue, todo>> /\ pc[t] = "release"
      BY <2>17 DEF ReleasePoolFree
    <3>3. /\ work'[t] \subseteq work[t] /\ pc'[t] \in {"idle", "release"}
          /\ \A u \in Threads : u # t => UNCHANGED <<pc[u], work[u], todo[u]>>
      BY <1>w, <2>17, <3>1, <3>2 DEF ReleasePoolFree
    <3>4. \A a \in work[t] : InOrder(a) \/ AllFenced(a)
      BY <1>i, <3>2 DEF WorkUse
    <3>5. InOrder(pf)
      BY <3>1, <3>4, DoneFenced DEF InOrder
    <3>6. FreeUse'
      BY <1>e, <1>i, <3>1, <3>5, FreedUse
    <3>7. WorkUse(t)'
      BY <1>f, <3>2, <3>3, <3>4 DEF WorkUse, InOrder, Holds
    <3>q. QED BY <1>i, <2>o, <3>2, <3>3, <3>6, <3>7, LiveKept, PendingKept DEF UseInv, tables
  <2>18. CASE AcquireFails(t)
    <3>1. /\ UNCHANGED <<tables, sub>> /\ pc'[t] = "idle" /\ work'[t] = {}
          /\ \A u \in Threads : u # t => UNCHANGED <<pc[u], work[u], todo[u]>>
      BY <1>w, <2>18 DEF AcquireFails, Throw
    <3>q. QED BY <2>o, <3>1, QuietStep DEF UseInv, WorkUse
  <2>q. QED
    BY <1>1, <2>1, <2>2, <2>3, <2>4, <2>5, <2>7, <2>8, <2>9,
       <2>10, <2>11, <2>12, <2>13, <2>16, <2>17, <2>18 DEF Calls, ThreadStep
<1>2. ASSUME UNCHANGED <<pending_frees_, sub, pc, work, todo>>, LiveUse' PROVE UseInv'
  BY <1>2, <1>i, FreeKept, PendingKept, OtherWorkKept DEF UseInv
<1>3. CASE \E p \in Ptrs, s \in Streams : recordStream(p, s)
  <2>1. PICK p \in DOMAIN meta_, s \in Streams :
          /\ meta_' = [meta_ EXCEPT ![p].recorded_streams = @ \union {s}]
          /\ UNCHANGED <<pending_frees_, sub, locals>>
    BY <1>3 DEF recordStream
  <2>2. \A q \in DOMAIN meta_ : meta_[q] \in AllocMeta
    BY DEF TypeOK, TablesOK
  <2>3. \A q \in DOMAIN meta_' : /\ q \in DOMAIN meta_
                                 /\ meta_'[q].alloc_stream = meta_[q].alloc_stream
                                 /\ meta_[q].recorded_streams \subseteq meta_'[q].recorded_streams
    BY <2>1, <2>2 DEF AllocMeta
  <2>q. QED BY <1>i, <1>2, <2>1, <2>3, LiveKept DEF locals
<1>4. CASE UNCHANGED <<tables, sub, locals>>
  BY <1>2, <1>4, QuietStep DEF tables, locals
<1>5. CASE Others \/ Gpu
  BY <1>3, <1>4, <1>5 DEF Others, Gpu, FreeUnknown, Launch, beginAllocateToPool,
     endAllocateToPool, setThreshold, enable, GpuStep
<1>q. QED BY <1>1, <1>4, <1>5 DEF Next, vars

LEMMA UseInvPromises ==
  ASSUME UseInv
  PROVE  FencedKernels /\ ReuseOrdered
<1>1. FencedKernels
  BY DEF UseInv, PendingFenced, AllFenced, Fenced, FencedKernels
<1>2. ReuseOrdered
  BY DEF UseInv, WorkUse, InOrder, Holds, ReuseOrdered, Queued
<1>q. QED BY <1>1, <1>2

(* Everything the reuse of addresses rests on, kept by a step.             *)
ReuseInv == OnePlace /\ RoutedHome /\ EventsCreated /\ WorkByPc /\ EventInv /\ StreamsHome /\ UseInv

LEMMA InitReuse == Init => ReuseInv
  BY InitOnePlace DEF Init, ReuseInv, RoutedHome, Entries, EventsCreated, WorkByPc, EventInv, Apart,
     Unpooled, Passed, PolledDone, ForcedLevel, RecordedExist, IsEntry, Holds, StreamsHome,
     UseInv, LiveUse, UsedWhere, FreeUse, PendingFenced, WorkUse, EmptyMap

(* Memory is handed out again in stream order: when the allocations of a   *)
(* device are made on one stream and pools are released only once their    *)
(* live allocations have no recorded streams, an address handed out is     *)
(* used by no other stream than the one its new owner works on.  The two   *)
(* hypotheses are those the code needs: the run vmm_reuse_other_stream     *)
(* shows what happens without the first, releasePool frees a live          *)
(* allocation without waiting for its streams without the second.          *)
THEOREM ReuseOrderedHolds ==
  OneAllocStream => (Spec /\ [][QuietRelease]_vars => []ReuseOrdered)
<1> SUFFICES ASSUME OneAllocStream
             PROVE  Spec /\ [][QuietRelease]_vars => []ReuseOrdered
  OBVIOUS
<1>1. TypeOK /\ ReuseInv /\ [Next]_vars /\ [QuietRelease]_vars => ReuseInv'
  BY NextOnePlace, NextRoutedHome, NextEventsCreated, NextWorkByPc, NextEventInv,
     NextStreamsHome, NextUseInv DEF ReuseInv, QuietRelease, vars, locals
<1>2. ReuseInv => ReuseOrdered
  BY UseInvPromises DEF ReuseInv
<1>q. QED BY <1>1, <1>2, InitReuse, TypeCorrect, PTL DEF Spec

(* Why: behind every kernel that uses the address of a pending free, an    *)
(* event of that free is queued, so the free waits for the kernel.         *)
THEOREM FencedKernelsHolds ==
  OneAllocStream => (Spec /\ [][QuietRelease]_vars => []FencedKernels)
<1> SUFFICES ASSUME OneAllocStream
             PROVE  Spec /\ [][QuietRelease]_vars => []FencedKernels
  OBVIOUS
<1>1. TypeOK /\ ReuseInv /\ [Next]_vars /\ [QuietRelease]_vars => ReuseInv'
  BY NextOnePlace, NextRoutedHome, NextEventsCreated, NextWorkByPc, NextEventInv,
     NextStreamsHome, NextUseInv DEF ReuseInv, QuietRelease, vars, locals
<1>2. ReuseInv => FencedKernels
  BY UseInvPromises DEF ReuseInv
<1>q. QED BY <1>1, <1>2, InitReuse, TypeCorrect, PTL DEF Spec
=============================================================================
