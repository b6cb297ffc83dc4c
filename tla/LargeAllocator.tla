---------------------------- MODULE LargeAllocator ----------------------------
(***************************************************************************)
(* LargeAllocator of one device (csrc/large_allocator.cc): every           *)
(* allocation has a virtual address range of its own, packed with physical *)
(* blocks.  allocate reserves the range without a lock and fills it under  *)
(* mu_; free takes the record out under mu_ and undoes the mapping after   *)
(* unlocking, so both are sequences of steps that other threads see.       *)
(*                                                                         *)
(* External: the driver (the reserved ranges, what is mapped where and who *)
(* may access it) and the PhysicalMemoryManager: the blocks it has handed  *)
(* out, and BlockSize, the size of each block.  Other handles may have a   *)
(* BlockSize too: what the program maps by itself.                         *)
(***************************************************************************)
EXTENDS Ranges, BlockLayout

CONSTANTS
  Threads, NoThread,
  Handles, BlockSize,  \* the physical blocks, and the size of each
  VASize, Addresses,   \* addresses below VASize where a range may be reserved
  Requests,            \* sizes callers ask for
  device_,             \* the device that owns the memory
  Peers,               \* devices that may become peers
  Faults               \* calls that may fail: "create", "map", "access", "grant"

ASSUME PlacesAssumption ==
  /\ NoThread \notin Threads
  /\ Handles \subseteq DOMAIN BlockSize
  /\ BlockSize \in [DOMAIN BlockSize -> BlockClasses]
  /\ VASize \in Nat /\ Addresses \subseteq Nat
  /\ Requests \subseteq Nat \ {0}
  /\ device_ \notin Peers

VARIABLES
  mu_,               \* thread that holds mu_, or NoThread
  allocs_,           \* address -> size of the live ranges
  alloc_blocks,      \* address -> their blocks, in the order of mapping
  allocated_bytes_,
  peer_devices_,
  call,              \* thread -> its allocate or free in progress
  reserved,          \* driver: address -> size of the reserved ranges
  mapping,           \* driver: address -> block mapped from there on
  access,            \* driver: address of a mapping -> devices that may use it
  taken              \* blocks the PhysicalMemoryManager has handed out

live == <<allocs_, alloc_blocks, allocated_bytes_>>
driver == <<reserved, mapping, access>>
vars == <<mu_, live, peer_devices_, call, driver, taken>>

EmptyMap == [va \in {} |-> 0]

(* A call: the range it works on, the sizes it still has to map, the       *)
(* blocks it holds, how many of them are mapped, and where it stands.      *)
(* step is "map", then "unmap" and "return" for each block that goes back; *)
(* "idle" between the calls.                                               *)
Begin(va, size, todo, held, mapped, step) ==
  [va |-> va, size |-> size, todo |-> todo, blocks |-> held,
   num_mapped |-> mapped, offset |-> 0, step |-> step]

NoCall == Begin(0, 0, <<>>, <<>>, 0, "idle")
InStep(t, step) == call[t].step = step

Init ==
  /\ mu_ = NoThread
  /\ allocs_ = EmptyMap /\ alloc_blocks = EmptyMap /\ allocated_bytes_ = 0
  /\ peer_devices_ = {}
  /\ call = [t \in Threads |-> NoCall]
  /\ reserved = EmptyMap /\ mapping = EmptyMap /\ access = EmptyMap
  /\ taken = {}

-----------------------------------------------------------------------------
(* Driver calls *)

(* The mappings that have a byte in [va, va + size). *)
Within(va, size) ==
  {w \in DOMAIN mapping : ~Disjoint(va, size, w, BlockSize[mapping[w]])}

(* The range is mapped throughout, and no mapping reaches out of it.       *)
FullyMapped(va, size) ==
  /\ \A w \in Within(va, size) : va <= w /\ w + BlockSize[mapping[w]] <= va + size
  /\ size = Total([w \in Within(va, size) |-> BlockSize[mapping[w]]])

(* cuMemMap refuses what is not reserved or overlaps a mapping. *)
Mappable(va, size) ==
  /\ \E w \in DOMAIN reserved : w <= va /\ va + size <= w + reserved[w]
  /\ Within(va, size) = {}

memMap(va, h) == mapping' = AddRange(mapping, va, h) /\ access' = AddRange(access, va, {})

(* cuMemUnmap removes whole mappings, and nothing from a range that is not *)
(* mapped throughout: it then returns an error.                            *)
memUnmap(va, size) ==
  LET gone == IF FullyMapped(va, size) THEN Within(va, size) ELSE {}
  IN /\ mapping' = Restrict(mapping, DOMAIN mapping \ gone)
     /\ access' = Restrict(access, DOMAIN access \ gone)

(* cuMemSetAccess of a range that is mapped throughout. *)
Grant(va, size, devices) ==
  [w \in DOMAIN access |-> IF w \in Within(va, size) THEN devices ELSE access[w]]

-----------------------------------------------------------------------------
(* allocate *)

(* computeLayout and memAddressReserve, without a lock. *)
Reserve(t, request) ==
  LET layout == computeLayout(request)
      total == LayoutBytes(layout)
  IN /\ InStep(t, "idle")
     /\ \E va \in Addresses :
          /\ va + total <= VASize /\ va \notin DOMAIN reserved
          /\ \A w \in DOMAIN reserved : Disjoint(va, total, w, reserved[w])
          /\ reserved' = AddRange(reserved, va, total)
          /\ call' = [call EXCEPT ![t] = Begin(va, total, layout, <<>>, 0, "map")]
     /\ UNCHANGED <<mu_, live, peer_devices_, mapping, access, taken>>

(* One turn of the mapping loop; the first one takes mu_. *)
MapBlock(t) ==
  /\ InStep(t, "map") /\ call[t].todo # <<>>
  /\ mu_ \in {NoThread, t} /\ mu_' = t
  /\ LET c == call[t]
         size == Head(c.todo)
         va == c.va + c.offset
     IN \E h \in Handles \ taken :
          /\ BlockSize[h] = size /\ Mappable(va, size)
          /\ taken' = taken \union {h}
          /\ memMap(va, h)
          /\ call' = [call EXCEPT ![t].todo = Tail(@), ![t].blocks = Append(@, h),
                        ![t].num_mapped = @ + 1, ![t].offset = @ + size]
  /\ UNCHANGED <<live, peer_devices_, reserved>>

(* The turn that fails: no block, or a block that cannot be mapped; or     *)
(* setAccess fails after the last turn.  The handler then undoes it all.   *)
AllocateFails(t) ==
  /\ InStep(t, "map")
  /\ mu_ \in {NoThread, t} /\ mu_' = t
  /\ LET c == call[t]
         fits == {h \in Handles \ taken : BlockSize[h] = Head(c.todo)}
     IN \/ /\ c.todo # <<>>
           /\ fits = {} \/ "create" \in Faults
           /\ call' = [call EXCEPT ![t].step = "unmap", ![t].offset = 0]
           /\ UNCHANGED taken
        \/ /\ c.todo # <<>>
           /\ "map" \in Faults \/ ~Mappable(c.va + c.offset, Head(c.todo))
           /\ \E h \in fits :
                /\ taken' = taken \union {h}
                /\ call' = [call EXCEPT ![t].step = "unmap", ![t].offset = 0,
                                        ![t].blocks = Append(@, h)]
        \/ /\ c.todo = <<>> /\ "access" \in Faults
           /\ call' = [call EXCEPT ![t].step = "unmap", ![t].offset = 0]
           /\ UNCHANGED taken
  /\ UNCHANGED <<live, peer_devices_, driver>>

BugFirst_setAccess(va, size) ==        \* mutant: only the first block is opened
  access' = Grant(va, BlockSize[mapping[va]], {device_} \union peer_devices_)

setAccess(va, size) ==
  access' = Grant(va, size, {device_} \union peer_devices_)

(* setAccess goes through and the allocation is recorded; mu_ is released. *)
Record(t) ==
  /\ InStep(t, "map") /\ call[t].todo = <<>>
  /\ LET c == call[t]
     IN /\ setAccess(c.va, c.size)
        /\ allocs_' = AddRange(allocs_, c.va, c.size)
        /\ alloc_blocks' = AddRange(alloc_blocks, c.va, c.blocks)
        /\ allocated_bytes_' = allocated_bytes_ + c.size
  /\ call' = [call EXCEPT ![t] = NoCall]
  /\ mu_' = NoThread
  /\ UNCHANGED <<peer_devices_, reserved, mapping, taken>>

-----------------------------------------------------------------------------
(* free, and what it shares with the exception handler of allocate *)

(* free takes the record out under mu_. *)
FreeErase(t, va) ==
  /\ InStep(t, "idle") /\ mu_ = NoThread /\ va \in DOMAIN allocs_
  /\ allocs_' = RemoveRange(allocs_, va)
  /\ alloc_blocks' = RemoveRange(alloc_blocks, va)
  /\ allocated_bytes_' = allocated_bytes_ - allocs_[va]
  /\ call' = [call EXCEPT ![t] =
       Begin(va, allocs_[va], <<>>, alloc_blocks[va], Len(alloc_blocks[va]), "unmap")]
  /\ UNCHANGED <<mu_, peer_devices_, driver, taken>>

Bug_UnmapBlock(t) ==                   \* mutant: the offset does not advance
  /\ InStep(t, "unmap") /\ call[t].blocks # <<>>
  /\ LET c == call[t]
     IN \/ /\ c.num_mapped > 0
           /\ memUnmap(c.va + c.offset, BlockSize[Head(c.blocks)])
           /\ call' = [call EXCEPT ![t].step = "return", ![t].num_mapped = @ - 1]
        \/ /\ c.num_mapped = 0
           /\ call' = [call EXCEPT ![t].step = "return"]
           /\ UNCHANGED <<mapping, access>>
  /\ UNCHANGED <<mu_, live, peer_devices_, reserved, taken>>

(* memUnmap of the next block, if it had been mapped; its result is not    *)
(* looked at.                                                              *)
UnmapBlock(t) ==
  /\ InStep(t, "unmap") /\ call[t].blocks # <<>>
  /\ LET c == call[t]
         size == BlockSize[Head(c.blocks)]
     IN \/ /\ c.num_mapped > 0
           /\ memUnmap(c.va + c.offset, size)
           /\ call' = [call EXCEPT ![t].step = "return",
                        ![t].num_mapped = @ - 1, ![t].offset = @ + size]
        \/ /\ c.num_mapped = 0
           /\ call' = [call EXCEPT ![t].step = "return"]
           /\ UNCHANGED <<mapping, access>>
  /\ UNCHANGED <<mu_, live, peer_devices_, reserved, taken>>

Bug_ReturnBlock(t) ==                  \* mutant: the handler stops one block short
  /\ InStep(t, "return")
  /\ taken' = IF mu_ = t /\ Len(call[t].blocks) = 1
              THEN taken ELSE taken \ {Head(call[t].blocks)}
  /\ call' = [call EXCEPT ![t].step = "unmap", ![t].blocks = Tail(@)]
  /\ UNCHANGED <<mu_, live, peer_devices_, driver>>

(* pmm_.freeLargeBlock of the block just unmapped. *)
ReturnBlock(t) ==
  /\ InStep(t, "return")
  /\ taken' = taken \ {Head(call[t].blocks)}
  /\ call' = [call EXCEPT ![t].step = "unmap", ![t].blocks = Tail(@)]
  /\ UNCHANGED <<mu_, live, peer_devices_, driver>>

Bug_ReleaseAddress(t) ==               \* mutant: a failed allocate keeps its range
  /\ InStep(t, "unmap") /\ call[t].blocks = <<>>
  /\ reserved' = IF mu_ = t THEN reserved ELSE RemoveRange(reserved, call[t].va)
  /\ mu_' = IF mu_ = t THEN NoThread ELSE mu_
  /\ call' = [call EXCEPT ![t] = NoCall]
  /\ UNCHANGED <<live, peer_devices_, mapping, access, taken>>

(* memAddressFree, which refuses a range with something mapped in it; a    *)
(* failed allocate, which holds mu_, unlocks and throws.                   *)
ReleaseAddress(t) ==
  /\ InStep(t, "unmap") /\ call[t].blocks = <<>>
  /\ LET c == call[t]
     IN \/ Within(c.va, c.size) = {} /\ reserved' = RemoveRange(reserved, c.va)
        \/ Within(c.va, c.size) # {} /\ UNCHANGED reserved
  /\ mu_' = IF mu_ = t THEN NoThread ELSE mu_
  /\ call' = [call EXCEPT ![t] = NoCall]
  /\ UNCHANGED <<live, peer_devices_, mapping, access, taken>>

-----------------------------------------------------------------------------
Bug_addPeerDevice(peer, ok) ==         \* mutant: the peer is not listed
  /\ mu_ = NoThread
  /\ peer \notin peer_devices_
  /\ access' = [w \in DOMAIN access |->
       IF \E va \in DOMAIN allocs_ : w \in Within(va, allocs_[va])
       THEN access[w] \union {peer} ELSE access[w]]
  /\ UNCHANGED <<mu_, live, peer_devices_, call, reserved, mapping, taken>>

(* addPeerDevice: the peer is listed first, then granted range by range in *)
(* the order of a hash table.  It throws (~ok) at a range the driver       *)
(* refuses, and leaves the peer listed and the other ranges as they are.   *)
addPeerDevice(peer, ok) ==
  LET grantable == {va \in DOMAIN allocs_ : FullyMapped(va, allocs_[va])}
  IN /\ mu_ = NoThread
     /\ peer \notin peer_devices_
     /\ peer_devices_' = peer_devices_ \union {peer}
     /\ \E granted \in SUBSET grantable :
          /\ IF ok THEN granted = DOMAIN allocs_
             ELSE grantable # DOMAIN allocs_ \/ "grant" \in Faults
          /\ access' = [w \in DOMAIN access |->
               IF \E va \in granted : w \in Within(va, allocs_[va])
               THEN access[w] \union {peer} ELSE access[w]]
     /\ UNCHANGED <<mu_, live, call, reserved, mapping, taken>>

Step(t) ==
  \/ \E request \in Requests : Reserve(t, request)
  \/ MapBlock(t) \/ AllocateFails(t) \/ Record(t)
  \/ \E va \in DOMAIN allocs_ : FreeErase(t, va)
  \/ UnmapBlock(t) \/ ReturnBlock(t) \/ ReleaseAddress(t)

Next ==
  \/ \E t \in Threads : Step(t)
  \/ \E peer \in Peers, ok \in BOOLEAN : addPeerDevice(peer, ok)

Spec == Init /\ [][Next]_vars

-----------------------------------------------------------------------------
Calls == {t \in Threads : ~InStep(t, "idle")}

TypeOK ==
  /\ mu_ \in Threads \union {NoThread}
  /\ DOMAIN allocs_ \subseteq Addresses /\ DOMAIN alloc_blocks = DOMAIN allocs_
  /\ \A va \in DOMAIN alloc_blocks : alloc_blocks[va] \in Seq(Handles)
  /\ peer_devices_ \subseteq Peers
  /\ DOMAIN call = Threads
  /\ \A t \in Threads :
       /\ DOMAIN call[t] = {"va", "size", "todo", "blocks", "num_mapped", "offset", "step"}
       /\ call[t].step \in {"idle", "map", "unmap", "return"}
       /\ call[t].blocks \in Seq(Handles)
       /\ InStep(t, "idle") => call[t] = NoCall
       /\ ~InStep(t, "idle") => call[t].va \in Addresses
  /\ DOMAIN reserved \subseteq Addresses
  /\ DOMAIN access = DOMAIN mapping
  /\ \A w \in DOMAIN mapping :
       mapping[w] \in DOMAIN BlockSize /\ access[w] \subseteq {device_} \union Peers
  /\ taken \subseteq Handles

(* The blocks of a live allocation, and those a call still answers for: in *)
(* step "unmap" after a "return" the head of its blocks has gone back.     *)
LiveHolds(va) == Range(alloc_blocks[va])
CallHolds(t) == Range(call[t].blocks)

(* A block is returned to the PhysicalMemoryManager exactly once: each one *)
(* it has handed out is held in one place, by a live allocation or by the  *)
(* allocate or free that works on it, however a call fails.                *)
BlocksOwned ==
  /\ taken = (UNION {LiveHolds(va) : va \in DOMAIN allocs_})
               \union (UNION {CallHolds(t) : t \in Threads})
  /\ \A va \in DOMAIN allocs_ : IsInjective(alloc_blocks[va])
  /\ \A t \in Calls : IsInjective(call[t].blocks)
  /\ \A va, w \in DOMAIN allocs_ : va # w => LiveHolds(va) \intersect LiveHolds(w) = {}
  /\ \A t, u \in Threads : t # u => CallHolds(t) \intersect CallHolds(u) = {}
  /\ \A va \in DOMAIN allocs_, t \in Threads : LiveHolds(va) \intersect CallHolds(t) = {}

(* No two addresses reach the same block, and a block the manager may hand *)
(* out again is mapped nowhere: free unmaps before it returns a block, so  *)
(* the next owner shares it with nobody.                                   *)
NoStaleMapping ==
  /\ IsInjective(mapping)
  /\ Range(mapping) \subseteq taken

(* Address space: exactly the ranges of live allocations and of calls that *)
(* are on their way are reserved, whatever failed before, and no two calls *)
(* or allocations share one; allocated_bytes_ is the bytes of the former.  *)
AddressesOwned ==
  /\ DOMAIN reserved = DOMAIN allocs_ \union {call[t].va : t \in Calls}
  /\ \A t \in Calls : call[t].va \notin DOMAIN allocs_
  /\ \A t, u \in Calls : t # u => call[t].va # call[u].va
  /\ PairwiseDisjoint(reserved)
  /\ allocated_bytes_ = Total(allocs_)

(* What allocate reserves fits the request, at the boundaries of the        *)
(* classes and between them (large_allocator.cc:161-187): it is the size    *)
(* rounded up to the smallest class, the whole multiple of that class below *)
(* the size in the fewest blocks, and what is left in one smallest block,   *)
(* even where one larger block would cover both: 3 is packed as 2 and 2.    *)
PackedTightly ==
  [][\A t \in Threads, request \in Requests :
       Reserve(t, request) => IsTight(call'[t].todo, request)]_vars

(* Bytes the device can use, and the promise of a range allocator kept.    *)
UsableBytes ==
  {x \in 0..(VASize - 1) : \E w \in DOMAIN mapping :
     w <= x /\ x < w + BlockSize[mapping[w]] /\ device_ \in access[w]}
Abstract == INSTANCE RangeAllocator WITH
  VASize <- VASize, PageSize <- 1, Pages <- 0..(VASize - 1),
  live <- allocs_, usable <- UsableBytes
ImplementsRangeAllocator == Abstract!Spec
=============================================================================
