----------------------------- MODULE MemoryAccess -----------------------------
(***************************************************************************)
(* The two operations that change mappings and access rights next to the   *)
(* allocators: enablePeerAccess (csrc/vmm_allocator.cc), which registers a *)
(* peer and then calls both sub-allocators without peers_mu, and vmmRemap  *)
(* (csrc/substitution.cc), which swaps the physical memory of a range      *)
(* through the driver, without a lock and without any allocator's          *)
(* knowledge.  They run next to the operations of LargeAllocator.          *)
(*                                                                         *)
(* Of the SmallAllocator only the peers it serves matter here: small_peers *)
(* is what SmallAllocator!PeersSeeAll promises.  External: the program     *)
(* remaps ranges it holds to handles it created, not yet mapped elsewhere, *)
(* and neither frees nor remaps a range while it is being remapped.        *)
(***************************************************************************)
EXTENDS LargeAllocator

CONSTANT Foreign   \* handles of the program, with a BlockSize

ASSUME ForeignAssumption ==
  /\ Foreign \subseteq DOMAIN BlockSize /\ Foreign \intersect Handles = {}
  /\ IsFiniteSet(Foreign)

VARIABLES
  registered,     \* PerDeviceState::peer_devices
  small_peers,    \* peers the SmallAllocator has opened all its pages to
  enable,         \* thread -> enablePeerAccess in progress, or NoOp
  remap,          \* thread -> vmmRemap in progress, or NoOp
  refused,        \* history: peers whose registering call threw
  remapped        \* history: live ranges some vmmRemap has changed

peer_vars == <<registered, small_peers, enable, refused>>
remap_vars == <<remap, remapped>>
all_vars == <<vars, peer_vars, remap_vars>>

NoOp == [step |-> "idle"]   \* no enablePeerAccess or vmmRemap in progress

MAInit ==
  /\ Init
  /\ registered = {} /\ small_peers = {} /\ refused = {}
  /\ enable = [t \in Threads |-> NoOp] /\ remap = [t \in Threads |-> NoOp]
  /\ remapped = {}

Idle(t) == InStep(t, "idle") /\ enable[t] = NoOp /\ remap[t] = NoOp
Remapping == {remap[t].va : t \in {u \in Threads : remap[u] # NoOp}}

-----------------------------------------------------------------------------
(* enablePeerAccess *)

Enabling(t, step) == enable[t].step = step

(* The peer is registered under peers_mu.  For a peer that is registered   *)
(* already the call returns here, and changes nothing.                     *)
EnableRegister(t, dev) ==
  /\ Idle(t) /\ dev \notin registered
  /\ registered' = registered \union {dev}
  /\ enable' = [enable EXCEPT ![t] = [dev |-> dev, step |-> "small"]]
  /\ UNCHANGED <<vars, small_peers, refused, remap_vars>>

(* small_alloc->addPeerDevice; when it throws, so does enablePeerAccess. *)
EnableSmall(t) ==
  /\ Enabling(t, "small")
  /\ \/ /\ small_peers' = small_peers \union {enable[t].dev}
        /\ enable' = [enable EXCEPT ![t].step = "large"]
        /\ UNCHANGED refused
     \/ /\ "grant" \in Faults
        /\ refused' = refused \union {enable[t].dev}
        /\ enable' = [enable EXCEPT ![t] = NoOp]
        /\ UNCHANGED small_peers
  /\ UNCHANGED <<vars, registered, remap_vars>>

(* large_alloc->addPeerDevice. *)
EnableLarge(t) ==
  /\ Enabling(t, "large")
  /\ \E ok \in BOOLEAN :
       /\ addPeerDevice(enable[t].dev, ok)
       /\ refused' = IF ok THEN refused ELSE refused \union {enable[t].dev}
  /\ enable' = [enable EXCEPT ![t] = NoOp]
  /\ UNCHANGED <<registered, small_peers, remap_vars>>

-----------------------------------------------------------------------------
(* vmmRemap *)

RemapStep(t, step) == remap[t].step = step
RemapGoto(t, step) == remap' = [remap EXCEPT ![t].step = step]
RemapReturn(t) == remap' = [remap EXCEPT ![t] = NoOp]

HandleSizes(new) == Total([i \in DOMAIN new |-> BlockSize[new[i]]])
InUse == Range(mapping)
         \union UNION {Range(remap[t].new) : t \in {u \in Threads : remap[u] # NoOp}}

(* The argument checks; `peers` are those the caller names. *)
RemapBegin(t, va, new, peers) ==
  /\ Idle(t) /\ va \in DOMAIN allocs_ \ Remapping
  /\ new # <<>> /\ IsInjective(new) /\ Range(new) \intersect InUse = {}
  /\ HandleSizes(new) = allocs_[va]
  /\ remap' = [remap EXCEPT ![t] =
       [va |-> va, size |-> allocs_[va], new |-> new, peers |-> peers,
        num_mapped |-> 0, offset |-> 0, step |-> "unmap"]]
  /\ UNCHANGED <<vars, peer_vars, remapped>>

(* 1. memUnmap of the whole range, which fails if part of it is unmapped.  *)
RemapUnmap(t) ==
  LET r == remap[t]
  IN /\ RemapStep(t, "unmap")
     /\ memUnmap(r.va, r.size)
     /\ IF FullyMapped(r.va, r.size)
        THEN RemapGoto(t, "map") /\ remapped' = remapped \union {r.va}
        ELSE RemapReturn(t) /\ UNCHANGED remapped
     /\ UNCHANGED <<mu_, live, peer_devices_, call, reserved, taken, peer_vars>>

(* 2. memMap of the next handle, or the exception handler after a failure. *)
RemapMap(t) ==
  LET r == remap[t]
      h == r.new[r.num_mapped + 1]
  IN /\ RemapStep(t, "map") /\ r.num_mapped < Len(r.new)
     /\ \/ /\ Mappable(r.va + r.offset, BlockSize[h])
           /\ memMap(r.va + r.offset, h)
           /\ remap' = [remap EXCEPT ![t].num_mapped = @ + 1,
                                     ![t].offset = @ + BlockSize[h]]
        \/ /\ "remap" \in Faults \/ ~Mappable(r.va + r.offset, BlockSize[h])
           /\ remap' = [remap EXCEPT ![t].step = "rollback", ![t].offset = 0,
                                     ![t].new = SubSeq(@, 1, r.num_mapped)]
           /\ UNCHANGED <<mapping, access>>
     /\ UNCHANGED <<mu_, live, peer_devices_, call, reserved, taken, peer_vars, remapped>>

Bug_RemapRollback(t) ==                \* mutant: one handle fewer is unmapped
  LET r == remap[t]
  IN /\ RemapStep(t, "rollback")
     /\ IF Len(r.new) <= 1
        THEN RemapReturn(t) /\ UNCHANGED <<mapping, access>>
        ELSE /\ memUnmap(r.va + r.offset, BlockSize[Head(r.new)])
             /\ remap' = [remap EXCEPT ![t].new = Tail(@),
                                       ![t].offset = @ + BlockSize[Head(r.new)]]
     /\ UNCHANGED <<mu_, live, peer_devices_, call, reserved, taken, peer_vars, remapped>>

(* The handler unmaps what it mapped, one handle after the other, and      *)
(* throws; the loop over old_handles does nothing (substitution.cc:86).    *)
RemapRollback(t) ==
  LET r == remap[t]
  IN /\ RemapStep(t, "rollback")
     /\ IF r.new = <<>>
        THEN RemapReturn(t) /\ UNCHANGED <<mapping, access>>
        ELSE /\ memUnmap(r.va + r.offset, BlockSize[Head(r.new)])
             /\ remap' = [remap EXCEPT ![t].new = Tail(@),
                                       ![t].offset = @ + BlockSize[Head(r.new)]]
     /\ UNCHANGED <<mu_, live, peer_devices_, call, reserved, taken, peer_vars, remapped>>

(* 3. memSetAccess for the device and the peers named; it may fail. *)
RemapAccess(t) ==
  LET r == remap[t]
  IN /\ RemapStep(t, "map") /\ r.num_mapped = Len(r.new)
     /\ \/ FullyMapped(r.va, r.size) /\ access' = Grant(r.va, r.size, {device_} \union r.peers)
        \/ "remap" \in Faults /\ UNCHANGED access
     /\ RemapReturn(t)
     /\ UNCHANGED <<mu_, live, peer_devices_, call, reserved, mapping, taken,
                    peer_vars, remapped>>

-----------------------------------------------------------------------------
(* A step of the LargeAllocator by a thread that does nothing else; the    *)
(* program does not free a range under remap.                              *)
LargeStep(t) ==
  /\ enable[t] = NoOp /\ remap[t] = NoOp
  /\ Step(t)
  /\ Remapping \subseteq DOMAIN allocs_'
  /\ remapped' = remapped \intersect DOMAIN allocs_'
  /\ UNCHANGED <<peer_vars, remap>>

RemapArgs == {new \in SeqOf(Foreign, Cardinality(Foreign)) : new # <<>> /\ IsInjective(new)}

MANext ==
  \E t \in Threads :
    \/ LargeStep(t)
    \/ \E dev \in Peers : EnableRegister(t, dev)
    \/ EnableSmall(t) \/ EnableLarge(t)
    \/ \E va \in DOMAIN allocs_, new \in RemapArgs, peers \in {{}, peer_devices_} :
         RemapBegin(t, va, new, peers)
    \/ RemapUnmap(t) \/ RemapMap(t) \/ RemapRollback(t) \/ RemapAccess(t)

MASpec == MAInit /\ [][MANext]_all_vars

-----------------------------------------------------------------------------
(* "existing and future VMM mappings on dev_to_access are accessible from  *)
(* dev" (zcg/memory.py:69): once the call that registered a peer has       *)
(* returned, all memory the allocators handed out is open to the peer,     *)
(* whatever was allocated meanwhile, except what vmmRemap mapped anew.     *)
PeerReached ==
  \A dev \in registered \ refused :
    \/ \E t \in Threads : enable[t] # NoOp /\ enable[t].dev = dev
    \/ /\ dev \in small_peers
       /\ \A va \in DOMAIN allocs_ \ remapped : \A w \in Within(va, allocs_[va]) :
            dev \in access[w]

(* Between two remaps, a range that no vmmRemap has changed is backed by   *)
(* its own blocks, whatever was mapped elsewhere meanwhile, and a changed  *)
(* one by handles of the program that fill it, or, after a remap that      *)
(* threw, by nothing: no first part of the new handles is left behind, and *)
(* the handler unmaps no more than was mapped (substitution.cc:63-80).     *)
RemapNeverMixed ==
  \A va \in DOMAIN allocs_ \ Remapping :
    LET backing == {mapping[w] : w \in Within(va, allocs_[va])}
    IN \/ va \in remapped /\ backing = {}
       \/ va \in remapped /\ backing \subseteq Foreign /\ FullyMapped(va, allocs_[va])
       \/ va \notin remapped /\ backing = LiveHolds(va) /\ FullyMapped(va, allocs_[va])

(* A remap is promised to be atomic (DESIGN.md:178), and its handler says  *)
(* it tries to map the old handles again, "to restore the original state"  *)
(* (substitution.cc:82): when no remap is under way every live range is    *)
(* mapped from end to end, by its own blocks or by the new handles.        *)
RemapAtomic ==
  \A va \in DOMAIN allocs_ \ Remapping : FullyMapped(va, allocs_[va])

(* No physical memory is reached through two addresses, and a block the    *)
(* manager may hand out again is mapped nowhere, remapped ranges included. *)
NoStaleRemap ==
  /\ IsInjective(mapping)
  /\ Range(mapping) \subseteq taken \union Foreign
=============================================================================
