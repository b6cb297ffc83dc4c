------------------------- MODULE LargeAllocatorProofs -------------------------
(***************************************************************************)
(* Proofs about LargeAllocator, and about MemoryAccess, which runs         *)
(* enablePeerAccess and vmmRemap next to it, for every set of threads,     *)
(* blocks, handles, block classes, addresses, request sizes, peers and     *)
(* faults.  The first part is about the LargeAllocator alone; the second,  *)
(* from "MemoryAccess" on, about the three together.                       *)
(***************************************************************************)
EXTENDS MemoryAccess, BlockLayoutProofs

-----------------------------------------------------------------------------
(* Sequences of blocks *)

(* The blocks of a call after allocLargeBlock handed it one more.          *)
LEMMA BlockAppended ==
  ASSUME NEW S, NEW s \in Seq(S), NEW h \in S
  PROVE  /\ Append(s, h) \in Seq(S)
         /\ Range(Append(s, h)) = Range(s) \union {h}
         /\ IsInjective(s) /\ h \notin Range(s) => IsInjective(Append(s, h))
<1>1. /\ Append(s, h) \in Seq(S)
      /\ Len(s) \in Nat
      /\ DOMAIN s = 1..Len(s)
      /\ DOMAIN Append(s, h) = 1..(Len(s) + 1)
      /\ \A i \in 1..Len(s) : Append(s, h)[i] = s[i]
      /\ Append(s, h)[Len(s) + 1] = h
  OBVIOUS
<1>2. \A i \in 1..(Len(s) + 1) : i \in 1..Len(s) \/ i = Len(s) + 1
  BY <1>1
<1>3. Len(s) + 1 \in 1..(Len(s) + 1) /\ \A i \in 1..Len(s) : i \in 1..(Len(s) + 1)
  BY <1>1
<1>4. Range(Append(s, h)) = Range(s) \union {h}
  BY <1>1, <1>2, <1>3 DEF Range
<1>5. ASSUME IsInjective(s), h \notin Range(s) PROVE IsInjective(Append(s, h))
  BY <1>1, <1>2, <1>5 DEF IsInjective, Range
<1>q. QED BY <1>1, <1>4, <1>5

(* ... and after it returned the first of them.                            *)
LEMMA BlockDropped ==
  ASSUME NEW S, NEW s \in Seq(S), s # <<>>
  PROVE  /\ Tail(s) \in Seq(S)
         /\ Head(s) \in Range(s)
         /\ Range(s) = Range(Tail(s)) \union {Head(s)}
         /\ IsInjective(s) => IsInjective(Tail(s)) /\ Head(s) \notin Range(Tail(s))
<1>1. /\ Tail(s) \in Seq(S)
      /\ Len(s) \in Nat /\ Len(s) > 0
      /\ DOMAIN s = 1..Len(s)
      /\ DOMAIN Tail(s) = 1..(Len(s) - 1)
      /\ \A i \in 1..(Len(s) - 1) : Tail(s)[i] = s[i + 1]
      /\ Head(s) = s[1]
  OBVIOUS
<1>2. /\ \A i \in 1..Len(s) : i = 1 \/ (i - 1 \in 1..(Len(s) - 1) /\ (i - 1) + 1 = i)
      /\ \A i \in 1..(Len(s) - 1) : i + 1 \in 1..Len(s) /\ i + 1 # 1
      /\ 1 \in 1..Len(s)
  BY <1>1
<1>3. Range(s) = Range(Tail(s)) \union {Head(s)}
  <2>1. ASSUME NEW i \in 1..Len(s), i # 1 PROVE s[i] \in Range(Tail(s))
    <3>1. i - 1 \in DOMAIN Tail(s) /\ Tail(s)[i - 1] = s[i]
      BY <1>1, <1>2, <2>1
    <3>q. QED BY <3>1 DEF Range
  <2>2. ASSUME NEW i \in DOMAIN Tail(s) PROVE Tail(s)[i] \in Range(s)
    <3>1. i + 1 \in DOMAIN s /\ Tail(s)[i] = s[i + 1]
      BY <1>1, <1>2, <2>2
    <3>q. QED BY <3>1 DEF Range
  <2>3. \A x \in Range(s) : x = Head(s) \/ x \in Range(Tail(s))
    BY <1>1, <2>1 DEF Range
  <2>4. \A x \in Range(Tail(s)) : x \in Range(s)
    BY <2>2 DEF Range
  <2>5. Head(s) \in Range(s)
    BY <1>1, <1>2 DEF Range
  <2>q. QED BY <2>3, <2>4, <2>5
<1>4. ASSUME IsInjective(s) PROVE IsInjective(Tail(s)) /\ Head(s) \notin Range(Tail(s))
  <2>1. \A i, j \in 1..(Len(s) - 1) : i + 1 = j + 1 => i = j
    BY <1>1
  <2>q. QED BY <1>1, <1>2, <1>4, <2>1 DEF IsInjective, Range
<1>5. Head(s) \in Range(s)
  BY <1>3
<1>q. QED BY <1>1, <1>3, <1>4, <1>5

LEMMA NoBlocks == /\ <<>> \in Seq(Handles) /\ Range(<<>>) = {} /\ IsInjective(<<>>)
  BY DEF Range, IsInjective

-----------------------------------------------------------------------------
(* BlocksOwned, block by block. *)
Owned ==
  /\ \A h : h \in taken <=> \/ \E va \in DOMAIN allocs_ : h \in LiveHolds(va)
                          \/ \E t \in Threads : h \in CallHolds(t)
  /\ \A va \in DOMAIN allocs_ : IsInjective(alloc_blocks[va])
  /\ \A t \in Threads : IsInjective(call[t].blocks)
  /\ \A va, w \in DOMAIN allocs_ : va # w => \A h : ~ (h \in LiveHolds(va) /\ h \in LiveHolds(w))
  /\ \A t, u \in Threads : t # u => \A h : ~ (h \in CallHolds(t) /\ h \in CallHolds(u))
  /\ \A va \in DOMAIN allocs_, t \in Threads : \A h : ~ (h \in LiveHolds(va) /\ h \in CallHolds(t))

(* Record must not overwrite a live allocation: no two calls, and no call  *)
(* and a live allocation, work on one reserved address.                    *)
Homes ==
  /\ DOMAIN allocs_ \subseteq DOMAIN reserved
  /\ \A t \in Calls : call[t].va \in DOMAIN reserved /\ call[t].va \notin DOMAIN allocs_
  /\ \A t, u \in Calls : t # u => call[t].va # call[u].va
  /\ \A t \in Threads : InStep(t, "return") => call[t].blocks # <<>>

LargeInv == TypeOK /\ Owned /\ Homes

LEMMA OwnedIsBlocksOwned == Owned => BlocksOwned
  BY DEF Owned, BlocksOwned, Calls

LEMMA InitLarge == Init => LargeInv
<1> SUFFICES ASSUME Init PROVE LargeInv OBVIOUS
<1> USE NoBlocks DEF Init, EmptyMap
<1>1. TypeOK
  BY DEF TypeOK, InStep, NoCall, Begin
<1>2. Owned
  BY DEF Owned, CallHolds, NoCall, Begin
<1>3. Homes
  BY DEF Homes, Calls, InStep, NoCall, Begin
<1>q. QED BY <1>1, <1>2, <1>3 DEF LargeInv

(* A step after which call t holds the blocks of c and nothing else has    *)
(* changed hands: it may take free blocks and return its own.              *)
LEMMA CallStepOwned ==
  ASSUME TypeOK, Owned, NEW t \in Threads, NEW c,
         call' = [call EXCEPT ![t] = c],
         UNCHANGED <<allocs_, alloc_blocks>>,
         IsInjective(c.blocks),
         taken' = (taken \ CallHolds(t)) \union Range(c.blocks),
         Range(c.blocks) \intersect (taken \ CallHolds(t)) = {}
  PROVE  Owned'
<1>1. /\ call'[t] = c
      /\ \A u \in Threads : u # t => call'[u] = call[u]
  BY DEF TypeOK
<1>2. /\ CallHolds(t)' = Range(c.blocks)
      /\ \A u \in Threads : u # t => CallHolds(u)' = CallHolds(u)
      /\ \A va \in DOMAIN allocs_ : LiveHolds(va)' = LiveHolds(va)
  BY <1>1 DEF CallHolds, LiveHolds
<1>3. \A u \in Threads : IsInjective(call'[u].blocks)
  BY <1>1 DEF Owned
<1>4. \A h : h \in taken' <=> \/ \E va \in DOMAIN allocs_' : h \in LiveHolds(va)'
                            \/ \E u \in Threads : h \in CallHolds(u)'
  BY <1>2 DEF Owned
<1>5. \A u, v \in Threads : u # v => \A h : ~ (h \in CallHolds(u)' /\ h \in CallHolds(v)')
  BY <1>2 DEF Owned
<1>6. \A va \in DOMAIN allocs_', u \in Threads :
        \A h : ~ (h \in LiveHolds(va)' /\ h \in CallHolds(u)')
  BY <1>2 DEF Owned
<1>7. /\ \A va \in DOMAIN allocs_' : IsInjective(alloc_blocks'[va])
      /\ \A va, w \in DOMAIN allocs_' :
           va # w => \A h : ~ (h \in LiveHolds(va)' /\ h \in LiveHolds(w)')
  BY <1>2 DEF Owned
<1>q. QED BY <1>3, <1>4, <1>5, <1>6, <1>7 DEF Owned

CallRecord(c) ==
  /\ DOMAIN c = {"va", "size", "todo", "blocks", "num_mapped", "offset", "step"}
  /\ c.step \in {"map", "unmap", "return"}
  /\ c.blocks \in Seq(Handles)
  /\ c.va \in Addresses

(* The same for types and addresses, when t keeps the address it works on. *)
LEMMA CallStepHomes ==
  ASSUME TypeOK, Homes, NEW t \in Threads, NEW c,
         ~ InStep(t, "idle"), CallRecord(c), c.va = call[t].va,
         c.step = "return" => c.blocks # <<>>,
         call' = [call EXCEPT ![t] = c],
         UNCHANGED <<allocs_, alloc_blocks, peer_devices_, reserved>>,
         mu_' \in Threads \union {NoThread}, taken' \subseteq Handles,
         DOMAIN access' = DOMAIN mapping',
         \A w \in DOMAIN mapping' :
           mapping'[w] \in DOMAIN BlockSize /\ access'[w] \subseteq {device_} \union Peers
  PROVE  TypeOK' /\ Homes'
<1>1. /\ DOMAIN call' = Threads /\ call'[t] = c
      /\ \A u \in Threads : u # t => call'[u] = call[u]
  BY DEF TypeOK
<1>2. ~ InStep(t, "idle")' /\ Calls' = Calls
  BY <1>1 DEF Calls, InStep, CallRecord
<1>3. \A u \in Threads : call'[u].va = call[u].va
  BY <1>1
<1>4. TypeOK'
  BY <1>1, <1>2 DEF TypeOK, CallRecord, InStep
<1>5. \A u \in Threads : InStep(u, "return")' => call'[u].blocks # <<>>
  BY <1>1 DEF Homes, InStep
<1>q. QED BY <1>2, <1>3, <1>4, <1>5 DEF Homes, Calls

-----------------------------------------------------------------------------
(* The operations, one by one *)

LEMMA MappingsTyped ==
  ASSUME TypeOK
  PROVE  /\ \A va, size : memUnmap(va, size) =>
              /\ DOMAIN access' = DOMAIN mapping'
              /\ \A w \in DOMAIN mapping' :
                   mapping'[w] \in DOMAIN BlockSize /\ access'[w] \subseteq {device_} \union Peers
         /\ \A va : \A h \in Handles : memMap(va, h) =>
              /\ DOMAIN access' = DOMAIN mapping'
              /\ \A w \in DOMAIN mapping' :
                   mapping'[w] \in DOMAIN BlockSize /\ access'[w] \subseteq {device_} \union Peers
         /\ UNCHANGED <<mapping, access>> =>
              /\ DOMAIN access' = DOMAIN mapping'
              /\ \A w \in DOMAIN mapping' :
                   mapping'[w] \in DOMAIN BlockSize /\ access'[w] \subseteq {device_} \union Peers
  BY PlacesAssumption DEF TypeOK, memUnmap, memMap, Restrict, AddRange

LEMMA ReserveStep ==
  ASSUME LargeInv, NEW t \in Threads, NEW request \in Requests, Reserve(t, request)
  PROVE  LargeInv'
<1> USE DEF LargeInv
<1> DEFINE layout == computeLayout(request)
           total == LayoutBytes(layout)
<1>1. PICK va \in Addresses :
        /\ va \notin DOMAIN reserved
        /\ reserved' = AddRange(reserved, va, total)
        /\ call' = [call EXCEPT ![t] = Begin(va, total, layout, <<>>, 0, "map")]
  BY DEF Reserve
<1>2. /\ InStep(t, "idle")
      /\ UNCHANGED <<mu_, live, peer_devices_, mapping, access, taken>>
  BY DEF Reserve
<1> HIDE DEF layout, total
<1> DEFINE c == Begin(va, total, layout, <<>>, 0, "map")
<1>3. CallRecord(c) /\ c.blocks = <<>> /\ c.va = va /\ c.step = "map"
  BY NoBlocks DEF CallRecord, Begin
<1>4. CallHolds(t) = {}
  BY <1>2, NoBlocks DEF TypeOK, CallHolds, NoCall, Begin
<1> HIDE DEF c
<1>5. Owned'
  BY <1>1, <1>2, <1>3, <1>4, CallStepOwned, NoBlocks DEF live, c
<1>6. /\ DOMAIN call' = Threads /\ call'[t] = c
      /\ \A u \in Threads : u # t => call'[u] = call[u]
  BY <1>1 DEF TypeOK, c
<1>7. DOMAIN reserved' = DOMAIN reserved \union {va}
  BY <1>1 DEF AddRange
<1>8. TypeOK'
  BY <1>2, <1>3, <1>6, <1>7 DEF TypeOK, InStep, live, CallRecord
<1>9. Homes'
  <2>1. Calls' = Calls \union {t} /\ t \notin Calls
    BY <1>2, <1>3, <1>6 DEF Calls, InStep
  <2>2. \A u \in Calls : u # t /\ call'[u].va = call[u].va /\ call[u].va # va
    BY <1>1, <1>6, <2>1 DEF Homes, Calls
  <2>3. \A u \in Threads : InStep(u, "return")' => call'[u].blocks # <<>>
    BY <1>3, <1>6 DEF Homes, InStep
  <2>q. QED BY <1>1, <1>2, <1>3, <1>6, <1>7, <2>1, <2>2, <2>3 DEF Homes, live
<1>q. QED BY <1>5, <1>8, <1>9

LEMMA MapBlockStep ==
  ASSUME LargeInv, NEW t \in Threads, MapBlock(t)
  PROVE  LargeInv'
<1> USE DEF LargeInv
<1> DEFINE va == call[t].va + call[t].offset
<1>1. PICK h \in Handles \ taken :
        /\ taken' = taken \union {h}
        /\ memMap(va, h)
        /\ call' = [call EXCEPT ![t].todo = Tail(@), ![t].blocks = Append(@, h),
                      ![t].num_mapped = @ + 1, ![t].offset = @ + Head(call[t].todo)]
  BY DEF MapBlock
<1>2. /\ InStep(t, "map") /\ mu_' = t
      /\ UNCHANGED <<live, peer_devices_, reserved>>
  BY DEF MapBlock
<1> HIDE DEF va
<1> DEFINE c == call'[t]
<1>3. /\ call' = [call EXCEPT ![t] = c]
      /\ c.blocks = Append(call[t].blocks, h) /\ c.va = call[t].va /\ c.step = "map"
      /\ DOMAIN c = DOMAIN call[t]
  BY <1>1, <1>2 DEF TypeOK, InStep
<1> HIDE DEF c
<1>4. call[t].blocks \in Seq(Handles) /\ IsInjective(call[t].blocks)
  BY DEF TypeOK, Owned
<1>5. /\ Range(c.blocks) = CallHolds(t) \union {h} /\ c.blocks \in Seq(Handles)
      /\ IsInjective(c.blocks)
  <2>1. h \notin Range(call[t].blocks)
    BY DEF Owned, CallHolds
  <2>q. QED BY <1>3, <1>4, <2>1, BlockAppended DEF CallHolds
<1>6. CallHolds(t) \subseteq taken
  BY DEF Owned
<1>7. Owned'
  <2>1. /\ taken' = (taken \ CallHolds(t)) \union Range(c.blocks)
        /\ Range(c.blocks) \intersect (taken \ CallHolds(t)) = {}
    BY <1>1, <1>5, <1>6
  <2>q. QED BY <1>2, <1>3, <1>5, <2>1, CallStepOwned DEF live
<1>8. CallRecord(c) /\ ~ InStep(t, "idle")
  BY <1>2, <1>3, <1>5 DEF CallRecord, TypeOK, InStep
<1>9. TypeOK' /\ Homes'
  <2>1. taken' \subseteq Handles /\ mu_' \in Threads \union {NoThread}
    BY <1>1, <1>2 DEF TypeOK
  <2>2. /\ DOMAIN access' = DOMAIN mapping'
        /\ \A w \in DOMAIN mapping' :
             mapping'[w] \in DOMAIN BlockSize /\ access'[w] \subseteq {device_} \union Peers
    BY <1>1, MappingsTyped
  <2>q. QED BY <1>2, <1>3, <1>8, <2>1, <2>2, CallStepHomes DEF live
<1>q. QED BY <1>7, <1>9

(* A step of a call that neither takes nor returns a block. *)
LEMMA KeepStep ==
  ASSUME LargeInv, NEW t \in Threads, NEW c,
         ~ InStep(t, "idle"), CallRecord(c), c.va = call[t].va,
         c.blocks = call[t].blocks, c.step = "return" => c.blocks # <<>>,
         call' = [call EXCEPT ![t] = c],
         UNCHANGED <<allocs_, alloc_blocks, peer_devices_, reserved, taken>>,
         mu_' \in Threads \union {NoThread},
         \/ \E va, size : memUnmap(va, size)
         \/ UNCHANGED <<mapping, access>>
  PROVE  LargeInv'
<1> USE DEF LargeInv
<1>1. CallHolds(t) \subseteq taken /\ IsInjective(call[t].blocks)
  BY DEF Owned
<1>2. /\ taken' = (taken \ CallHolds(t)) \union Range(c.blocks)
      /\ Range(c.blocks) \intersect (taken \ CallHolds(t)) = {}
  BY <1>1 DEF CallHolds
<1>3. Owned'
  BY <1>1, <1>2, CallStepOwned
<1>4. taken' \subseteq Handles
  BY DEF TypeOK
<1>5. /\ DOMAIN access' = DOMAIN mapping'
      /\ \A w \in DOMAIN mapping' :
           mapping'[w] \in DOMAIN BlockSize /\ access'[w] \subseteq {device_} \union Peers
  BY MappingsTyped
<1>6. TypeOK' /\ Homes'
  BY <1>4, <1>5, CallStepHomes
<1>q. QED BY <1>3, <1>6

LEMMA AllocateFailsStep ==
  ASSUME LargeInv, NEW t \in Threads, AllocateFails(t)
  PROVE  LargeInv'
<1> USE DEF LargeInv
<1> DEFINE c == call'[t]
<1>1. /\ InStep(t, "map") /\ ~ InStep(t, "idle") /\ mu_' = t
      /\ UNCHANGED <<live, peer_devices_, driver>>
  BY DEF AllocateFails, InStep
<1>2. CASE /\ call' = [call EXCEPT ![t].step = "unmap", ![t].offset = 0]
           /\ UNCHANGED taken
  <2>1. /\ call' = [call EXCEPT ![t] = c]
        /\ c.blocks = call[t].blocks /\ c.va = call[t].va /\ c.step = "unmap"
        /\ CallRecord(c)
    BY <1>1, <1>2 DEF TypeOK, CallRecord
  <2> HIDE DEF c
  <2>q. QED BY <1>1, <1>2, <2>1, KeepStep DEF live, driver
<1>3. ASSUME NEW h \in Handles \ taken,
             taken' = taken \union {h},
             call' = [call EXCEPT ![t].step = "unmap", ![t].offset = 0,
                                  ![t].blocks = Append(@, h)]
      PROVE  LargeInv'
  <2>1. /\ call' = [call EXCEPT ![t] = c]
        /\ c.blocks = Append(call[t].blocks, h) /\ c.va = call[t].va /\ c.step = "unmap"
        /\ DOMAIN c = DOMAIN call[t]
    BY <1>3 DEF TypeOK
  <2> HIDE DEF c
  <2>2. call[t].blocks \in Seq(Handles) /\ IsInjective(call[t].blocks)
    BY DEF TypeOK, Owned
  <2>3. CallHolds(t) \subseteq taken /\ h \notin Range(call[t].blocks)
    BY DEF Owned, CallHolds
  <2>4. /\ Range(c.blocks) = CallHolds(t) \union {h} /\ c.blocks \in Seq(Handles)
        /\ IsInjective(c.blocks)
    BY <2>1, <2>2, <2>3, BlockAppended DEF CallHolds
  <2>5. /\ taken' = (taken \ CallHolds(t)) \union Range(c.blocks)
        /\ Range(c.blocks) \intersect (taken \ CallHolds(t)) = {}
    BY <1>3, <2>3, <2>4
  <2>6. Owned'
    BY <1>1, <2>1, <2>4, <2>5, CallStepOwned DEF live
  <2>7. CallRecord(c)
    BY <1>1, <2>1, <2>4 DEF CallRecord, TypeOK
  <2>8. /\ DOMAIN access' = DOMAIN mapping'
        /\ \A w \in DOMAIN mapping' :
             mapping'[w] \in DOMAIN BlockSize /\ access'[w] \subseteq {device_} \union Peers
    BY <1>1, MappingsTyped DEF driver
  <2>9. taken' \subseteq Handles
    BY <1>3 DEF TypeOK
  <2>10. TypeOK' /\ Homes'
    BY <1>1, <2>1, <2>7, <2>8, <2>9, CallStepHomes DEF live, driver
  <2>q. QED BY <2>6, <2>10
<1>q. QED BY <1>2, <1>3 DEF AllocateFails

LEMMA UnmapBlockStep ==
  ASSUME LargeInv, NEW t \in Threads, UnmapBlock(t)
  PROVE  LargeInv'
<1> USE DEF LargeInv
<1> DEFINE c == call'[t]
<1>1. /\ InStep(t, "unmap") /\ ~ InStep(t, "idle") /\ call[t].blocks # <<>>
      /\ UNCHANGED <<mu_, live, peer_devices_, reserved, taken>>
  BY DEF UnmapBlock, InStep
<1>2. /\ call' = [call EXCEPT ![t] = c]
      /\ c.blocks = call[t].blocks /\ c.va = call[t].va /\ c.step = "return"
      /\ CallRecord(c)
  BY <1>1 DEF UnmapBlock, TypeOK, CallRecord
<1>3. (\E va, size : memUnmap(va, size)) \/ UNCHANGED <<mapping, access>>
  BY DEF UnmapBlock
<1>4. mu_' \in Threads \union {NoThread}
  BY <1>1 DEF TypeOK
<1> HIDE DEF c
<1>q. QED BY <1>1, <1>2, <1>3, <1>4, KeepStep DEF live

LEMMA ReturnBlockStep ==
  ASSUME LargeInv, NEW t \in Threads, ReturnBlock(t)
  PROVE  LargeInv'
<1> USE DEF LargeInv
<1> DEFINE c == call'[t]
           h == Head(call[t].blocks)
<1>1. /\ InStep(t, "return") /\ ~ InStep(t, "idle") /\ taken' = taken \ {h}
      /\ UNCHANGED <<mu_, live, peer_devices_, driver>>
  BY DEF ReturnBlock, InStep
<1>2. /\ call' = [call EXCEPT ![t] = c]
      /\ c.blocks = Tail(call[t].blocks) /\ c.va = call[t].va /\ c.step = "unmap"
      /\ DOMAIN c = DOMAIN call[t]
  BY DEF ReturnBlock, TypeOK
<1>3. /\ call[t].blocks \in Seq(Handles) /\ call[t].blocks # <<>>
      /\ IsInjective(call[t].blocks)
  BY <1>1 DEF TypeOK, Owned, Homes
<1>4. /\ c.blocks \in Seq(Handles) /\ IsInjective(c.blocks)
      /\ CallHolds(t) = Range(c.blocks) \union {h} /\ h \notin Range(c.blocks)
  BY <1>2, <1>3, BlockDropped DEF CallHolds
<1> HIDE DEF c, h
<1>5. CallHolds(t) \subseteq taken
  BY DEF Owned
<1>6. /\ taken' = (taken \ CallHolds(t)) \union Range(c.blocks)
      /\ Range(c.blocks) \intersect (taken \ CallHolds(t)) = {}
  BY <1>1, <1>4, <1>5
<1>7. Owned'
  BY <1>1, <1>2, <1>4, <1>6, CallStepOwned DEF live
<1>8. CallRecord(c)
  BY <1>1, <1>2, <1>4 DEF CallRecord, TypeOK
<1>9. /\ DOMAIN access' = DOMAIN mapping'
      /\ \A w \in DOMAIN mapping' :
           mapping'[w] \in DOMAIN BlockSize /\ access'[w] \subseteq {device_} \union Peers
  BY <1>1, MappingsTyped DEF driver
<1>10. taken' \subseteq Handles /\ mu_' \in Threads \union {NoThread}
  BY <1>1 DEF TypeOK
<1>11. TypeOK' /\ Homes'
  BY <1>1, <1>2, <1>8, <1>9, <1>10, CallStepHomes DEF live, driver
<1>q. QED BY <1>7, <1>11

LEMMA ReleaseAddressStep ==
  ASSUME LargeInv, NEW t \in Threads, ReleaseAddress(t)
  PROVE  LargeInv'
<1> USE DEF LargeInv
<1>1. /\ InStep(t, "unmap") /\ t \in Calls /\ call[t].blocks = <<>>
      /\ call' = [call EXCEPT ![t] = NoCall]
      /\ UNCHANGED <<live, peer_devices_, mapping, access, taken>>
      /\ mu_' \in Threads \union {NoThread}
  BY DEF ReleaseAddress, InStep, Calls, TypeOK
<1>2. /\ DOMAIN reserved' \subseteq DOMAIN reserved
      /\ \A va \in DOMAIN reserved : va # call[t].va => va \in DOMAIN reserved'
  BY DEF ReleaseAddress, RemoveRange
<1>3. /\ NoCall.blocks = <<>> /\ NoCall.step = "idle"
      /\ DOMAIN NoCall = {"va", "size", "todo", "blocks", "num_mapped", "offset", "step"}
  BY DEF NoCall, Begin
<1>4. Owned'
  <2>1. CallHolds(t) = {} /\ Range(NoCall.blocks) = {} /\ IsInjective(NoCall.blocks)
    BY <1>1, <1>3, NoBlocks DEF CallHolds
  <2>q. QED BY <1>1, <2>1, CallStepOwned DEF live
<1>5. /\ DOMAIN call' = Threads /\ call'[t] = NoCall
      /\ \A u \in Threads : u # t => call'[u] = call[u]
  BY <1>1 DEF TypeOK
<1>6. TypeOK'
  BY <1>1, <1>2, <1>3, <1>5, NoBlocks DEF TypeOK, InStep, live
<1>7. Homes'
  <2>1. Calls' = Calls \ {t}
    BY <1>3, <1>5 DEF Calls, InStep
  <2>2. \A u \in Calls' : /\ call'[u] = call[u] /\ call[u].va \in DOMAIN reserved'
                          /\ call[u].va \notin DOMAIN allocs_
    BY <1>1, <1>2, <1>5, <2>1 DEF Homes, Calls
  <2>3. DOMAIN allocs_' \subseteq DOMAIN reserved'
    BY <1>1, <1>2 DEF Homes, live
  <2>4. \A u \in Threads : InStep(u, "return")' => call'[u].blocks # <<>>
    BY <1>3, <1>5 DEF Homes, InStep
  <2>q. QED BY <1>1, <2>1, <2>2, <2>3, <2>4 DEF Homes, live
<1>q. QED BY <1>4, <1>6, <1>7

(* The blocks of the call become those of the live allocation. *)
LEMMA RecordStep ==
  ASSUME LargeInv, NEW t \in Threads, Record(t)
  PROVE  LargeInv'
<1> USE DEF LargeInv
<1>0. PICK va : va = call[t].va
  OBVIOUS
<1>1. /\ t \in Calls
      /\ allocs_' = AddRange(allocs_, va, call[t].size)
      /\ alloc_blocks' = AddRange(alloc_blocks, va, call[t].blocks)
      /\ call' = [call EXCEPT ![t] = NoCall]
      /\ mu_' = NoThread
      /\ UNCHANGED <<peer_devices_, reserved, mapping, taken>>
  BY <1>0 DEF Record, InStep, Calls
<1>2. /\ DOMAIN access' = DOMAIN mapping'
      /\ \A w \in DOMAIN mapping' :
           mapping'[w] \in DOMAIN BlockSize /\ access'[w] \subseteq {device_} \union Peers
  BY <1>1 DEF Record, setAccess, Grant, TypeOK
<1>3. /\ va \in Addresses /\ va \in DOMAIN reserved /\ va \notin DOMAIN allocs_
      /\ call[t].blocks \in Seq(Handles) /\ IsInjective(call[t].blocks)
  BY <1>0, <1>1 DEF TypeOK, Homes, Owned, Calls
<1>4. /\ DOMAIN call' = Threads /\ call'[t] = NoCall
      /\ \A u \in Threads : u # t => call'[u] = call[u]
  BY <1>1 DEF TypeOK
<1>5. /\ NoCall.blocks = <<>> /\ NoCall.step = "idle"
      /\ DOMAIN NoCall = {"va", "size", "todo", "blocks", "num_mapped", "offset", "step"}
  BY DEF NoCall, Begin
<1>6. /\ DOMAIN allocs_' = DOMAIN allocs_ \union {va} /\ DOMAIN alloc_blocks' = DOMAIN allocs_'
      /\ alloc_blocks'[va] = call[t].blocks
      /\ \A w \in DOMAIN allocs_ : alloc_blocks'[w] = alloc_blocks[w]
  BY <1>1, <1>3 DEF AddRange, TypeOK
<1>7. TypeOK'
  <2>1. \A w \in DOMAIN alloc_blocks' : alloc_blocks'[w] \in Seq(Handles)
    BY <1>3, <1>6 DEF TypeOK
  <2>2. \A u \in Threads :
          /\ DOMAIN call'[u] = {"va", "size", "todo", "blocks", "num_mapped", "offset", "step"}
          /\ call'[u].step \in {"idle", "map", "unmap", "return"}
          /\ call'[u].blocks \in Seq(Handles)
          /\ InStep(u, "idle")' => call'[u] = NoCall
          /\ ~ InStep(u, "idle")' => call'[u].va \in Addresses
    BY <1>4, <1>5, NoBlocks DEF TypeOK, InStep
  <2>3. DOMAIN allocs_' \subseteq Addresses
    BY <1>3, <1>6 DEF TypeOK
  <2>q. QED BY <1>1, <1>2, <1>4, <1>6, <2>1, <2>2, <2>3 DEF TypeOK
<1>8. /\ CallHolds(t)' = {} /\ LiveHolds(va)' = CallHolds(t)
      /\ \A u \in Threads : u # t => CallHolds(u)' = CallHolds(u)
      /\ \A w \in DOMAIN allocs_ : LiveHolds(w)' = LiveHolds(w)
  BY <1>4, <1>5, <1>6, NoBlocks DEF CallHolds, LiveHolds
<1>9. Owned'
  <2>1. \A h : h \in taken' <=> \/ \E w \in DOMAIN allocs_' : h \in LiveHolds(w)'
                              \/ \E u \in Threads : h \in CallHolds(u)'
    BY <1>1, <1>6, <1>8 DEF Owned
  <2>2. /\ \A w \in DOMAIN allocs_' : IsInjective(alloc_blocks'[w])
        /\ \A u \in Threads : IsInjective(call'[u].blocks)
    BY <1>3, <1>4, <1>5, <1>6, NoBlocks DEF Owned
  <2>3. /\ \A v, w \in DOMAIN allocs_' :
             v # w => \A h : ~ (h \in LiveHolds(v)' /\ h \in LiveHolds(w)')
        /\ \A u, v \in Threads : u # v => \A h : ~ (h \in CallHolds(u)' /\ h \in CallHolds(v)')
        /\ \A w \in DOMAIN allocs_', u \in Threads :
             \A h : ~ (h \in LiveHolds(w)' /\ h \in CallHolds(u)')
    BY <1>6, <1>8 DEF Owned
  <2>q. QED BY <2>1, <2>2, <2>3 DEF Owned
<1>10. Homes'
  <2>1. Calls' = Calls \ {t}
    BY <1>4, <1>5 DEF Calls, InStep
  <2>2. \A u \in Calls' : call'[u] = call[u] /\ call[u].va # va
    BY <1>0, <1>1, <1>4, <2>1 DEF Homes, Calls
  <2>3. \A u \in Threads : InStep(u, "return")' => call'[u].blocks # <<>>
    BY <1>4, <1>5 DEF Homes, InStep
  <2>q. QED BY <1>1, <1>3, <1>6, <2>1, <2>2, <2>3 DEF Homes
<1>q. QED BY <1>7, <1>9, <1>10

(* ... and those of the live allocation become those of the call. *)
LEMMA FreeEraseStep ==
  ASSUME LargeInv, NEW t \in Threads, NEW va \in DOMAIN allocs_, FreeErase(t, va)
  PROVE  LargeInv'
<1> USE DEF LargeInv
<1> DEFINE c == Begin(va, allocs_[va], <<>>, alloc_blocks[va], Len(alloc_blocks[va]), "unmap")
<1>1. /\ InStep(t, "idle") /\ t \notin Calls
      /\ allocs_' = RemoveRange(allocs_, va)
      /\ alloc_blocks' = RemoveRange(alloc_blocks, va)
      /\ call' = [call EXCEPT ![t] = c]
      /\ UNCHANGED <<mu_, peer_devices_, driver, taken>>
  BY DEF FreeErase, Calls
<1>2. /\ alloc_blocks[va] \in Seq(Handles) /\ IsInjective(alloc_blocks[va])
      /\ va \in Addresses /\ va \in DOMAIN reserved
  BY DEF TypeOK, Owned, Homes
<1>3. CallRecord(c) /\ c.blocks = alloc_blocks[va] /\ c.va = va /\ c.step = "unmap"
  BY <1>2 DEF CallRecord, Begin
<1>4. CallHolds(t) = {}
  BY <1>1, NoBlocks DEF TypeOK, CallHolds, NoCall, Begin
<1> HIDE DEF c
<1>5. /\ DOMAIN call' = Threads /\ call'[t] = c
      /\ \A u \in Threads : u # t => call'[u] = call[u]
  BY <1>1 DEF TypeOK
<1>6. /\ DOMAIN allocs_' = DOMAIN allocs_ \ {va} /\ DOMAIN alloc_blocks' = DOMAIN allocs_'
      /\ \A w \in DOMAIN allocs_' : alloc_blocks'[w] = alloc_blocks[w]
  BY <1>1 DEF RemoveRange, TypeOK
<1>7. TypeOK'
  BY <1>1, <1>3, <1>5, <1>6 DEF TypeOK, InStep, CallRecord, driver
<1>8. /\ CallHolds(t)' = LiveHolds(va)
      /\ \A u \in Threads : u # t => CallHolds(u)' = CallHolds(u)
      /\ \A w \in DOMAIN allocs_' : LiveHolds(w)' = LiveHolds(w)
  BY <1>3, <1>5, <1>6 DEF CallHolds, LiveHolds
<1>9. Owned'
  <2>1. \A h : h \in taken' <=> \/ \E w \in DOMAIN allocs_' : h \in LiveHolds(w)'
                              \/ \E u \in Threads : h \in CallHolds(u)'
    BY <1>1, <1>4, <1>6, <1>8 DEF Owned
  <2>2. /\ \A w \in DOMAIN allocs_' : IsInjective(alloc_blocks'[w])
        /\ \A u \in Threads : IsInjective(call'[u].blocks)
    BY <1>2, <1>3, <1>5, <1>6 DEF Owned
  <2>3. /\ \A v, w \in DOMAIN allocs_' :
             v # w => \A h : ~ (h \in LiveHolds(v)' /\ h \in LiveHolds(w)')
        /\ \A u, v \in Threads : u # v => \A h : ~ (h \in CallHolds(u)' /\ h \in CallHolds(v)')
        /\ \A w \in DOMAIN allocs_', u \in Threads :
             \A h : ~ (h \in LiveHolds(w)' /\ h \in CallHolds(u)')
    BY <1>6, <1>8 DEF Owned
  <2>q. QED BY <2>1, <2>2, <2>3 DEF Owned
<1>10. Homes'
  <2>1. Calls' = Calls \union {t}
    BY <1>3, <1>5 DEF Calls, InStep
  <2>2. \A u \in Calls : u # t /\ call'[u] = call[u] /\ call[u].va # va
    BY <1>1, <1>5 DEF Homes, Calls
  <2>3. \A u \in Threads : InStep(u, "return")' => call'[u].blocks # <<>>
    BY <1>3, <1>5 DEF Homes, InStep
  <2>q. QED BY <1>1, <1>2, <1>3, <1>5, <1>6, <2>1, <2>2, <2>3 DEF Homes, driver
<1>q. QED BY <1>7, <1>9, <1>10

LEMMA NextLarge == LargeInv /\ [Next]_vars => LargeInv'
<1> SUFFICES ASSUME LargeInv, [Next]_vars PROVE LargeInv' OBVIOUS
<1>1. ASSUME NEW t \in Threads, Step(t) PROVE LargeInv'
  BY <1>1, ReserveStep, MapBlockStep, AllocateFailsStep, RecordStep, FreeEraseStep,
     UnmapBlockStep, ReturnBlockStep, ReleaseAddressStep DEF Step
<1>2. ASSUME NEW peer \in Peers, NEW ok \in BOOLEAN, addPeerDevice(peer, ok) PROVE LargeInv'
  <2>1. /\ UNCHANGED <<mu_, live, call, reserved, mapping, taken>>
        /\ peer_devices_' = peer_devices_ \union {peer}
        /\ \E granted : access' = [w \in DOMAIN access |->
               IF \E va \in granted : w \in Within(va, allocs_[va])
               THEN access[w] \union {peer} ELSE access[w]]
    BY <1>2 DEF addPeerDevice
  <2>2. DOMAIN access' = DOMAIN mapping' /\ \A w \in DOMAIN mapping' :
          mapping'[w] \in DOMAIN BlockSize /\ access'[w] \subseteq {device_} \union Peers
    BY <2>1 DEF LargeInv, TypeOK
  <2>3. TypeOK'
    BY <2>1, <2>2 DEF LargeInv, TypeOK, live, InStep
  <2>q. QED
    BY <2>1, <2>3 DEF LargeInv, Owned, Homes, live, LiveHolds, CallHolds, Calls, InStep
<1>3. CASE UNCHANGED vars
  BY <1>3 DEF vars, live, driver, LargeInv, TypeOK, Owned, Homes, LiveHolds, CallHolds,
              Calls, InStep
<1>q. QED BY <1>1, <1>2, <1>3 DEF Next

(* Blocks, addresses, devices and the steps of the calls stay what they    *)
(* are, however a call fails.                                              *)
THEOREM TypeCorrect == Spec => []TypeOK
<1>1. LargeInv => TypeOK
  BY DEF LargeInv
<1>q. QED BY <1>1, InitLarge, NextLarge, PTL DEF Spec

(* Every block taken from the PhysicalMemoryManager is held by exactly one *)
(* live allocation or one call, at exactly one place: none leaks, and none *)
(* is returned twice, whatever fails and however the calls interleave.     *)
THEOREM BlocksOwnedHolds == Spec => []BlocksOwned
<1>1. LargeInv => BlocksOwned
  BY OwnedIsBlocksOwned DEF LargeInv
<1>q. QED BY <1>1, InitLarge, NextLarge, PTL DEF Spec

-----------------------------------------------------------------------------
(* Where the blocks are mapped *)

At(m, w, h) == w \in DOMAIN m /\ m[w] = h

(* The first n blocks of s are mapped by m one after the other from va on, *)
(* and the others nowhere.                                                 *)
Chain(m, s, n, va) ==
  /\ n \in 0..Len(s)
  /\ n > 0 => At(m, va, s[1])
  /\ \A i \in 1..(n - 1) : \A w \in DOMAIN m :
       m[w] = s[i] => At(m, w + BlockSize[s[i]], s[i + 1])
  /\ \A i \in (n + 1)..Len(s) : \A w \in DOMAIN m : m[w] # s[i]

(* The last block of s ends where the next one would start. *)
EndsAt(m, s, end) ==
  \A w \in DOMAIN m : m[w] = s[Len(s)] => w + BlockSize[m[w]] = end

(* The blocks of s are mapped in [va, va + size) only. *)
Inside(m, s, va, size) ==
  \A w \in DOMAIN m : m[w] \in Range(s) => va <= w /\ w + BlockSize[m[w]] <= va + size

CallShape(m, c) ==
  /\ Inside(m, c.blocks, c.va, c.size)
  /\ c.step = "map" =>
       /\ c.num_mapped = Len(c.blocks) /\ Chain(m, c.blocks, c.num_mapped, c.va)
       /\ IF c.blocks = <<>> THEN c.offset = 0 ELSE EndsAt(m, c.blocks, c.va + c.offset)
       /\ c.offset + LayoutBytes(c.todo) = c.size
  /\ c.step = "unmap" => Chain(m, c.blocks, c.num_mapped, c.va + c.offset)
  /\ c.step = "return" =>
       /\ \A w \in DOMAIN m : m[w] # Head(c.blocks)
       /\ Chain(m, Tail(c.blocks), c.num_mapped, c.va + c.offset)

LiveShape(m, s, va, size) ==
  /\ s # <<>> /\ Chain(m, s, Len(s), va)
  /\ Inside(m, s, va, size) /\ EndsAt(m, s, va + size)

(* Mappings do not overlap, no block has two, and what is mapped is taken. *)
Mappings ==
  /\ DOMAIN mapping \subseteq Nat
  /\ \A w, x \in DOMAIN mapping : w # x =>
       /\ Disjoint(w, BlockSize[mapping[w]], x, BlockSize[mapping[x]])
       /\ mapping[w] # mapping[x]
  /\ \A w \in DOMAIN mapping : mapping[w] \in taken

Numbers ==
  /\ \A t \in Threads : /\ call[t].size \in Nat /\ call[t].offset \in Nat
                        /\ call[t].num_mapped \in Nat /\ call[t].todo \in Seq(BlockClasses)
  /\ IsFiniteMap(allocs_)

(* Every range the driver keeps is the one of a live allocation or a call. *)
Ranged ==
  /\ \A va \in DOMAIN reserved :
       \/ va \in DOMAIN allocs_ /\ reserved[va] = allocs_[va]
       \/ \E t \in Calls : va = call[t].va /\ reserved[va] = call[t].size
  /\ \A va \in DOMAIN reserved : reserved[va] \in Nat \ {0} /\ va + reserved[va] <= VASize
  /\ PairwiseDisjoint(reserved)
  /\ allocated_bytes_ = Total(allocs_)

Shaped ==
  /\ \A t \in Calls : CallShape(mapping, call[t])
  /\ \A va \in DOMAIN allocs_ : LiveShape(mapping, alloc_blocks[va], va, allocs_[va])

Opened ==
  \A va \in DOMAIN allocs_, w \in DOMAIN mapping :
    mapping[w] \in LiveHolds(va) => device_ \in access[w]

MappedInv == Mappings /\ Numbers /\ Ranged /\ Shaped /\ Opened

(* Two maps that agree where the blocks of H are mapped. *)
SameAt(m, m2, H) == \A h \in H : \A w : At(m, w, h) <=> At(m2, w, h)

LEMMA ChainFrame ==
  ASSUME NEW m, NEW m2, NEW S, NEW s \in Seq(S), NEW n \in Nat, NEW va, SameAt(m, m2, Range(s))
  PROVE  /\ Chain(m, s, n, va) => Chain(m2, s, n, va)
         /\ \A size : Inside(m, s, va, size) => Inside(m2, s, va, size)
         /\ \A end : s # <<>> /\ EndsAt(m, s, end) => EndsAt(m2, s, end)
<1>1. Len(s) \in Nat /\ DOMAIN s = 1..Len(s) /\ \A i \in 1..Len(s) : s[i] \in Range(s)
  BY DEF Range
<1>2. \A h \in Range(s) : /\ \A w : At(m, w, h) <=> At(m2, w, h)
                          /\ \A w \in DOMAIN m2 : m2[w] = h => w \in DOMAIN m /\ m[w] = h
  BY DEF SameAt, At
<1>3. ASSUME Chain(m, s, n, va) PROVE Chain(m2, s, n, va)
  <2>1. n \in 0..Len(s)
    BY <1>3 DEF Chain
  <2>2. ASSUME n > 0 PROVE At(m2, va, s[1])
    <3>1. 1 \in 1..Len(s)
      BY <1>1, <2>1, <2>2
    <3>q. QED BY <1>1, <1>2, <1>3, <2>2, <3>1 DEF Chain
  <2>3. ASSUME NEW i \in 1..(n - 1), NEW w \in DOMAIN m2, m2[w] = s[i]
        PROVE  At(m2, w + BlockSize[s[i]], s[i + 1])
    <3>1. i \in 1..Len(s) /\ i + 1 \in 1..Len(s)
      BY <1>1, <2>1
    <3>2. w \in DOMAIN m /\ m[w] = s[i]
      BY <1>1, <1>2, <2>3, <3>1
    <3>3. At(m, w + BlockSize[s[i]], s[i + 1])
      BY <1>3, <3>2 DEF Chain
    <3>q. QED BY <1>1, <1>2, <3>1, <3>3
  <2>4. ASSUME NEW i \in (n + 1)..Len(s), NEW w \in DOMAIN m2 PROVE m2[w] # s[i]
    <3>1. i \in 1..Len(s)
      BY <1>1, <2>1
    <3>q. QED BY <1>1, <1>2, <1>3, <3>1 DEF Chain
  <2>q. QED BY <2>1, <2>2, <2>3, <2>4 DEF Chain
<1>4. \A w \in DOMAIN m2 : m2[w] \in Range(s) => w \in DOMAIN m /\ m[w] = m2[w]
  BY <1>2
<1>5. \A size : Inside(m, s, va, size) => Inside(m2, s, va, size)
  BY <1>4 DEF Inside
<1>6. s # <<>> => s[Len(s)] \in Range(s)
  BY <1>1
<1>7. \A end : s # <<>> /\ EndsAt(m, s, end) => EndsAt(m2, s, end)
  BY <1>4, <1>6 DEF EndsAt
<1>q. QED BY <1>3, <1>5, <1>7

(* A block mapped where the chain ends becomes its last one. *)
LEMMA ChainGrows ==
  ASSUME NEW m, NEW S, NEW s \in Seq(S), NEW h \in S, NEW va, NEW end,
         h \notin Range(s), \A w \in DOMAIN m : m[w] # h, end \notin DOMAIN m,
         Chain(m, s, Len(s), va),
         IF s = <<>> THEN end = va ELSE EndsAt(m, s, end)
  PROVE  /\ Chain(AddRange(m, end, h), Append(s, h), Len(s) + 1, va)
         /\ EndsAt(AddRange(m, end, h), Append(s, h), end + BlockSize[h])
<1> DEFINE m2 == AddRange(m, end, h)
           s2 == Append(s, h)
           n == Len(s)
<1>1. /\ n \in Nat /\ Len(s2) = n + 1 /\ s2[n + 1] = h
      /\ \A i \in 1..n : s2[i] = s[i] /\ s[i] \in Range(s)
  BY DEF Range
<1>2. /\ DOMAIN m2 = DOMAIN m \union {end} /\ m2[end] = h
      /\ \A w \in DOMAIN m : m2[w] = m[w] /\ w # end
  BY DEF AddRange
<1>e. s = <<>> <=> n = 0
  OBVIOUS
<1> HIDE DEF m2, s2, n
<1>3. EndsAt(m2, s2, end + BlockSize[h])
  BY <1>1, <1>2 DEF EndsAt
<1>4. \A i \in 1..n, w \in DOMAIN m2 : m2[w] = s2[i] => w \in DOMAIN m /\ m[w] = s[i]
  BY <1>1, <1>2
<1>5. At(m2, va, s2[1])
  <2>1. CASE n = 0
    BY <1>1, <1>2, <1>e, <2>1 DEF At
  <2>2. CASE n # 0
    <3>1. 1 \in 1..n /\ n > 0
      BY <1>1, <2>2
    <3>2. At(m, va, s[1])
      BY <3>1 DEF Chain, n
    <3>q. QED BY <1>1, <1>2, <3>1, <3>2 DEF At
  <2>q. QED BY <2>1, <2>2
<1>6. ASSUME NEW i \in 1..((n + 1) - 1), NEW w \in DOMAIN m2, m2[w] = s2[i]
      PROVE  At(m2, w + BlockSize[s2[i]], s2[i + 1])
  <2>1. i \in 1..n /\ w \in DOMAIN m /\ m[w] = s[i] /\ s2[i] = s[i]
    BY <1>1, <1>4, <1>6
  <2>2. CASE i = n
    <3>1. s # <<>> /\ m[w] = s[Len(s)]
      BY <1>1, <1>e, <2>1, <2>2 DEF n
    <3>2. w + BlockSize[s[i]] = end
      BY <2>1, <3>1 DEF EndsAt
    <3>q. QED BY <1>1, <1>2, <2>1, <2>2, <3>2 DEF At
  <2>3. CASE i # n
    <3>1. i \in 1..(n - 1) /\ i + 1 \in 1..n
      BY <1>1, <2>1, <2>3
    <3>2. At(m, w + BlockSize[s[i]], s[i + 1])
      BY <2>1, <3>1 DEF Chain, n
    <3>q. QED BY <1>1, <1>2, <2>1, <3>1, <3>2 DEF At
  <2>q. QED BY <2>2, <2>3
<1>7. n + 1 \in 0..Len(s2) /\ \A i \in ((n + 1) + 1)..Len(s2) : FALSE
  BY <1>1
<1>8. Chain(m2, s2, n + 1, va)
  BY <1>5, <1>6, <1>7 DEF Chain
<1>q. QED BY <1>3, <1>8 DEF m2, s2, n

(* A block that is mapped nowhere at the end of the blocks. *)
LEMMA ChainUnmappedEnd ==
  ASSUME NEW m, NEW S, NEW s \in Seq(S), NEW h \in S, NEW va,
         \A w \in DOMAIN m : m[w] # h, Chain(m, s, Len(s), va)
  PROVE  Chain(m, Append(s, h), Len(s), va)
<1> DEFINE s2 == Append(s, h)
           n == Len(s)
<1>1. /\ n \in Nat /\ Len(s2) = n + 1 /\ s2[n + 1] = h
      /\ \A i \in 1..n : s2[i] = s[i]
  OBVIOUS
<1> HIDE DEF s2
<1>2. n \in 0..Len(s2) /\ \A i \in (n + 1)..Len(s2) : i = n + 1
  BY <1>1
<1>3. \A i \in 1..(n - 1) : s2[i] = s[i] /\ s2[i + 1] = s[i + 1]
  BY <1>1
<1>4. n > 0 => s2[1] = s[1]
  BY <1>1
<1>5. Chain(m, s2, n, va)
  <2>1. n > 0 => At(m, va, s2[1])
    BY <1>4 DEF Chain
  <2>2. \A i \in 1..(n - 1) : \A w \in DOMAIN m :
          m[w] = s2[i] => At(m, w + BlockSize[s2[i]], s2[i + 1])
    BY <1>3 DEF Chain
  <2>3. \A i \in (n + 1)..Len(s2) : \A w \in DOMAIN m : m[w] # s2[i]
    BY <1>1, <1>2
  <2> HIDE DEF n
  <2>q. QED BY <1>2, <2>1, <2>2, <2>3 DEF Chain
<1>q. QED BY <1>5 DEF s2

(* The first block of the chain is unmapped: the rest starts where it ended. *)
LEMMA ChainShrinks ==
  ASSUME NEW m, NEW m2, NEW S, NEW s \in Seq(S), NEW n \in Nat, NEW va,
         s # <<>>, IsInjective(s), n > 0, Chain(m, s, n, va),
         \A w, x \in DOMAIN m : w # x => m[w] # m[x],
         DOMAIN m2 = DOMAIN m \ {va}, \A w \in DOMAIN m2 : m2[w] = m[w]
  PROVE  /\ \A w \in DOMAIN m2 : m2[w] # Head(s)
         /\ Chain(m2, Tail(s), n - 1, va + BlockSize[Head(s)])
<1> DEFINE tl == Tail(s)
           next == va + BlockSize[Head(s)]
<1>1. /\ Len(s) \in Nat /\ Len(tl) = Len(s) - 1 /\ Len(s) > 0 /\ Head(s) = s[1]
      /\ \A i \in 1..(Len(s) - 1) : tl[i] = s[i + 1]
      /\ DOMAIN s = 1..Len(s)
  OBVIOUS
<1>2. n \in 1..Len(s) /\ va \in DOMAIN m /\ m[va] = s[1]
  BY <1>1 DEF Chain, At
<1>3. \A w \in DOMAIN m2 : m2[w] # Head(s) /\ w \in DOMAIN m /\ w # va
  BY <1>1, <1>2
<1> HIDE DEF tl, next
<1>4. \A i \in 2..Len(s) : s[i] # s[1]
  <2>1. \A i \in 2..Len(s) : i \in DOMAIN s /\ 1 \in DOMAIN s /\ i # 1
    BY <1>1
  <2>q. QED BY <2>1 DEF IsInjective
<1>5. n - 1 \in 0..Len(tl)
  BY <1>1, <1>2
<1>6. ASSUME n - 1 > 0 PROVE At(m2, next, tl[1])
  <2>1. 1 \in 1..(n - 1) /\ 1 \in 1..(Len(s) - 1) /\ 2 \in 2..Len(s) /\ 1 + 1 = 2
    BY <1>1, <1>2, <1>6
  <2>2. At(m, next, s[2])
    BY <1>1, <1>2, <2>1 DEF Chain, next
  <2>3. s[2] # m[va]
    BY <1>2, <1>4, <2>1
  <2>4. next \in DOMAIN m /\ m[next] = s[2] /\ next # va
    BY <2>2, <2>3 DEF At
  <2>5. tl[1] = s[2]
    BY <1>1, <2>1
  <2>q. QED BY <2>4, <2>5 DEF At
<1>7. ASSUME NEW i \in 1..((n - 1) - 1), NEW w \in DOMAIN m2, m2[w] = tl[i]
      PROVE  At(m2, w + BlockSize[tl[i]], tl[i + 1])
  <2>1. /\ i \in 1..(Len(s) - 1) /\ i + 1 \in 1..(Len(s) - 1) /\ i + 1 \in 1..(n - 1)
        /\ (i + 1) + 1 \in 2..Len(s)
    BY <1>1, <1>2
  <2>2. tl[i] = s[i + 1] /\ tl[i + 1] = s[(i + 1) + 1]
    BY <1>1, <2>1
  <2>3. At(m, w + BlockSize[s[i + 1]], s[(i + 1) + 1])
    BY <1>3, <1>7, <2>1, <2>2 DEF Chain
  <2>4. s[(i + 1) + 1] # m[va]
    BY <1>2, <1>4, <2>1
  <2> DEFINE x == w + BlockSize[s[i + 1]]
  <2> HIDE DEF x
  <2>5. x \in DOMAIN m /\ m[x] = s[(i + 1) + 1] /\ x # va
    BY <2>3, <2>4 DEF At, x
  <2>q. QED BY <2>2, <2>5 DEF At, x
<1>8. ASSUME NEW i \in ((n - 1) + 1)..Len(tl), NEW w \in DOMAIN m2 PROVE m2[w] # tl[i]
  <2>1. i \in 1..(Len(s) - 1) /\ i + 1 \in (n + 1)..Len(s)
    BY <1>1, <1>2
  <2>q. QED BY <1>1, <1>3, <2>1 DEF Chain
<1>9. Chain(m2, tl, n - 1, next)
  BY <1>5, <1>6, <1>7, <1>8 DEF Chain
<1>q. QED BY <1>3, <1>9 DEF tl, next

(* Blocks of which none is mapped. *)
LEMMA ChainNone ==
  ASSUME NEW m, NEW S, NEW s \in Seq(S), NEW va, s # <<>>, Chain(m, s, 0, va)
  PROVE  /\ \A w \in DOMAIN m : m[w] # Head(s)
         /\ \A x : Chain(m, Tail(s), 0, x)
<1> DEFINE tl == Tail(s)
<1>1. /\ Len(s) \in Nat /\ Len(tl) = Len(s) - 1 /\ Len(s) > 0 /\ Head(s) = s[1]
      /\ \A i \in 1..(Len(s) - 1) : tl[i] = s[i + 1] /\ i + 1 \in 1..Len(s)
  OBVIOUS
<1>2. \A i \in 1..Len(s) : \A w \in DOMAIN m : m[w] # s[i]
  BY DEF Chain
<1> HIDE DEF tl
<1>3. 0 \in 0..Len(tl) /\ ~ (0 > 0) /\ \A i \in 1..(0 - 1) : FALSE
  BY <1>1
<1>4. \A i \in (0 + 1)..Len(tl) : \A w \in DOMAIN m : m[w] # tl[i]
  BY <1>1, <1>2
<1>5. \A x : Chain(m, tl, 0, x)
  BY <1>3, <1>4 DEF Chain
<1>6. 1 \in 1..Len(s)
  BY <1>1
<1>q. QED BY <1>1, <1>2, <1>5, <1>6 DEF tl

-----------------------------------------------------------------------------
(* The invariant of the mappings, operation by operation *)

LEMMA BlockFacts ==
  /\ \A h \in Handles : h \in DOMAIN BlockSize
  /\ \A h \in DOMAIN BlockSize : BlockSize[h] \in Nat \ {0} /\ BlockSize[h] \in BlockClasses
  BY PlacesAssumption, ClassFacts

LEMMA MapAdds ==
  ASSUME TypeOK, Mappings, NEW h \in Handles \ taken, NEW va \in Nat,
         memMap(va, h), Mappable(va, BlockSize[h]), taken' = taken \union {h}
  PROVE  /\ Mappings' /\ va \notin DOMAIN mapping
         /\ \A w \in DOMAIN mapping : mapping[w] # h
<1>1. /\ \A w \in DOMAIN mapping : mapping[w] \in DOMAIN BlockSize /\ w \in Nat
      /\ \A w \in DOMAIN mapping : mapping[w] # h
  BY DEF TypeOK, Mappings
<1>2. \A w \in DOMAIN mapping : BlockSize[mapping[w]] \in Nat \ {0}
  BY <1>1, BlockFacts
<1>3. \A w \in DOMAIN mapping : Disjoint(va, BlockSize[h], w, BlockSize[mapping[w]])
  BY DEF Mappable, Within
<1>4. BlockSize[h] \in Nat \ {0}
  BY BlockFacts
<1>5. va \notin DOMAIN mapping
  BY <1>2, <1>3, <1>4 DEF Disjoint
<1>6. /\ DOMAIN mapping' = DOMAIN mapping \union {va} /\ mapping'[va] = h
      /\ \A w \in DOMAIN mapping : mapping'[w] = mapping[w] /\ w # va
  BY <1>5 DEF memMap, AddRange
<1>7. \A w, x \in DOMAIN mapping' : w # x =>
        /\ Disjoint(w, BlockSize[mapping'[w]], x, BlockSize[mapping'[x]])
        /\ mapping'[w] # mapping'[x]
  BY <1>1, <1>2, <1>3, <1>4, <1>6 DEF Mappings, Disjoint
<1>8. DOMAIN mapping' \subseteq Nat /\ \A w \in DOMAIN mapping' : mapping'[w] \in taken'
  BY <1>6 DEF Mappings
<1>q. QED BY <1>1, <1>5, <1>7, <1>8 DEF Mappings

(* The driver unmaps the block that starts there, and no other. *)
LEMMA UnmapsOne ==
  ASSUME TypeOK, DOMAIN mapping \subseteq Nat,
         \A w, x \in DOMAIN mapping : w # x => Disjoint(w, BlockSize[mapping[w]], x, BlockSize[mapping[x]]),
         NEW va \in DOMAIN mapping, memUnmap(va, BlockSize[mapping[va]])
  PROVE  /\ DOMAIN mapping' = DOMAIN mapping \ {va}
         /\ \A w \in DOMAIN mapping' : mapping'[w] = mapping[w] /\ access'[w] = access[w]
<1> DEFINE size == BlockSize[mapping[va]]
           sizes == [w \in Within(va, size) |-> BlockSize[mapping[w]]]
<1>1. va \in Nat /\ size \in Nat \ {0}
  BY BlockFacts DEF TypeOK
<1>2. Within(va, size) = {va}
  <2>1. va \in Within(va, size)
    BY <1>1 DEF Within, Disjoint
  <2>2. \A w \in Within(va, size) : w = va
    BY DEF Within
  <2>q. QED BY <2>1, <2>2
<1>3. FullyMapped(va, size)
  <2>1. DOMAIN sizes = {va} /\ sizes[va] = size
    BY <1>2
  <2> DEFINE none == [w \in {} |-> 0]
  <2>2. DOMAIN none = {} /\ DOMAIN sizes = DOMAIN none \union {va} /\ va \notin DOMAIN none
        /\ \A y \in DOMAIN none : sizes[y] = none[y]
    BY <2>1
  <2> HIDE DEF sizes, none, size
  <2>3. IsFiniteMap(none) /\ Total(none) = 0
    BY <2>2, TotalEmpty
  <2>4. sizes[va] \in Nat
    BY <1>1, <2>1
  <2>5. Total(sizes) = Total(none) + sizes[va]
    BY <2>2, <2>3, <2>4, TotalAdd
  <2>6. size = Total(sizes)
    BY <1>1, <2>1, <2>3, <2>5
  <2>q. QED BY <1>1, <1>2, <2>6 DEF FullyMapped, sizes, size
<1> HIDE DEF size
<1>4. /\ mapping' = Restrict(mapping, DOMAIN mapping \ {va})
      /\ access' = Restrict(access, DOMAIN access \ {va})
  BY <1>2, <1>3 DEF memUnmap, size
<1>q. QED BY <1>4 DEF Restrict, TypeOK

LEMMA MappingsShrink ==
  ASSUME Mappings, DOMAIN mapping' \subseteq DOMAIN mapping,
         \A w \in DOMAIN mapping' : mapping'[w] = mapping[w] /\ mapping'[w] \in taken'
  PROVE  Mappings'
  BY DEF Mappings

(* What is mapped belongs to somebody, and lies in the range of its owner. *)
LEMMA Holder ==
  ASSUME LargeInv, NEW h \in taken
  PROVE  \/ \E va \in DOMAIN allocs_ : h \in LiveHolds(va)
         \/ \E t \in Calls : h \in CallHolds(t)
<1>1. \A t \in Threads : t \notin Calls => CallHolds(t) = {}
  BY NoBlocks DEF LargeInv, TypeOK, Calls, CallHolds, NoCall, Begin
<1>q. QED BY <1>1 DEF LargeInv, Owned

(* The holders a step of thread t does not concern. *)
LEMMA OthersShaped ==
  ASSUME LargeInv, Numbers, Shaped, Opened, NEW t \in Threads,
         SameAt(mapping, mapping', taken \ CallHolds(t)),
         UNCHANGED <<allocs_, alloc_blocks>>,
         DOMAIN call' = Threads, \A u \in Threads : u # t => call'[u] = call[u],
         \A w \in DOMAIN mapping' : w \in DOMAIN mapping => access[w] \subseteq access'[w],
         t \in Calls' => CallShape(mapping', call'[t])
  PROVE  Shaped' /\ Opened'
<1>1. ASSUME NEW u \in Calls', u # t PROVE CallShape(mapping', call'[u])
  <2> DEFINE c == call[u]
  <2>1. /\ call'[u] = c /\ u \in Threads /\ u \in Calls /\ CallShape(mapping, c)
        /\ c.blocks \in Seq(Handles)
        /\ c.num_mapped \in Nat
        /\ c.step = "return" => c.blocks # <<>>
    BY <1>1 DEF Calls, InStep, Shaped, Numbers, LargeInv, TypeOK, Homes
  <2>2. Range(c.blocks) \subseteq taken \ CallHolds(t)
    BY <1>1, <2>1 DEF LargeInv, Owned, CallHolds
  <2> HIDE DEF c
  <2>3. SameAt(mapping, mapping', Range(c.blocks))
    BY <2>2 DEF SameAt
  <2>4. Inside(mapping', c.blocks, c.va, c.size)
    BY <2>1, <2>3, ChainFrame DEF CallShape
  <2>5. CASE c.step = "map"
    BY <2>1, <2>3, <2>4, <2>5, ChainFrame DEF CallShape
  <2>6. CASE c.step = "unmap"
    BY <2>1, <2>3, <2>4, <2>6, ChainFrame DEF CallShape
  <2>7. CASE c.step = "return"
    <3> DEFINE tl == Tail(c.blocks)
               hd == Head(c.blocks)
    <3>1. tl \in Seq(Handles) /\ hd \in Range(c.blocks) /\ Range(c.blocks) = Range(tl) \union {hd}
      BY <2>1, <2>7, BlockDropped
    <3>2. /\ \A w \in DOMAIN mapping : mapping[w] # hd
          /\ Chain(mapping, tl, c.num_mapped, c.va + c.offset)
      BY <2>1, <2>7 DEF CallShape
    <3> HIDE DEF tl, hd
    <3>3. SameAt(mapping, mapping', Range(tl))
      BY <2>3, <3>1 DEF SameAt
    <3>4. Chain(mapping', tl, c.num_mapped, c.va + c.offset)
      BY <2>1, <3>1, <3>2, <3>3, ChainFrame
    <3>5. \A w \in DOMAIN mapping' : mapping'[w] # hd
      BY <2>3, <3>1, <3>2 DEF SameAt, At
    <3>q. QED BY <2>1, <2>4, <2>7, <3>4, <3>5 DEF CallShape, tl, hd
  <2>8. c.step \in {"map", "unmap", "return"}
    BY <2>1 DEF Calls, InStep, LargeInv, TypeOK, c
  <2>q. QED BY <2>1, <2>5, <2>6, <2>7, <2>8
<1>2. ASSUME NEW va \in DOMAIN allocs_'
      PROVE  /\ LiveShape(mapping', alloc_blocks'[va], va, allocs_'[va])
             /\ \A w \in DOMAIN mapping' : mapping'[w] \in LiveHolds(va)' => device_ \in access'[w]
  <2> DEFINE s == alloc_blocks[va]
  <2>1. /\ va \in DOMAIN allocs_ /\ alloc_blocks'[va] = s /\ allocs_'[va] = allocs_[va]
        /\ s \in Seq(Handles)
        /\ Len(s) \in Nat
        /\ LiveShape(mapping, s, va, allocs_[va]) /\ LiveHolds(va)' = LiveHolds(va)
    BY DEF Shaped, LargeInv, TypeOK, LiveHolds
  <2>2. Range(s) \subseteq taken \ CallHolds(t) /\ Range(s) = LiveHolds(va)
    BY <2>1 DEF LargeInv, Owned, LiveHolds
  <2> HIDE DEF s
  <2>3. SameAt(mapping, mapping', Range(s))
    BY <2>2 DEF SameAt
  <2>4. LiveShape(mapping', s, va, allocs_[va])
    BY <2>1, <2>3, ChainFrame DEF LiveShape
  <2>5. ASSUME NEW w \in DOMAIN mapping', mapping'[w] \in Range(s) PROVE device_ \in access'[w]
    <3>1. w \in DOMAIN mapping /\ mapping[w] \in Range(s)
      BY <2>3, <2>5 DEF SameAt, At
    <3>2. device_ \in access[w]
      BY <2>1, <2>2, <3>1 DEF Opened
    <3>q. QED BY <3>1, <3>2
  <2>q. QED BY <2>1, <2>2, <2>4, <2>5
<1>q. QED BY <1>1, <1>2 DEF Shaped, Opened

(* A step that leaves the ranges alone and only changes the call of t. *)
LEMMA RangedKept ==
  ASSUME LargeInv, Ranged, NEW t \in Calls,
         UNCHANGED <<reserved, allocs_, allocated_bytes_>>,
         DOMAIN call' = Threads, \A u \in Threads : u # t => call'[u] = call[u],
         ~ InStep(t, "idle")', call'[t].va = call[t].va, call'[t].size = call[t].size
  PROVE  Ranged'
<1>1. Calls' = Calls
  BY DEF Calls, InStep
<1>2. \A u \in Calls : call'[u].va = call[u].va /\ call'[u].size = call[u].size
  BY DEF Calls
<1>q. QED BY <1>1, <1>2 DEF Ranged

LEMMA NumbersKept ==
  ASSUME Numbers, NEW t \in Threads, UNCHANGED allocs_,
         DOMAIN call' = Threads, \A u \in Threads : u # t => call'[u] = call[u],
         call'[t].size \in Nat, call'[t].offset \in Nat,
         call'[t].num_mapped \in Nat, call'[t].todo \in Seq(BlockClasses)
  PROVE  Numbers'
<1>1. \A u \in Threads : /\ call'[u].size \in Nat /\ call'[u].offset \in Nat
                         /\ call'[u].num_mapped \in Nat /\ call'[u].todo \in Seq(BlockClasses)
  BY DEF Numbers
<1>q. QED BY <1>1 DEF Numbers

LEMMA ReserveMapped ==
  ASSUME LargeInv, MappedInv, NEW t \in Threads, NEW request \in Requests, Reserve(t, request)
  PROVE  MappedInv'
<1> USE DEF LargeInv, MappedInv
<1> DEFINE layout == computeLayout(request)
           total == LayoutBytes(layout)
<1>1. PICK va \in Addresses :
        /\ va + total <= VASize
        /\ va \notin DOMAIN reserved
        /\ \A w \in DOMAIN reserved : Disjoint(va, total, w, reserved[w])
        /\ reserved' = AddRange(reserved, va, total)
        /\ call' = [call EXCEPT ![t] = Begin(va, total, layout, <<>>, 0, "map")]
  BY DEF Reserve
<1>2. /\ InStep(t, "idle")
      /\ UNCHANGED <<mu_, live, peer_devices_, mapping, access, taken>>
  BY DEF Reserve
<1>3. layout \in Seq(BlockClasses) /\ total \in Nat \ {0}
  <2>1. request \in Nat \ {0} /\ BlockClasses \subseteq Nat
    BY PlacesAssumption, ClassFacts
  <2>2. layout \in Seq(BlockClasses) /\ request <= LayoutBytes(layout)
    BY <2>1, LayoutCovers
  <2> HIDE DEF layout
  <2>3. layout \in Seq(Nat)
    BY <2>1, <2>2, SeqSubset
  <2>4. IsFiniteMap(layout)
    <3>1. Len(layout) \in Nat /\ DOMAIN layout = 1..Len(layout) /\ \A i \in 1..Len(layout) : layout[i] \in Nat
      BY <2>3
    <3>2. IsFiniteSet(1..Len(layout))
      BY <3>1, FS_Interval
    <3>q. QED BY <3>1, <3>2 DEF IsFiniteMap
  <2>5. total \in Nat
    BY <2>4, TotalNat DEF LayoutBytes
  <2>q. QED BY <2>1, <2>2, <2>5
<1> HIDE DEF layout, total
<1> DEFINE c == Begin(va, total, layout, <<>>, 0, "map")
<1>4. /\ c.va = va /\ c.size = total /\ c.todo = layout /\ c.blocks = <<>> /\ c.num_mapped = 0
      /\ c.offset = 0 /\ c.step = "map"
  BY DEF Begin
<1> HIDE DEF c
<1>5. /\ DOMAIN call' = Threads /\ call'[t] = c
      /\ \A u \in Threads : u # t => call'[u] = call[u]
  BY <1>1 DEF TypeOK, c
<1>6. Calls' = Calls \union {t} /\ t \notin Calls
  BY <1>2, <1>4, <1>5 DEF Calls, InStep
<1>7. Numbers'
  BY <1>2, <1>3, <1>4, <1>5, NumbersKept DEF live
<1>8. Ranged'
  <2>1. /\ DOMAIN reserved' = DOMAIN reserved \union {va} /\ reserved'[va] = total
        /\ \A w \in DOMAIN reserved : reserved'[w] = reserved[w] /\ w # va
    BY <1>1 DEF AddRange
  <2>2. \A w \in DOMAIN reserved' :
          \/ w \in DOMAIN allocs_' /\ reserved'[w] = allocs_'[w]
          \/ \E u \in Calls' : w = call'[u].va /\ reserved'[w] = call'[u].size
    <3> SUFFICES ASSUME NEW w \in DOMAIN reserved'
                 PROVE  \/ w \in DOMAIN allocs_' /\ reserved'[w] = allocs_'[w]
                        \/ \E u \in Calls' : w = call'[u].va /\ reserved'[w] = call'[u].size
      OBVIOUS
    <3>1. CASE w = va
      BY <1>4, <1>5, <1>6, <2>1, <3>1
    <3>2. CASE w \in DOMAIN reserved
      <4>1. \A u \in Calls : u \in Calls' /\ call'[u] = call[u]
        BY <1>5, <1>6 DEF Calls
      <4>q. QED BY <1>2, <2>1, <3>2, <4>1 DEF Ranged, live
    <3>q. QED BY <2>1, <3>1, <3>2
  <2>3. \A w \in DOMAIN reserved' : reserved'[w] \in Nat \ {0} /\ w + reserved'[w] <= VASize
    BY <1>1, <1>3, <2>1 DEF Ranged
  <2>4. PairwiseDisjoint(reserved)'
    BY <1>1, <2>1 DEF Ranged, PairwiseDisjoint, Disjoint
  <2>q. QED BY <1>2, <2>2, <2>3, <2>4 DEF Ranged, live
<1>9. CallShape(mapping', call'[t])
  <2>1. Inside(mapping', <<>>, va, total)
    BY NoBlocks DEF Inside
  <2>2. Len(<<>>) = 0
    OBVIOUS
  <2>3. Chain(mapping', <<>>, 0, va)
    BY <2>2 DEF Chain
  <2>4. 0 + LayoutBytes(layout) = total
    BY <1>3 DEF total
  <2>q. QED BY <1>4, <1>5, <2>1, <2>2, <2>3, <2>4 DEF CallShape
<1>10. Shaped' /\ Opened'
  <2>1. SameAt(mapping, mapping', taken \ CallHolds(t))
    BY <1>2 DEF SameAt
  <2>q. QED BY <1>2, <1>5, <1>9, <2>1, OthersShaped DEF live
<1>11. Mappings'
  BY <1>2 DEF Mappings
<1>q. QED BY <1>7, <1>8, <1>10, <1>11

LEMMA MapBlockMapped ==
  ASSUME LargeInv, MappedInv, NEW t \in Threads, MapBlock(t)
  PROVE  MappedInv'
<1> USE DEF LargeInv, MappedInv
<1> DEFINE c == call[t]
           size == Head(c.todo)
           va == c.va + c.offset
           d == call'[t]
<1>1. PICK h \in Handles \ taken :
        /\ BlockSize[h] = size /\ Mappable(va, size)
        /\ taken' = taken \union {h}
        /\ memMap(va, h)
        /\ call' = [call EXCEPT ![t].todo = Tail(@), ![t].blocks = Append(@, h),
                      ![t].num_mapped = @ + 1, ![t].offset = @ + size]
  BY DEF MapBlock
<1>2. /\ InStep(t, "map") /\ c.todo # <<>>
      /\ UNCHANGED <<live, peer_devices_, reserved>>
  BY DEF MapBlock
<1>3. /\ DOMAIN call' = Threads /\ \A u \in Threads : u # t => call'[u] = call[u]
      /\ d.todo = Tail(c.todo) /\ d.blocks = Append(c.blocks, h)
      /\ d.num_mapped = c.num_mapped + 1 /\ d.offset = c.offset + size
      /\ d.va = c.va /\ d.size = c.size /\ d.step = "map"
  BY <1>1, <1>2 DEF TypeOK, InStep
<1>4. /\ c.size \in Nat /\ c.offset \in Nat /\ c.num_mapped \in Nat
      /\ c.todo \in Seq(BlockClasses) /\ c.blocks \in Seq(Handles)
      /\ c.va \in Nat /\ t \in Calls /\ CallShape(mapping, c) /\ c.step = "map"
  BY <1>2, PlacesAssumption DEF Numbers, TypeOK, Calls, InStep, Shaped
<1> HIDE DEF c, d
<1>5. /\ size \in Nat \ {0} /\ Tail(c.todo) \in Seq(BlockClasses)
      /\ LayoutBytes(Tail(c.todo)) \in Nat
      /\ LayoutBytes(c.todo) = size + LayoutBytes(Tail(c.todo))
  <2>1. BlockClasses \subseteq Nat /\ BlockClasses \subseteq Nat \ {0}
    BY ClassFacts
  <2>2. c.todo \in Seq(Nat)
    BY <1>4, <2>1, SeqSubset
  <2>3. size \in BlockClasses /\ Tail(c.todo) \in Seq(BlockClasses)
    BY <1>2, <1>4
  <2>4. IsFiniteMap(Tail(c.todo)) /\ Total(c.todo) = size + Total(Tail(c.todo))
    BY <1>2, <2>2, TotalTail
  <2>q. QED BY <2>1, <2>3, <2>4, TotalNat DEF LayoutBytes
<1> HIDE DEF size
<1>6. va \in Nat
  BY <1>4
<1> HIDE DEF va
<1>7. /\ Mappings' /\ va \notin DOMAIN mapping
      /\ \A w \in DOMAIN mapping : mapping[w] # h
  BY <1>1, <1>6, MapAdds
<1>8. mapping' = AddRange(mapping, va, h) /\ access' = AddRange(access, va, {})
  BY <1>1 DEF memMap
<1>9. Numbers'
  <2>1. d.offset \in Nat /\ d.num_mapped \in Nat /\ d.size \in Nat /\ d.todo \in Seq(BlockClasses)
    BY <1>3, <1>4, <1>5
  <2>q. QED BY <1>2, <1>3, <2>1, NumbersKept DEF live, d
<1>10. Ranged'
  <2>1. ~ InStep(t, "idle")'
    BY <1>3 DEF InStep, d
  <2>q. QED BY <1>2, <1>3, <1>4, <2>1, RangedKept DEF live, c, d
<1>11. /\ c.num_mapped = Len(c.blocks) /\ Chain(mapping, c.blocks, Len(c.blocks), c.va)
       /\ IF c.blocks = <<>> THEN c.offset = 0 ELSE EndsAt(mapping, c.blocks, va)
       /\ c.offset + LayoutBytes(c.todo) = c.size
       /\ Inside(mapping, c.blocks, c.va, c.size)
  BY <1>4 DEF CallShape, va
<1>12. h \notin Range(c.blocks)
  BY <1>1 DEF Owned, CallHolds, c
<1>13. /\ Chain(mapping', d.blocks, d.num_mapped, d.va)
       /\ EndsAt(mapping', d.blocks, d.va + d.offset)
  <2>1. IF c.blocks = <<>> THEN va = c.va ELSE EndsAt(mapping, c.blocks, va)
    BY <1>4, <1>11 DEF va
  <2>2. /\ Chain(mapping', d.blocks, Len(c.blocks) + 1, c.va)
        /\ EndsAt(mapping', d.blocks, va + BlockSize[h])
    BY <1>3, <1>4, <1>7, <1>8, <1>11, <1>12, <2>1, ChainGrows
  <2>3. va + BlockSize[h] = d.va + d.offset
    BY <1>1, <1>3, <1>4, <1>5 DEF va
  <2>q. QED BY <1>3, <1>11, <2>2, <2>3
<1>14. /\ d.blocks \in Seq(Handles) /\ Range(d.blocks) = Range(c.blocks) \union {h}
       /\ d.blocks # <<>> /\ Len(d.blocks) = Len(c.blocks) + 1
  BY <1>3, <1>4, BlockAppended
<1>15. Inside(mapping', d.blocks, d.va, d.size)
  <2>1. c.va <= va /\ va + size <= c.va + c.size
    BY <1>4, <1>5, <1>11 DEF va
  <2>2. \A w \in DOMAIN mapping' : \/ w = va /\ mapping'[w] = h
                                   \/ w \in DOMAIN mapping /\ mapping'[w] = mapping[w]
    BY <1>8 DEF AddRange
  <2>q. QED BY <1>1, <1>3, <1>7, <1>11, <1>14, <2>1, <2>2 DEF Inside
<1>16. d.offset + LayoutBytes(d.todo) = d.size
  BY <1>3, <1>4, <1>5, <1>11
<1>17. CallShape(mapping', d)
  BY <1>3, <1>11, <1>13, <1>14, <1>15, <1>16 DEF CallShape
<1>18. Shaped' /\ Opened'
  <2>1. SameAt(mapping, mapping', taken \ CallHolds(t))
    BY <1>1, <1>7, <1>8 DEF SameAt, At, AddRange
  <2>2. \A w \in DOMAIN mapping' : w \in DOMAIN mapping => access[w] \subseteq access'[w]
    BY <1>7, <1>8 DEF AddRange, TypeOK
  <2>q. QED BY <1>2, <1>3, <1>17, <2>1, <2>2, OthersShaped DEF live, d
<1>q. QED BY <1>7, <1>9, <1>10, <1>18

LEMMA AllocateFailsMapped ==
  ASSUME LargeInv, MappedInv, NEW t \in Threads, AllocateFails(t)
  PROVE  MappedInv'
<1> USE DEF LargeInv, MappedInv
<1> DEFINE c == call[t]
           d == call'[t]
           Undoes == /\ DOMAIN call' = Threads
                     /\ \A u \in Threads : u # t => call'[u] = call[u]
                     /\ d.todo = c.todo /\ d.num_mapped = c.num_mapped /\ d.offset = 0
                     /\ d.va = c.va /\ d.size = c.size /\ d.step = "unmap"
<1>1. /\ InStep(t, "map") /\ UNCHANGED <<live, peer_devices_, driver>>
  BY DEF AllocateFails
<1>2. /\ c.size \in Nat /\ c.offset \in Nat /\ c.num_mapped \in Nat
      /\ c.todo \in Seq(BlockClasses) /\ c.blocks \in Seq(Handles)
      /\ c.va \in Nat /\ t \in Calls /\ CallShape(mapping, c) /\ c.step = "map"
  BY <1>1, PlacesAssumption DEF Numbers, TypeOK, Calls, InStep, Shaped
<1>3. \/ Undoes /\ d.blocks = c.blocks /\ taken' = taken
      \/ Undoes /\ \E h \in Handles \ taken :
           d.blocks = Append(c.blocks, h) /\ taken' = taken \union {h}
  <2>1. CASE /\ call' = [call EXCEPT ![t].step = "unmap", ![t].offset = 0]
             /\ UNCHANGED taken
    BY <2>1 DEF TypeOK
  <2>2. ASSUME NEW h \in Handles \ taken, taken' = taken \union {h},
               call' = [call EXCEPT ![t].step = "unmap", ![t].offset = 0,
                                    ![t].blocks = Append(@, h)]
        PROVE  Undoes /\ d.blocks = Append(c.blocks, h) /\ taken' = taken \union {h}
    BY <2>2 DEF TypeOK
  <2> HIDE DEF c, d, Undoes
  <2>q. QED BY <2>1, <2>2 DEF AllocateFails
<1> HIDE DEF c, d
<1>4. /\ c.num_mapped = Len(c.blocks) /\ Chain(mapping, c.blocks, Len(c.blocks), c.va)
      /\ Inside(mapping, c.blocks, c.va, c.size)
  BY <1>2 DEF CallShape
<1>5. \A w \in DOMAIN mapping : mapping[w] \in taken
  BY DEF Mappings
<1>6. Undoes /\ taken \subseteq taken'
  BY <1>3
<1>7. /\ Chain(mapping, d.blocks, d.num_mapped, d.va + d.offset)
      /\ Inside(mapping, d.blocks, d.va, d.size)
  <2>0. d.va + d.offset = c.va /\ d.va = c.va /\ d.num_mapped = Len(c.blocks) /\ d.size = c.size
    BY <1>2, <1>4, <1>6
  <2>1. CASE d.blocks = c.blocks
    BY <1>4, <2>0, <2>1
  <2>2. ASSUME NEW h \in Handles \ taken, d.blocks = Append(c.blocks, h)
        PROVE  /\ Chain(mapping, d.blocks, d.num_mapped, d.va + d.offset)
               /\ Inside(mapping, d.blocks, d.va, d.size)
    <3>1. \A w \in DOMAIN mapping : mapping[w] # h
      BY <1>5
    <3>2. Chain(mapping, Append(c.blocks, h), Len(c.blocks), c.va)
      BY <1>2, <1>4, <3>1, ChainUnmappedEnd
    <3>3. Range(d.blocks) = Range(c.blocks) \union {h}
      BY <1>2, <2>2, BlockAppended
    <3>q. QED BY <1>4, <2>0, <2>2, <3>1, <3>2, <3>3 DEF Inside
  <2>q. QED BY <1>3, <2>1, <2>2
<1>8. mapping' = mapping /\ access' = access
  BY <1>1 DEF driver
<1>9. CallShape(mapping', d)
  BY <1>6, <1>7, <1>8 DEF CallShape
<1>10. Numbers'
  <2>1. d.offset \in Nat /\ d.num_mapped \in Nat /\ d.size \in Nat /\ d.todo \in Seq(BlockClasses)
    BY <1>2, <1>6
  <2>q. QED BY <1>1, <1>6, <2>1, NumbersKept DEF live, d
<1>11. Ranged'
  <2>1. ~ InStep(t, "idle")'
    BY <1>6 DEF InStep, d
  <2>q. QED BY <1>1, <1>2, <1>6, <2>1, RangedKept DEF live, driver, c, d
<1>12. Shaped' /\ Opened'
  <2>1. SameAt(mapping, mapping', taken \ CallHolds(t))
    BY <1>8 DEF SameAt
  <2>q. QED BY <1>1, <1>6, <1>8, <1>9, <2>1, OthersShaped DEF live, d
<1>13. Mappings'
  BY <1>5, <1>6, <1>8, MappingsShrink
<1>q. QED BY <1>10, <1>11, <1>12, <1>13

LEMMA UnmapBlockMapped ==
  ASSUME LargeInv, MappedInv, NEW t \in Threads, UnmapBlock(t)
  PROVE  MappedInv'
<1> USE DEF LargeInv, MappedInv
<1> DEFINE c == call[t]
           d == call'[t]
           hd == Head(c.blocks)
           tl == Tail(c.blocks)
           va == c.va + c.offset
<1>1. /\ InStep(t, "unmap") /\ c.blocks # <<>>
      /\ UNCHANGED <<mu_, live, peer_devices_, reserved, taken>>
  BY DEF UnmapBlock
<1>2. /\ c.size \in Nat /\ c.offset \in Nat /\ c.num_mapped \in Nat
      /\ c.todo \in Seq(BlockClasses) /\ c.blocks \in Seq(Handles)
      /\ c.va \in Nat /\ t \in Calls /\ CallShape(mapping, c) /\ c.step = "unmap"
      /\ IsInjective(c.blocks)
  BY <1>1, PlacesAssumption DEF Numbers, TypeOK, Calls, InStep, Shaped, Owned
<1>3. /\ DOMAIN call' = Threads /\ \A u \in Threads : u # t => call'[u] = call[u]
      /\ d.todo = c.todo /\ d.blocks = c.blocks
      /\ d.va = c.va /\ d.size = c.size /\ d.step = "return"
      /\ \/ /\ c.num_mapped > 0 /\ memUnmap(va, BlockSize[hd])
            /\ d.num_mapped = c.num_mapped - 1 /\ d.offset = c.offset + BlockSize[hd]
         \/ /\ c.num_mapped = 0 /\ mapping' = mapping /\ access' = access
            /\ d.num_mapped = c.num_mapped /\ d.offset = c.offset
  BY DEF UnmapBlock, TypeOK
<1> HIDE DEF c, d
<1>4. /\ hd \in Range(c.blocks) /\ hd \in Handles /\ tl \in Seq(Handles)
      /\ Range(c.blocks) = Range(tl) \union {hd}
  <2>1. hd \in Handles
    BY <1>1, <1>2
  <2>q. QED BY <1>1, <1>2, <2>1, BlockDropped
<1> HIDE DEF va
<1>5. /\ Chain(mapping, c.blocks, c.num_mapped, va)
      /\ Inside(mapping, c.blocks, c.va, c.size)
  BY <1>2 DEF CallShape, va
<1>6. BlockSize[hd] \in Nat
  BY <1>4, BlockFacts
<1>n. d.offset \in Nat /\ d.num_mapped \in Nat
  BY <1>2, <1>3, <1>6
<1>7. /\ DOMAIN mapping' \subseteq DOMAIN mapping
      /\ \A w \in DOMAIN mapping' : mapping'[w] = mapping[w] /\ access'[w] = access[w]
      /\ \A w \in DOMAIN mapping \ DOMAIN mapping' : mapping[w] = hd
      /\ \A w \in DOMAIN mapping' : mapping'[w] # hd
      /\ Chain(mapping', tl, d.num_mapped, d.va + d.offset)
  <2>1. CASE c.num_mapped = 0
    <3>1. /\ \A w \in DOMAIN mapping : mapping[w] # hd
          /\ Chain(mapping, tl, 0, d.va + d.offset)
      BY <1>1, <1>2, <1>5, <2>1, ChainNone
    <3>2. mapping' = mapping /\ access' = access /\ d.num_mapped = 0
      BY <1>3, <2>1
    <3> HIDE DEF hd, tl
    <3>q. QED BY <3>1, <3>2
  <2>2. CASE c.num_mapped > 0
    <3>0. c.num_mapped # 0
      BY <1>2, <2>2
    <3>1. /\ memUnmap(va, BlockSize[hd])
          /\ d.num_mapped = c.num_mapped - 1 /\ d.offset = c.offset + BlockSize[hd]
      BY <1>3, <3>0
    <3>2. va \in DOMAIN mapping /\ mapping[va] = hd
      <4>1. hd = c.blocks[1]
        BY <1>1, <1>2
      <4>q. QED BY <1>5, <2>2, <4>1 DEF Chain, At
    <3>3. /\ DOMAIN mapping' = DOMAIN mapping \ {va}
          /\ \A w \in DOMAIN mapping' : mapping'[w] = mapping[w] /\ access'[w] = access[w]
      BY <3>1, <3>2, UnmapsOne DEF Mappings
    <3>4. \A w, x \in DOMAIN mapping : w # x => mapping[w] # mapping[x]
      BY DEF Mappings
    <3>5. /\ \A w \in DOMAIN mapping' : mapping'[w] # hd
          /\ Chain(mapping', tl, c.num_mapped - 1, va + BlockSize[hd])
      BY <1>1, <1>2, <1>5, <2>2, <3>3, <3>4, ChainShrinks
    <3>6. va + BlockSize[hd] = d.va + d.offset
      BY <1>2, <1>3, <1>6, <3>1 DEF va
    <3> HIDE DEF hd, tl
    <3>q. QED BY <3>1, <3>2, <3>3, <3>5, <3>6
  <2>q. QED BY <1>2, <2>1, <2>2
<1> HIDE DEF hd, tl
<1>8. CallShape(mapping', d)
  <2>1. Inside(mapping', d.blocks, d.va, d.size)
    BY <1>3, <1>5, <1>7 DEF Inside
  <2>q. QED BY <1>3, <1>7, <2>1 DEF CallShape, hd, tl
<1>9. Numbers'
  BY <1>1, <1>2, <1>3, <1>n, NumbersKept DEF live, d
<1>10. Ranged'
  <2>1. ~ InStep(t, "idle")'
    BY <1>3 DEF InStep, d
  <2>q. QED BY <1>1, <1>2, <1>3, <2>1, RangedKept DEF live, c, d
<1>11. Shaped' /\ Opened'
  <2>1. hd \in CallHolds(t)
    BY <1>4 DEF CallHolds, c
  <2>2. SameAt(mapping, mapping', taken \ CallHolds(t))
    BY <1>7, <2>1 DEF SameAt, At
  <2>q. QED BY <1>1, <1>3, <1>7, <1>8, <2>2, OthersShaped DEF live, d
<1>12. Mappings'
  <2>1. \A w \in DOMAIN mapping' : mapping'[w] \in taken'
    BY <1>1, <1>7 DEF Mappings
  <2>q. QED BY <1>7, <2>1, MappingsShrink
<1>q. QED BY <1>9, <1>10, <1>11, <1>12

LEMMA ReturnBlockMapped ==
  ASSUME LargeInv, MappedInv, NEW t \in Threads, ReturnBlock(t)
  PROVE  MappedInv'
<1> USE DEF LargeInv, MappedInv
<1> DEFINE c == call[t]
           d == call'[t]
           hd == Head(c.blocks)
           tl == Tail(c.blocks)
<1>1. /\ InStep(t, "return") /\ taken' = taken \ {hd}
      /\ UNCHANGED <<mu_, live, peer_devices_, driver>>
  BY DEF ReturnBlock
<1>2. /\ c.size \in Nat /\ c.offset \in Nat /\ c.num_mapped \in Nat
      /\ c.todo \in Seq(BlockClasses) /\ c.blocks \in Seq(Handles) /\ c.blocks # <<>>
      /\ t \in Calls /\ CallShape(mapping, c) /\ c.step = "return"
  BY <1>1 DEF Numbers, TypeOK, Calls, InStep, Shaped, Homes
<1>3. /\ DOMAIN call' = Threads /\ \A u \in Threads : u # t => call'[u] = call[u]
      /\ d.todo = c.todo /\ d.blocks = tl
      /\ d.va = c.va /\ d.size = c.size /\ d.step = "unmap"
      /\ d.num_mapped = c.num_mapped /\ d.offset = c.offset
  BY DEF ReturnBlock, TypeOK
<1> HIDE DEF c, d
<1>4. Range(c.blocks) = Range(tl) \union {hd}
  BY <1>2, BlockDropped
<1>5. /\ \A w \in DOMAIN mapping : mapping[w] # hd
      /\ Chain(mapping, tl, c.num_mapped, c.va + c.offset)
      /\ Inside(mapping, c.blocks, c.va, c.size)
  BY <1>2 DEF CallShape
<1> HIDE DEF hd, tl
<1>6. mapping' = mapping /\ access' = access
  BY <1>1 DEF driver
<1>7. CallShape(mapping', d)
  <2>1. Inside(mapping', d.blocks, d.va, d.size)
    BY <1>3, <1>4, <1>5, <1>6 DEF Inside
  <2>q. QED BY <1>3, <1>5, <1>6, <2>1 DEF CallShape
<1>8. Numbers'
  BY <1>1, <1>2, <1>3, NumbersKept DEF live, d
<1>9. Ranged'
  <2>1. ~ InStep(t, "idle")'
    BY <1>3 DEF InStep, d
  <2>q. QED BY <1>1, <1>2, <1>3, <2>1, RangedKept DEF live, driver, c, d
<1>10. Shaped' /\ Opened'
  <2>1. SameAt(mapping, mapping', taken \ CallHolds(t))
    BY <1>6 DEF SameAt
  <2>q. QED BY <1>1, <1>3, <1>6, <1>7, <2>1, OthersShaped DEF live, d
<1>11. Mappings'
  <2>1. \A w \in DOMAIN mapping' : mapping'[w] \in taken'
    BY <1>1, <1>5, <1>6 DEF Mappings
  <2>q. QED BY <1>6, <2>1, MappingsShrink
<1>q. QED BY <1>8, <1>9, <1>10, <1>11

LEMMA IdleNumbers ==
  /\ NoCall.size \in Nat /\ NoCall.offset \in Nat /\ NoCall.num_mapped \in Nat
  /\ NoCall.todo \in Seq(BlockClasses)
<1>1. <<>> \in Seq(BlockClasses)
  OBVIOUS
<1>2. NoCall.todo = <<>> /\ NoCall.size = 0 /\ NoCall.offset = 0 /\ NoCall.num_mapped = 0
  BY DEF NoCall, Begin
<1>q. QED BY <1>1, <1>2

LEMMA RangeSizes ==
  ASSUME LargeInv, Ranged
  PROVE  /\ \A t \in Calls : /\ call[t].va \in DOMAIN reserved
                             /\ reserved[call[t].va] = call[t].size
                             /\ call[t].size \in Nat \ {0}
         /\ \A va \in DOMAIN allocs_ : /\ va \in DOMAIN reserved
                                       /\ reserved[va] = allocs_[va]
                                       /\ allocs_[va] \in Nat \ {0}
  BY DEF LargeInv, Homes, Ranged

LEMMA ReleaseAddressMapped ==
  ASSUME LargeInv, MappedInv, NEW t \in Threads, ReleaseAddress(t)
  PROVE  MappedInv' /\ reserved' = RemoveRange(reserved, call[t].va)
<1> USE DEF LargeInv, MappedInv
<1> DEFINE c == call[t]
<1>1. /\ t \in Calls /\ InStep(t, "unmap") /\ c.blocks = <<>>
      /\ call' = [call EXCEPT ![t] = NoCall]
      /\ UNCHANGED <<live, peer_devices_, mapping, access, taken>>
  BY DEF ReleaseAddress, InStep, Calls
<1>2. /\ DOMAIN call' = Threads /\ call'[t] = NoCall
      /\ \A u \in Threads : u # t => call'[u] = call[u]
  BY <1>1 DEF TypeOK
<1>3. /\ NoCall.size = 0 /\ NoCall.offset = 0 /\ NoCall.num_mapped = 0 /\ NoCall.todo = <<>>
      /\ NoCall.step = "idle"
  BY DEF NoCall, Begin
<1>4. CallHolds(t) = {}
  BY <1>1, NoBlocks DEF CallHolds
<1> HIDE DEF c
<1>5. Within(c.va, c.size) = {}
  <2> SUFFICES ASSUME NEW w \in DOMAIN mapping
               PROVE  Disjoint(c.va, c.size, w, BlockSize[mapping[w]])
    BY DEF Within
  <2>0. w \in Nat /\ BlockSize[mapping[w]] \in Nat /\ mapping[w] \in taken
    BY BlockFacts DEF Mappings, TypeOK
  <2>1. /\ c.va \in DOMAIN reserved /\ reserved[c.va] = c.size /\ c.size \in Nat
        /\ c.va \in Nat /\ c.va \notin DOMAIN allocs_
    BY <1>1, RangeSizes, PlacesAssumption DEF c, Homes, TypeOK
  <2>2. ASSUME NEW va \in DOMAIN reserved, NEW size, size = reserved[va], va # c.va, NEW s,
               Inside(mapping, s, va, size), mapping[w] \in Range(s)
        PROVE  Disjoint(c.va, c.size, w, BlockSize[mapping[w]])
    <3>1. Disjoint(c.va, c.size, va, size)
      BY <2>1, <2>2 DEF Ranged, PairwiseDisjoint
    <3>2. va <= w /\ w + BlockSize[mapping[w]] <= va + size
      BY <2>2 DEF Inside
    <3>3. va \in Nat /\ size \in Nat
      BY <2>2, PlacesAssumption DEF TypeOK, Ranged
    <3>q. QED BY <2>0, <2>1, <3>1, <3>2, <3>3 DEF Disjoint
  <2>3. CASE \E va \in DOMAIN allocs_ : mapping[w] \in LiveHolds(va)
    <3>1. PICK va \in DOMAIN allocs_ : mapping[w] \in LiveHolds(va)
      BY <2>3
    <3>2. va \in DOMAIN reserved /\ reserved[va] = allocs_[va] /\ va # c.va
      BY <2>1, RangeSizes
    <3>3. Inside(mapping, alloc_blocks[va], va, allocs_[va])
      BY DEF Shaped, LiveShape
    <3>q. QED BY <2>2, <3>1, <3>2, <3>3 DEF LiveHolds
  <2>4. CASE \E u \in Calls : mapping[w] \in CallHolds(u)
    <3>1. PICK u \in Calls : mapping[w] \in CallHolds(u)
      BY <2>4
    <3>2. u # t
      BY <1>4, <3>1
    <3>3. call[u].va \in DOMAIN reserved /\ reserved[call[u].va] = call[u].size /\ call[u].va # c.va
      BY <1>1, <3>2, RangeSizes DEF Homes, c
    <3>4. Inside(mapping, call[u].blocks, call[u].va, call[u].size)
      BY DEF Shaped, CallShape
    <3>q. QED BY <2>2, <3>1, <3>3, <3>4 DEF CallHolds
  <2>q. QED BY <2>0, <2>3, <2>4, Holder
<1>6. reserved' = RemoveRange(reserved, c.va)
  BY <1>5 DEF ReleaseAddress, c
<1>7. Calls' = Calls \ {t}
  BY <1>2, <1>3 DEF Calls, InStep
<1>8. Numbers'
  BY <1>1, <1>2, IdleNumbers, NumbersKept DEF live
<1>9. Ranged'
  <2>1. /\ DOMAIN reserved' = DOMAIN reserved \ {c.va}
        /\ \A va \in DOMAIN reserved' : reserved'[va] = reserved[va]
    BY <1>6 DEF RemoveRange
  <2>2. \A u \in Calls : u # t => u \in Calls' /\ call'[u] = call[u]
    BY <1>2, <1>7 DEF Calls
  <2>3. \A va \in DOMAIN reserved' :
          \/ va \in DOMAIN allocs_' /\ reserved'[va] = allocs_'[va]
          \/ \E u \in Calls' : va = call'[u].va /\ reserved'[va] = call'[u].size
    BY <1>1, <2>1, <2>2 DEF Ranged, live, c
  <2>4. PairwiseDisjoint(reserved)'
    BY <2>1 DEF Ranged, PairwiseDisjoint
  <2>q. QED BY <1>1, <2>1, <2>3, <2>4 DEF Ranged, live
<1>10. Shaped' /\ Opened'
  <2>1. SameAt(mapping, mapping', taken \ CallHolds(t))
    BY <1>1 DEF SameAt
  <2>2. t \notin Calls'
    BY <1>7
  <2>q. QED BY <1>1, <1>2, <2>1, <2>2, OthersShaped DEF live
<1>11. Mappings'
  BY <1>1 DEF Mappings
<1>q. QED BY <1>6, <1>8, <1>9, <1>10, <1>11 DEF c

LEMMA RecordMapped ==
  ASSUME LargeInv, MappedInv, NEW t \in Threads, Record(t)
  PROVE  MappedInv'
<1> USE DEF LargeInv, MappedInv
<1> DEFINE c == call[t]
           va == c.va
<1>1. /\ t \in Calls /\ c.step = "map" /\ c.todo = <<>>
      /\ allocs_' = AddRange(allocs_, va, c.size)
      /\ alloc_blocks' = AddRange(alloc_blocks, va, c.blocks)
      /\ allocated_bytes_' = allocated_bytes_ + c.size
      /\ call' = [call EXCEPT ![t] = NoCall]
      /\ UNCHANGED <<peer_devices_, reserved, mapping, taken>>
  BY DEF Record, InStep, Calls
<1>2. access' = Grant(va, c.size, {device_} \union peer_devices_)
  BY DEF Record, setAccess
<1>3. /\ DOMAIN call' = Threads /\ call'[t] = NoCall
      /\ \A u \in Threads : u # t => call'[u] = call[u]
  BY <1>1 DEF TypeOK
<1>4. /\ NoCall.size = 0 /\ NoCall.offset = 0 /\ NoCall.num_mapped = 0 /\ NoCall.todo = <<>>
      /\ NoCall.step = "idle"
  BY DEF NoCall, Begin
<1>5. /\ c.offset \in Nat /\ CallShape(mapping, c) /\ va \in Nat
      /\ c.blocks \in Seq(Handles)
  BY <1>1, PlacesAssumption DEF Numbers, TypeOK, Shaped, Calls
<1>6. /\ va \in DOMAIN reserved /\ reserved[va] = c.size /\ c.size \in Nat \ {0}
      /\ va \notin DOMAIN allocs_
  BY <1>1, RangeSizes DEF Homes
<1> HIDE DEF c, va
<1>7. /\ DOMAIN allocs_' = DOMAIN allocs_ \union {va} /\ allocs_'[va] = c.size
      /\ alloc_blocks'[va] = c.blocks /\ DOMAIN alloc_blocks = DOMAIN allocs_
      /\ \A w \in DOMAIN allocs_ : /\ allocs_'[w] = allocs_[w] /\ w # va
                                   /\ alloc_blocks'[w] = alloc_blocks[w]
  BY <1>1, <1>6 DEF AddRange, TypeOK
<1>8. Calls' = Calls \ {t}
  BY <1>3, <1>4 DEF Calls, InStep
<1>9. \A u \in Calls : u # t => u \in Calls' /\ call'[u] = call[u]
  BY <1>3, <1>8 DEF Calls
<1>10. IsFiniteMap(allocs_') /\ Total(allocs_') = Total(allocs_) + c.size
  BY <1>6, <1>7, TotalAdd DEF Numbers
<1>11. Numbers'
  <2>1. \A u \in Threads : /\ call'[u].size \in Nat /\ call'[u].offset \in Nat
                           /\ call'[u].num_mapped \in Nat /\ call'[u].todo \in Seq(BlockClasses)
    <3> SUFFICES ASSUME NEW u \in Threads
                 PROVE  /\ call'[u].size \in Nat /\ call'[u].offset \in Nat
                        /\ call'[u].num_mapped \in Nat /\ call'[u].todo \in Seq(BlockClasses)
      OBVIOUS
    <3>1. call'[u] = NoCall \/ call'[u] = call[u]
      BY <1>3
    <3>q. QED BY <3>1, IdleNumbers DEF Numbers
  <2>q. QED BY <1>10, <2>1 DEF Numbers
<1>12. Ranged'
  <2>1. \A w \in DOMAIN reserved' :
          \/ w \in DOMAIN allocs_' /\ reserved'[w] = allocs_'[w]
          \/ \E u \in Calls' : w = call'[u].va /\ reserved'[w] = call'[u].size
    <3> SUFFICES ASSUME NEW w \in DOMAIN reserved
                 PROVE  \/ w \in DOMAIN allocs_' /\ reserved[w] = allocs_'[w]
                        \/ \E u \in Calls' : w = call'[u].va /\ reserved[w] = call'[u].size
      BY <1>1
    <3>1. CASE w = va
      BY <1>6, <1>7, <3>1
    <3>2. CASE w # va
      BY <1>7, <1>9, <3>2 DEF Ranged, va, c
    <3>q. QED BY <3>1, <3>2
  <2>q. QED BY <1>1, <1>10, <2>1 DEF Ranged
<1>13. LiveShape(mapping, c.blocks, va, c.size)
  <2>1. LayoutBytes(c.todo) = 0
    <3>1. DOMAIN (<<>>) = {}
      OBVIOUS
    <3>q. QED BY <1>1, <3>1, TotalEmpty DEF LayoutBytes
  <2>2. c.offset = c.size
    BY <1>1, <1>5, <1>6, <2>1 DEF CallShape
  <2>3. c.blocks # <<>>
    BY <1>1, <1>5, <1>6, <2>2 DEF CallShape
  <2>q. QED BY <1>1, <1>5, <2>2, <2>3 DEF CallShape, LiveShape, va
<1>14. Shaped'
  <2>1. \A u \in Calls' : CallShape(mapping', call'[u])
    BY <1>1, <1>8, <1>9 DEF Shaped
  <2>2. \A w \in DOMAIN allocs_' : LiveShape(mapping', alloc_blocks'[w], w, allocs_'[w])
    BY <1>1, <1>7, <1>13 DEF Shaped
  <2>q. QED BY <2>1, <2>2 DEF Shaped
<1>15. Opened'
  <2> SUFFICES ASSUME NEW x \in DOMAIN allocs_', NEW w \in DOMAIN mapping,
                      mapping[w] \in Range(alloc_blocks'[x])
               PROVE  device_ \in access'[w]
    BY <1>1 DEF Opened, LiveHolds
  <2>1. access'[w] = IF w \in Within(va, c.size) THEN {device_} \union peer_devices_ ELSE access[w]
    BY <1>2 DEF Grant, TypeOK
  <2>2. CASE x = va
    <3>1. va <= w /\ w + BlockSize[mapping[w]] <= va + c.size
      BY <1>7, <1>13, <2>2 DEF LiveShape, Inside
    <3>2. w \in Nat /\ BlockSize[mapping[w]] \in Nat \ {0}
      BY BlockFacts DEF TypeOK, Mappings
    <3>3. w \in Within(va, c.size)
      BY <1>5, <1>6, <3>1, <3>2 DEF Within, Disjoint
    <3>q. QED BY <2>1, <3>3
  <2>3. CASE x \in DOMAIN allocs_
    BY <1>7, <2>1, <2>3 DEF Opened, LiveHolds
  <2>q. QED BY <1>7, <2>2, <2>3
<1>16. Mappings'
  BY <1>1 DEF Mappings
<1>q. QED BY <1>11, <1>12, <1>14, <1>15, <1>16

LEMMA FreeEraseMapped ==
  ASSUME LargeInv, MappedInv, NEW t \in Threads, NEW va \in DOMAIN allocs_, FreeErase(t, va)
  PROVE  MappedInv'
<1> USE DEF LargeInv, MappedInv
<1> DEFINE s == alloc_blocks[va]
           c == Begin(va, allocs_[va], <<>>, s, Len(s), "unmap")
<1>1. /\ t \notin Calls
      /\ allocs_' = RemoveRange(allocs_, va)
      /\ alloc_blocks' = RemoveRange(alloc_blocks, va)
      /\ allocated_bytes_' = allocated_bytes_ - allocs_[va]
      /\ call' = [call EXCEPT ![t] = c]
      /\ UNCHANGED <<mu_, peer_devices_, driver, taken>>
  BY DEF FreeErase, InStep, Calls
<1>2. /\ c.va = va /\ c.size = allocs_[va] /\ c.todo = <<>> /\ c.blocks = s
      /\ c.num_mapped = Len(s) /\ c.offset = 0 /\ c.step = "unmap"
  BY DEF Begin
<1> HIDE DEF c
<1>3. /\ DOMAIN call' = Threads /\ call'[t] = c
      /\ \A u \in Threads : u # t => call'[u] = call[u]
  BY <1>1 DEF TypeOK
<1>4. /\ va \in DOMAIN reserved /\ reserved[va] = allocs_[va] /\ allocs_[va] \in Nat \ {0}
      /\ va \in Nat /\ s \in Seq(Handles) /\ LiveShape(mapping, s, va, allocs_[va])
  BY RangeSizes, PlacesAssumption DEF TypeOK, Shaped
<1>5. Len(s) \in Nat /\ <<>> \in Seq(BlockClasses)
  BY <1>4
<1> HIDE DEF s
<1>6. /\ DOMAIN allocs_' = DOMAIN allocs_ \ {va} /\ DOMAIN alloc_blocks = DOMAIN allocs_
      /\ \A w \in DOMAIN allocs_' : /\ allocs_'[w] = allocs_[w]
                                    /\ alloc_blocks'[w] = alloc_blocks[w]
  BY <1>1 DEF RemoveRange, TypeOK
<1>7. Calls' = Calls \union {t}
  BY <1>2, <1>3 DEF Calls, InStep
<1>8. \A u \in Calls : u \in Calls' /\ call'[u] = call[u]
  BY <1>1, <1>3, <1>7 DEF Calls
<1>9. IsFiniteMap(allocs_') /\ Total(allocs_) = Total(allocs_') + allocs_[va]
  BY <1>6, TotalRemove DEF Numbers
<1>10. Numbers'
  <2>1. \A u \in Threads : /\ call'[u].size \in Nat /\ call'[u].offset \in Nat
                           /\ call'[u].num_mapped \in Nat /\ call'[u].todo \in Seq(BlockClasses)
    <3> SUFFICES ASSUME NEW u \in Threads
                 PROVE  /\ call'[u].size \in Nat /\ call'[u].offset \in Nat
                        /\ call'[u].num_mapped \in Nat /\ call'[u].todo \in Seq(BlockClasses)
      OBVIOUS
    <3>1. call'[u] = c \/ call'[u] = call[u]
      BY <1>3
    <3>2. c.size \in Nat /\ c.offset \in Nat /\ c.num_mapped \in Nat /\ c.todo \in Seq(BlockClasses)
      BY <1>2, <1>4, <1>5
    <3>q. QED BY <3>1, <3>2 DEF Numbers
  <2>q. QED BY <1>9, <2>1 DEF Numbers
<1>11. Ranged'
  <2>0. reserved' = reserved
    BY <1>1 DEF driver
  <2>1. \A w \in DOMAIN reserved' :
          \/ w \in DOMAIN allocs_' /\ reserved'[w] = allocs_'[w]
          \/ \E u \in Calls' : w = call'[u].va /\ reserved'[w] = call'[u].size
    <3> SUFFICES ASSUME NEW w \in DOMAIN reserved
                 PROVE  \/ w \in DOMAIN allocs_' /\ reserved[w] = allocs_'[w]
                        \/ \E u \in Calls' : w = call'[u].va /\ reserved[w] = call'[u].size
      BY <2>0
    <3>1. CASE w = va
      BY <1>2, <1>3, <1>4, <1>7, <3>1
    <3>2. CASE w # va
      BY <1>6, <1>8, <3>2 DEF Ranged
    <3>q. QED BY <3>1, <3>2
  <2>2. Total(allocs_') \in Nat /\ allocated_bytes_ = Total(allocs_)
    BY <1>9, TotalNat DEF Ranged
  <2>3. allocated_bytes_' = Total(allocs_')
    BY <1>1, <1>4, <1>9, <2>2
  <2>q. QED BY <2>0, <2>1, <2>3 DEF Ranged
<1>12. CallShape(mapping', c)
  <2>1. va + 0 = va
    BY <1>4
  <2>q. QED BY <1>1, <1>2, <1>4, <2>1 DEF CallShape, LiveShape, driver
<1>13. Shaped'
  <2>1. \A u \in Calls' : CallShape(mapping', call'[u])
    BY <1>1, <1>3, <1>7, <1>8, <1>12 DEF Shaped, driver
  <2>2. \A w \in DOMAIN allocs_' : LiveShape(mapping', alloc_blocks'[w], w, allocs_'[w])
    BY <1>1, <1>6 DEF Shaped, driver
  <2>q. QED BY <2>1, <2>2 DEF Shaped
<1>14. Opened'
  BY <1>1, <1>6 DEF Opened, driver, LiveHolds
<1>15. Mappings'
  BY <1>1 DEF Mappings, driver
<1>q. QED BY <1>10, <1>11, <1>13, <1>14, <1>15

LEMMA InitMapped == Init => MappedInv
<1> SUFFICES ASSUME Init PROVE MappedInv OBVIOUS
<1> USE DEF Init, EmptyMap
<1>1. IsFiniteMap(allocs_) /\ Total(allocs_) = 0
  BY TotalEmpty
<1>2. Numbers
  <2>1. \A t \in Threads : call[t] = NoCall
    OBVIOUS
  <2>q. QED BY <1>1, <2>1, IdleNumbers DEF Numbers
<1>3. Ranged
  BY <1>1 DEF Ranged, PairwiseDisjoint
<1>4. Calls = {}
  BY DEF Calls, InStep, NoCall, Begin
<1>q. QED BY <1>2, <1>3, <1>4 DEF MappedInv, Mappings, Shaped, Opened

LEMMA NextMapped == LargeInv /\ MappedInv /\ [Next]_vars => MappedInv'
<1> SUFFICES ASSUME LargeInv, MappedInv, [Next]_vars PROVE MappedInv' OBVIOUS
<1>1. ASSUME NEW t \in Threads, Step(t) PROVE MappedInv'
  BY <1>1, ReserveMapped, MapBlockMapped, AllocateFailsMapped, RecordMapped, FreeEraseMapped,
     UnmapBlockMapped, ReturnBlockMapped, ReleaseAddressMapped DEF Step
<1>2. ASSUME NEW peer \in Peers, NEW ok \in BOOLEAN, addPeerDevice(peer, ok) PROVE MappedInv'
  <2>1. /\ UNCHANGED <<mu_, live, call, reserved, mapping, taken>>
        /\ \A w \in DOMAIN access : w \in DOMAIN access' /\ access[w] \subseteq access'[w]
    BY <1>2 DEF addPeerDevice
  <2>2. Opened'
    BY <2>1 DEF LargeInv, TypeOK, MappedInv, Opened, live, LiveHolds
  <2>3. Calls' = Calls
    BY <2>1 DEF Calls, InStep
  <2>q. QED BY <2>1, <2>2, <2>3 DEF MappedInv, Mappings, Numbers, Ranged, Shaped, live
<1>3. CASE UNCHANGED vars
  <2>1. Calls' = Calls
    BY <1>3 DEF Calls, InStep, vars
  <2>q. QED BY <1>3, <2>1 DEF vars, live, driver, MappedInv, Mappings, Numbers, Ranged, Shaped,
                             Opened, LiveHolds
<1>q. QED BY <1>1, <1>2, <1>3 DEF Next

LEMMA MappedHolds == Spec => [](LargeInv /\ MappedInv)
<1> DEFINE Inv == LargeInv /\ MappedInv
<1>1. Init => Inv
  BY InitLarge, InitMapped
<1>2. Inv /\ [Next]_vars => Inv'
  BY NextLarge, NextMapped
<1> HIDE DEF Inv
<1>3. Spec => []Inv
  BY <1>1, <1>2, PTL DEF Spec
<1>q. QED BY <1>3 DEF Inv

(* No two addresses reach the same block, and a block the manager may hand *)
(* out again is mapped nowhere: each holder's blocks lie one after the     *)
(* other from its address on, so memUnmap takes away exactly the block     *)
(* that is returned next.                                                  *)
THEOREM NoStaleMappingHolds == Spec => []NoStaleMapping
<1>1. LargeInv /\ MappedInv => NoStaleMapping
  <2> SUFFICES ASSUME MappedInv PROVE NoStaleMapping OBVIOUS
  <2>1. \A w, x \in DOMAIN mapping : mapping[w] = mapping[x] => w = x
    BY DEF MappedInv, Mappings
  <2>2. \A w \in DOMAIN mapping : mapping[w] \in taken
    BY DEF MappedInv, Mappings
  <2>q. QED BY <2>1, <2>2 DEF NoStaleMapping, IsInjective, Range
<1>q. QED BY <1>1, MappedHolds, PTL

(* The reserved ranges are those of the live allocations and of the calls  *)
(* on their way, none shared and none left behind by a call that failed,   *)
(* and allocated_bytes_ counts the live ones.                              *)
THEOREM AddressesOwnedHolds == Spec => []AddressesOwned
<1>1. LargeInv /\ MappedInv => AddressesOwned
  <2> SUFFICES ASSUME LargeInv, MappedInv PROVE AddressesOwned OBVIOUS
  <2>1. DOMAIN reserved = DOMAIN allocs_ \union {call[t].va : t \in Calls}
    <3>1. \A va \in DOMAIN allocs_ : va \in DOMAIN reserved
      BY DEF LargeInv, Homes
    <3>2. \A t \in Calls : call[t].va \in DOMAIN reserved
      BY DEF LargeInv, Homes
    <3>3. \A va \in DOMAIN reserved : va \in DOMAIN allocs_ \/ \E t \in Calls : va = call[t].va
      BY DEF MappedInv, Ranged
    <3>q. QED BY <3>1, <3>2, <3>3
  <2>q. QED BY <2>1 DEF LargeInv, MappedInv, Homes, Ranged, AddressesOwned
<1>q. QED BY <1>1, MappedHolds, PTL

(* Every allocation is packed as LayoutTight says: with less than one      *)
(* smallest block of waste, the whole multiple of the smallest class below *)
(* its size in the fewest blocks, and one more block for what is left.     *)
THEOREM PackedTightlyHolds == Spec => PackedTightly
<1>1. LargeInv => \A t \in Threads, request \in Requests :
                    Reserve(t, request) => IsTight(call'[t].todo, request)
  <2> SUFFICES ASSUME LargeInv, NEW t \in Threads, NEW request \in Requests, Reserve(t, request)
               PROVE  IsTight(call'[t].todo, request)
    OBVIOUS
  <2>1. request \in Nat \ {0}
    BY PlacesAssumption
  <2>2. t \in DOMAIN call
    BY DEF LargeInv, TypeOK
  <2>3. call'[t].todo = computeLayout(request)
    BY <2>2 DEF Reserve, Begin
  <2>q. QED BY <2>1, <2>3, LayoutTight
<1>2. LargeInv /\ [Next]_vars =>
        [\A t \in Threads, request \in Requests :
           Reserve(t, request) => IsTight(call'[t].todo, request)]_vars
  BY <1>1
<1>q. QED BY <1>2, InitLarge, NextLarge, PTL DEF Spec, PackedTightly

-----------------------------------------------------------------------------
(* LargeAllocator implements RangeAllocator *)

(* The blocks of a live range leave no byte of it out. *)
LEMMA Covers ==
  ASSUME TypeOK, Mappings, NEW s \in Seq(Handles), NEW va \in Nat, NEW size \in Nat \ {0},
         LiveShape(mapping, s, va, size),
         NEW x, x \in va..(va + size - 1)
  PROVE  \E w \in DOMAIN mapping :
           mapping[w] \in Range(s) /\ w <= x /\ x < w + BlockSize[mapping[w]]
<1> DEFINE Over(w, k) == w <= va + k /\ va + k < w + BlockSize[mapping[w]]
           Covered(k) == \E w \in DOMAIN mapping : mapping[w] \in Range(s) /\ Over(w, k)
           Good == {k \in 0..(size - 1) : Covered(k)}
<1>1. /\ Len(s) \in Nat /\ DOMAIN s = 1..Len(s) /\ Len(s) > 0
      /\ \A i \in 1..Len(s) : s[i] \in Range(s)
      /\ \A h \in Range(s) : \E i \in 1..Len(s) : s[i] = h
  BY DEF LiveShape, Range
<1>2. \A w \in DOMAIN mapping : w \in Nat /\ BlockSize[mapping[w]] \in Nat \ {0}
  BY BlockFacts DEF TypeOK, Mappings
<1>3. 0 \in Good
  <2>1. At(mapping, va, s[1])
    BY <1>1 DEF LiveShape, Chain
  <2>2. va \in DOMAIN mapping /\ mapping[va] = s[1] /\ 1 \in 1..Len(s)
    BY <1>1, <2>1 DEF At
  <2>3. Over(va, 0)
    BY <1>2, <2>2
  <2> HIDE DEF Over
  <2>q. QED BY <1>1, <2>2, <2>3
<1>4. ASSUME NEW k \in 0..(size - 1), k # size - 1, k \in Good PROVE k + 1 \in Good
  <2>1. PICK w \in DOMAIN mapping : mapping[w] \in Range(s) /\ Over(w, k)
    BY <1>4
  <2>2. PICK i \in 1..Len(s) : s[i] = mapping[w]
    BY <1>1, <2>1
  <2>3. k + 1 \in 0..(size - 1) /\ k \in Nat /\ w \in Nat /\ BlockSize[mapping[w]] \in Nat \ {0}
    BY <1>2, <1>4
  <2>4. CASE va + k + 1 < w + BlockSize[mapping[w]]
    <3>1. Over(w, k + 1)
      BY <2>1, <2>3, <2>4
    <3> HIDE DEF Over
    <3>q. QED BY <2>1, <2>3, <3>1
  <2>5. CASE ~ (va + k + 1 < w + BlockSize[mapping[w]])
    <3>1. w + BlockSize[mapping[w]] = va + (k + 1)
      BY <2>1, <2>3, <2>5
    <3>2. i # Len(s)
      <4>1. SUFFICES ASSUME i = Len(s) PROVE FALSE
        OBVIOUS
      <4>2. w + BlockSize[mapping[w]] = va + size
        BY <2>2, <4>1 DEF LiveShape, EndsAt
      <4>q. QED BY <1>4, <2>3, <3>1, <4>2
    <3>3. i \in 1..(Len(s) - 1) /\ i + 1 \in 1..Len(s)
      <4>1. \A n \in Nat : \A j \in 1..n : j # n => j \in 1..(n - 1) /\ j + 1 \in 1..n
        OBVIOUS
      <4>2. Len(s) \in Nat /\ i \in 1..Len(s)
        BY <1>1, <2>2
      <4>q. QED BY <3>2, <4>1, <4>2
    <3>4. At(mapping, w + BlockSize[s[i]], s[i + 1])
      BY <2>2, <3>3 DEF LiveShape, Chain
    <3>5. va + (k + 1) \in DOMAIN mapping /\ mapping[va + (k + 1)] \in Range(s)
      BY <1>1, <2>2, <3>1, <3>3, <3>4 DEF At
    <3>6. Over(va + (k + 1), k + 1)
      BY <1>2, <2>3, <3>5
    <3> HIDE DEF Over
    <3>q. QED BY <2>3, <3>5, <3>6
  <2>q. QED BY <2>4, <2>5
<1> HIDE DEF Good
<1>5. size - 1 \in Nat /\ x - va \in 0..(size - 1) /\ va + (x - va) = x
  OBVIOUS
<1>6. x - va \in Good
  BY <1>3, <1>4, <1>5, UpTo
<1>q. QED BY <1>5, <1>6 DEF Good

LiveBytesUsable ==
  \A va \in DOMAIN allocs_ : \A x \in Nat :
    va <= x /\ x < va + allocs_[va] => x < VASize /\ x \in UsableBytes

LEMMA LiveUsable == LargeInv /\ MappedInv => LiveBytesUsable
<1> SUFFICES ASSUME LargeInv, MappedInv, NEW va \in DOMAIN allocs_, NEW x \in Nat,
                    va <= x, x < va + allocs_[va]
             PROVE  x < VASize /\ x \in UsableBytes
  BY DEF LiveBytesUsable
<1> USE DEF LargeInv, MappedInv
<1>1. /\ va \in Nat /\ alloc_blocks[va] \in Seq(Handles) /\ allocs_[va] \in Nat \ {0}
      /\ va \in DOMAIN reserved /\ reserved[va] = allocs_[va]
  BY RangeSizes, PlacesAssumption DEF TypeOK
<1>2. VASize \in Nat /\ va + allocs_[va] <= VASize
  BY <1>1, PlacesAssumption DEF Ranged
<1>3. x < VASize /\ x \in 0..(VASize - 1) /\ x \in va..(va + allocs_[va] - 1)
  BY <1>1, <1>2
<1>4. LiveShape(mapping, alloc_blocks[va], va, allocs_[va])
  BY DEF Shaped
<1>5. PICK w \in DOMAIN mapping :
        /\ mapping[w] \in Range(alloc_blocks[va])
        /\ w <= x /\ x < w + BlockSize[mapping[w]]
  BY <1>1, <1>3, <1>4, Covers
<1>6. device_ \in access[w]
  BY <1>5 DEF Opened, LiveHolds
<1>q. QED BY <1>3, <1>5, <1>6 DEF UsableBytes

(* A step that only adds mappings or devices, and one that only takes      *)
(* mappings away.                                                          *)
LEMMA UsableGrows ==
  ASSUME \A w \in DOMAIN mapping : /\ w \in DOMAIN mapping' /\ mapping'[w] = mapping[w]
                                   /\ device_ \in access[w] => device_ \in access'[w]
  PROVE  UsableBytes \subseteq UsableBytes'
  BY DEF UsableBytes

LEMMA UsableShrinks ==
  ASSUME \A w \in DOMAIN mapping' : /\ w \in DOMAIN mapping /\ mapping'[w] = mapping[w]
                                    /\ access'[w] = access[w]
  PROVE  UsableBytes' \subseteq UsableBytes
  BY DEF UsableBytes

LEMMA Unchanged ==
  ASSUME UNCHANGED <<allocs_, mapping, access>>
  PROVE  UNCHANGED Abstract!vars
<1>1. UsableBytes' = UsableBytes
  BY DEF UsableBytes
<1>q. QED BY <1>1 DEF Abstract!vars

LEMMA RecordRefines ==
  ASSUME LargeInv, MappedInv, LiveBytesUsable', NEW t \in Threads, Record(t)
  PROVE  Abstract!Next
<1> DEFINE c == call[t]
           va == c.va
           size == c.size
<1>1. /\ t \in Calls /\ allocs_' = AddRange(allocs_, va, size) /\ UNCHANGED mapping
      /\ access' = Grant(va, size, {device_} \union peer_devices_)
  BY DEF Record, InStep, Calls, setAccess
<1>2. /\ va \in DOMAIN reserved /\ reserved[va] = size /\ size \in Nat \ {0} /\ va \in Nat
      /\ va \notin DOMAIN allocs_
  BY <1>1, RangeSizes, PlacesAssumption DEF LargeInv, MappedInv, TypeOK, Homes, Calls
<1> HIDE DEF va, size
<1>3. /\ VASize \in Nat /\ va + size <= VASize
      /\ \A w \in DOMAIN allocs_ : Disjoint(va, size, w, allocs_[w])
  <2>1. VASize \in Nat /\ va + size <= VASize
    BY <1>2, PlacesAssumption DEF MappedInv, Ranged
  <2>2. ASSUME NEW w \in DOMAIN allocs_ PROVE Disjoint(va, size, w, allocs_[w])
    <3>1. w \in DOMAIN reserved /\ reserved[w] = allocs_[w] /\ w # va
      BY <1>2, RangeSizes DEF MappedInv
    <3>q. QED BY <1>2, <3>1 DEF MappedInv, Ranged, PairwiseDisjoint
  <2>q. QED BY <2>1, <2>2
<1>4. UsableBytes \subseteq UsableBytes'
  <2>1. \A w \in DOMAIN mapping : device_ \in access[w] => device_ \in access'[w]
    BY <1>1 DEF Grant, LargeInv, TypeOK
  <2>q. QED BY <1>1, <2>1, UsableGrows
<1>5. va \in DOMAIN allocs_' /\ allocs_'[va] = size
  BY <1>1 DEF AddRange
<1>6. \A x \in Nat : va <= x /\ x < va + size => x \in UsableBytes'
  BY <1>5 DEF LiveBytesUsable
<1>7. ASSUME NEW x \in 0..(VASize - 1), x * 1 < va + size, va < (x + 1) * 1
      PROVE  x \in UsableBytes'
  <2>1. x \in Nat /\ va <= x /\ x < va + size
    BY <1>2, <1>3, <1>7
  <2>q. QED BY <1>6, <2>1
<1>8. va \in 0..VASize /\ size \in 1..VASize
  BY <1>2, <1>3
<1>9. Abstract!Alloc(va, size)
  BY <1>1, <1>3, <1>4, <1>7
     DEF Abstract!Alloc, Abstract!Usable, Abstract!Touches, Abstract!Disjoint,
         Abstract!AddRange, AddRange, Disjoint
<1>q. QED BY <1>8, <1>9 DEF Abstract!Next

LEMMA UnmapBlockRefines ==
  ASSUME LargeInv, LiveBytesUsable', LargeInv', MappedInv', NEW t \in Threads, UnmapBlock(t)
  PROVE  Abstract!Next
<1>1. /\ UNCHANGED allocs_
      /\ \A w \in DOMAIN mapping' : /\ w \in DOMAIN mapping /\ mapping'[w] = mapping[w]
                                    /\ access'[w] = access[w]
  BY DEF UnmapBlock, memUnmap, Restrict, live, LargeInv, TypeOK
<1>2. UsableBytes' \subseteq UsableBytes
  BY <1>1, UsableShrinks
<1>3. ASSUME NEW va \in DOMAIN allocs_, NEW x \in 0..(VASize - 1),
             x * 1 < va + allocs_[va], va < (x + 1) * 1
      PROVE  x \in UsableBytes'
  <2>1. va \in Nat /\ allocs_'[va] \in Nat /\ va \in DOMAIN allocs_' /\ allocs_'[va] = allocs_[va]
    BY <1>1, PlacesAssumption DEF LargeInv, TypeOK, MappedInv, Numbers, IsFiniteMap
  <2>2. x \in Nat /\ va <= x /\ x < va + allocs_'[va]
    BY <1>3, <2>1, PlacesAssumption
  <2>q. QED BY <2>1, <2>2 DEF LiveBytesUsable
<1>q. QED BY <1>1, <1>2, <1>3 DEF Abstract!Next, Abstract!DropPages, Abstract!Usable, Abstract!Touches

LEMMA LargeStepRefines ==
  ASSUME LargeInv, MappedInv, LargeInv', MappedInv', LiveBytesUsable', [Next]_vars
  PROVE  [Abstract!Next]_(Abstract!vars)
<1>1. ASSUME NEW t \in Threads, NEW request \in Requests, Reserve(t, request)
      PROVE  UNCHANGED Abstract!vars
  BY <1>1, Unchanged DEF Reserve, live
<1>2. ASSUME NEW t \in Threads, MapBlock(t) PROVE Abstract!Next
  <2> DEFINE va == call[t].va + call[t].offset
  <2>1. PICK h \in Handles \ taken :
          /\ BlockSize[h] = Head(call[t].todo)
          /\ Mappable(va, Head(call[t].todo)) /\ memMap(va, h)
          /\ taken' = taken \union {h} /\ UNCHANGED allocs_
    BY <1>2 DEF MapBlock, live
  <2>2. ~ InStep(t, "idle")
    BY <1>2 DEF MapBlock, InStep
  <2>3. va \in Nat
    <3>1. call[t].va \in Nat
      BY <1>2, <2>2, PlacesAssumption DEF LargeInv, TypeOK
    <3>2. call[t].offset \in Nat
      BY <1>2 DEF MappedInv, Numbers
    <3>q. QED BY <2>1, <3>1, <3>2
  <2>4. va \notin DOMAIN mapping
    BY <2>1, <2>3, MapAdds DEF LargeInv, MappedInv
  <2>5. UsableBytes \subseteq UsableBytes'
    BY <2>1, <2>4, UsableGrows DEF memMap, AddRange, LargeInv, TypeOK
  <2>q. QED BY <2>1, <2>5 DEF Abstract!Next, Abstract!AddPages
<1>3. ASSUME NEW t \in Threads, AllocateFails(t) PROVE UNCHANGED Abstract!vars
  BY <1>3, Unchanged DEF AllocateFails, live, driver
<1>4. ASSUME NEW t \in Threads, Record(t) PROVE Abstract!Next
  BY <1>4, RecordRefines
<1>5. ASSUME NEW t \in Threads, NEW va \in DOMAIN allocs_, FreeErase(t, va) PROVE Abstract!Next
  <2>1. allocs_' = RemoveRange(allocs_, va) /\ UNCHANGED <<mapping, access>>
    BY <1>5 DEF FreeErase, driver
  <2>2. UsableBytes' = UsableBytes
    BY <2>1 DEF UsableBytes
  <2>q. QED BY <2>1, <2>2 DEF RemoveRange, Abstract!Next, Abstract!Free, Abstract!RemoveRange
<1>6. ASSUME NEW t \in Threads, UnmapBlock(t) PROVE Abstract!Next
  BY <1>6, UnmapBlockRefines
<1>7. ASSUME NEW t \in Threads, ReturnBlock(t) PROVE UNCHANGED Abstract!vars
  BY <1>7, Unchanged DEF ReturnBlock, live, driver
<1>8. ASSUME NEW t \in Threads, ReleaseAddress(t) PROVE UNCHANGED Abstract!vars
  BY <1>8, Unchanged DEF ReleaseAddress, live
<1>9. ASSUME NEW peer \in Peers, NEW ok \in BOOLEAN, addPeerDevice(peer, ok) PROVE Abstract!Next
  <2>1. /\ UNCHANGED <<allocs_, mapping>>
        /\ \A w \in DOMAIN access : access[w] \subseteq access'[w]
    BY <1>9 DEF addPeerDevice, live
  <2>2. UsableBytes \subseteq UsableBytes'
    BY <2>1, UsableGrows DEF LargeInv, TypeOK
  <2>q. QED BY <2>1, <2>2 DEF Abstract!Next, Abstract!AddPages
<1>10. CASE UNCHANGED vars
  BY <1>10, Unchanged DEF vars, live, driver
<1>q. QED
  BY <1>1, <1>2, <1>3, <1>4, <1>5, <1>6, <1>7, <1>8, <1>9, <1>10 DEF Next, Step

(* The LargeAllocator keeps the promise of a range allocator, however its  *)
(* threads interleave and whichever call of the driver fails: no two live  *)
(* ranges overlap, and no step of another allocate or free takes a byte of *)
(* a live range away from the device.                                      *)
THEOREM RefinesRangeAllocator == Spec => ImplementsRangeAllocator
<1>1. Init => Abstract!Init
  BY DEF Init, EmptyMap, Abstract!Init, UsableBytes
<1> DEFINE Inv == LargeInv /\ MappedInv
<1>2. Inv /\ Inv' /\ [Next]_vars => [Abstract!Next]_(Abstract!vars)
  <2>1. Inv => LiveBytesUsable
    BY LiveUsable
  <2>2. Inv' => LiveBytesUsable'
    BY <2>1, PTL
  <2>q. QED BY <2>2, LargeStepRefines
<1>3. Spec => []Inv
  BY MappedHolds
<1> HIDE DEF Inv
<1>q. QED
  BY <1>1, <1>2, <1>3, PTL DEF Spec, ImplementsRangeAllocator, Abstract!Spec

-----------------------------------------------------------------------------
(*                              MemoryAccess                               *)
-----------------------------------------------------------------------------
(* What a range contains: mappings m, range [va, va + size) *)

MappedIn(m, va, size) == {w \in DOMAIN m : va <= w /\ w + BlockSize[m[w]] <= va + size}
MappedBytes(m, va, size) == Total([w \in MappedIn(m, va, size) |-> BlockSize[m[w]]])

(* The handles of s that are mapped are what is mapped in the range. *)
Only(m, s, va, size) ==
  \A w \in DOMAIN m : m[w] \in Range(s) <=> w \in MappedIn(m, va, size)
Nowhere(m, s) == \A w \in DOMAIN m : m[w] \notin Range(s)
Theirs(m, va, size) == \A w \in MappedIn(m, va, size) : m[w] \in Foreign

(* A call that works on a range no vmmRemap has changed. *)
OwnCall(m, c) ==
  /\ Only(m, c.blocks, c.va, c.size)
  /\ c.step = "map" =>
       /\ c.num_mapped = Len(c.blocks) /\ Chain(m, c.blocks, c.num_mapped, c.va)
       /\ IF c.blocks = <<>> THEN c.offset = 0 ELSE EndsAt(m, c.blocks, c.va + c.offset)
       /\ c.offset = MappedBytes(m, c.va, c.size) /\ c.offset = HandleSizes(c.blocks)
       /\ c.offset + LayoutBytes(c.todo) = c.size
  /\ c.step = "unmap" => Chain(m, c.blocks, c.num_mapped, c.va + c.offset)
  /\ c.step = "return" =>
       /\ \A w \in DOMAIN m : m[w] # Head(c.blocks)
       /\ Chain(m, Tail(c.blocks), c.num_mapped, c.va + c.offset)

(* The free of a range some vmmRemap has changed: what it unmaps, if       *)
(* anything, is the program's, and lies in its own range.                  *)
StrippedCall(m, c) ==
  /\ Theirs(m, c.va, c.size) /\ Nowhere(m, c.blocks)
  /\ \/ c.step = "unmap" /\ c.offset + HandleSizes(c.blocks) <= c.size
     \/ c.step = "return" /\ c.offset + HandleSizes(Tail(c.blocks)) <= c.size

OwnLive(m, s, va, size) ==
  /\ Only(m, s, va, size) /\ Chain(m, s, Len(s), va) /\ MappedBytes(m, va, size) = size
StrippedLive(m, s, va, size) == Theirs(m, va, size) /\ Nowhere(m, s)

(* A vmmRemap: nothing of `new` is mapped yet, or a first part of it, or   *)
(* what the exception handler has not unmapped yet; and nothing else.      *)
RemapShape(m, r) ==
  /\ r.step = "unmap" => /\ Nowhere(m, r.new) /\ r.num_mapped = 0 /\ r.offset = 0
                         /\ HandleSizes(r.new) = r.size
  /\ r.step # "unmap" => Only(m, r.new, r.va, r.size)
  /\ r.step = "map" =>
       /\ Chain(m, r.new, r.num_mapped, r.va) /\ r.offset = MappedBytes(m, r.va, r.size)
       /\ IF r.num_mapped = 0 THEN r.offset = 0
          ELSE \A w \in DOMAIN m : m[w] = r.new[r.num_mapped] =>
                 w + BlockSize[m[w]] = r.va + r.offset
       /\ r.offset + HandleSizes(SubSeq(r.new, r.num_mapped + 1, Len(r.new))) = r.size
  /\ r.step = "rollback" => Chain(m, r.new, Len(r.new), r.va + r.offset)

(* Two mappings that have the same in the range. *)
Same(m, m2, va, size) ==
  /\ MappedIn(m2, va, size) = MappedIn(m, va, size)
  /\ \A w \in MappedIn(m, va, size) : m2[w] = m[w]

(* No handle of s is mapped in m2 where it was not in m. *)
NoneComes(m, m2, s) == \A w \in DOMAIN m2 : m2[w] \in Range(s) => At(m, w, m2[w])

LEMMA SameBytes ==
  ASSUME NEW m, NEW m2, NEW va, NEW size, Same(m, m2, va, size)
  PROVE  /\ MappedBytes(m2, va, size) = MappedBytes(m, va, size)
         /\ Theirs(m, va, size) => Theirs(m2, va, size)
<1>1. [w \in MappedIn(m2, va, size) |-> BlockSize[m2[w]]]
        = [w \in MappedIn(m, va, size) |-> BlockSize[m[w]]]
  BY DEF Same
<1>q. QED BY <1>1 DEF MappedBytes, Same, Theirs

LEMMA OnlySame ==
  ASSUME NEW m, NEW m2, NEW va, NEW size, NEW s,
         Same(m, m2, va, size), NoneComes(m, m2, s), Only(m, s, va, size)
  PROVE  Only(m2, s, va, size) /\ SameAt(m, m2, Range(s))
<1>1. \A w \in DOMAIN m2 : m2[w] \in Range(s) => w \in DOMAIN m /\ m[w] = m2[w]
  BY DEF NoneComes, At
<1>2. \A w \in DOMAIN m : m[w] \in Range(s) => w \in DOMAIN m2 /\ m2[w] = m[w]
  BY DEF Only, Same, MappedIn
<1>3. \A w \in DOMAIN m2 : w \in MappedIn(m2, va, size) => w \in DOMAIN m /\ m2[w] = m[w]
  BY DEF Same, MappedIn
<1>4. Only(m2, s, va, size)
  BY <1>1, <1>3 DEF Only, Same
<1>5. SameAt(m, m2, Range(s))
  BY <1>1, <1>2 DEF SameAt, At
<1>q. QED BY <1>4, <1>5

LEMMA NowhereSame ==
  ASSUME NEW m, NEW m2, NEW s, NoneComes(m, m2, s), Nowhere(m, s)
  PROVE  Nowhere(m2, s)
  BY DEF NoneComes, Nowhere, At

LEMMA OwnCallSame ==
  ASSUME NEW m, NEW m2, NEW c, NEW S, c.blocks \in Seq(S), c.num_mapped \in Nat,
         c.step = "return" => c.blocks # <<>>,
         Same(m, m2, c.va, c.size), NoneComes(m, m2, c.blocks), OwnCall(m, c)
  PROVE  OwnCall(m2, c)
<1> DEFINE s == c.blocks
<1>1. Only(m2, s, c.va, c.size) /\ SameAt(m, m2, Range(s))
  BY OnlySame DEF OwnCall
<1>2. MappedBytes(m2, c.va, c.size) = MappedBytes(m, c.va, c.size)
  BY SameBytes
<1>3. ASSUME c.step = "return"
      PROVE  /\ \A w \in DOMAIN m2 : m2[w] # Head(s)
             /\ Chain(m2, Tail(s), c.num_mapped, c.va + c.offset)
  <2>1. Tail(s) \in Seq(S) /\ Head(s) \in Range(s) /\ Range(s) = Range(Tail(s)) \union {Head(s)}
    BY <1>3, BlockDropped
  <2>2. SameAt(m, m2, Range(Tail(s)))
    BY <1>1, <2>1 DEF SameAt
  <2>3. Chain(m2, Tail(s), c.num_mapped, c.va + c.offset)
    BY <1>3, <2>1, <2>2, ChainFrame DEF OwnCall
  <2>4. \A w \in DOMAIN m : m[w] # Head(s)
    BY <1>3 DEF OwnCall
  <2>q. QED BY <1>1, <2>1, <2>3, <2>4 DEF SameAt, At
<1>4. c.step = "unmap" => Chain(m2, s, c.num_mapped, c.va + c.offset)
  BY <1>1, ChainFrame DEF OwnCall
<1>5. c.step = "map" => /\ Chain(m2, s, c.num_mapped, c.va)
                        /\ s # <<>> => EndsAt(m2, s, c.va + c.offset)
  BY <1>1, ChainFrame DEF OwnCall
<1>q. QED BY <1>1, <1>2, <1>3, <1>4, <1>5 DEF OwnCall

LEMMA StrippedCallSame ==
  ASSUME NEW m, NEW m2, NEW c,
         Same(m, m2, c.va, c.size), NoneComes(m, m2, c.blocks), StrippedCall(m, c)
  PROVE  StrippedCall(m2, c)
  BY SameBytes, NowhereSame DEF StrippedCall

LEMMA LiveSame ==
  ASSUME NEW m, NEW m2, NEW S, NEW s \in Seq(S), NEW va, NEW size,
         Same(m, m2, va, size), NoneComes(m, m2, s)
  PROVE  /\ OwnLive(m, s, va, size) => OwnLive(m2, s, va, size)
         /\ StrippedLive(m, s, va, size) => StrippedLive(m2, s, va, size)
<1>1. Len(s) \in Nat
  OBVIOUS
<1>q. QED BY <1>1, OnlySame, SameBytes, NowhereSame, ChainFrame DEF OwnLive, StrippedLive

LEMMA RemapSame ==
  ASSUME NEW m, NEW m2, NEW r, NEW S, r.new \in Seq(S), r.num_mapped \in Nat,
         Same(m, m2, r.va, r.size), NoneComes(m, m2, r.new), RemapShape(m, r)
  PROVE  RemapShape(m2, r)
<1> DEFINE s == r.new
<1>1. CASE r.step = "unmap"
  BY <1>1, NowhereSame DEF RemapShape
<1>2. CASE r.step # "unmap"
  <2>1. Only(m2, s, r.va, r.size) /\ SameAt(m, m2, Range(s))
    BY <1>2, OnlySame DEF RemapShape
  <2>2. MappedBytes(m2, r.va, r.size) = MappedBytes(m, r.va, r.size)
    BY SameBytes
  <2>3. Len(s) \in Nat
    OBVIOUS
  <2>4. r.step = "rollback" => Chain(m2, s, Len(s), r.va + r.offset)
    BY <2>1, <2>3, ChainFrame DEF RemapShape
  <2>5. r.step = "map" => Chain(m2, s, r.num_mapped, r.va)
    BY <2>1, ChainFrame DEF RemapShape
  <2>6. ASSUME r.step = "map", r.num_mapped # 0, NEW w \in DOMAIN m2, m2[w] = s[r.num_mapped]
        PROVE  w + BlockSize[m2[w]] = r.va + r.offset
    <3>1. r.num_mapped \in 1..Len(s)
      BY <2>3, <2>6 DEF RemapShape, Chain
    <3>2. s[r.num_mapped] \in Range(s)
      BY <3>1 DEF Range
    <3>3. w \in DOMAIN m /\ m[w] = m2[w]
      BY <2>1, <2>6, <3>2 DEF SameAt, At
    <3>q. QED BY <2>6, <3>3 DEF RemapShape
  <2>q. QED BY <1>2, <2>1, <2>2, <2>4, <2>5, <2>6 DEF RemapShape
<1>q. QED BY <1>1, <1>2

-----------------------------------------------------------------------------
(* Sequences of handles *)

Sized == DOMAIN BlockSize

LEMMA SizesTyped ==
  ASSUME NEW s \in Seq(Sized)
  PROVE  [i \in DOMAIN s |-> BlockSize[s[i]]] \in Seq(Nat)
<1>1. Len(s) \in Nat /\ DOMAIN s = 1..Len(s) /\ \A i \in 1..Len(s) : s[i] \in Sized
  OBVIOUS
<1>2. \A i \in 1..Len(s) : BlockSize[s[i]] \in Nat
  BY <1>1, BlockFacts DEF Sized
<1>q. QED BY <1>1, <1>2

LEMMA SizesEmpty == HandleSizes(<<>>) = 0
<1> DEFINE f == [i \in DOMAIN <<>> |-> BlockSize[(<<>>)[i]]]
<1>1. DOMAIN f = {}
  OBVIOUS
<1> HIDE DEF f
<1>2. Total(f) = 0
  BY <1>1, TotalEmpty
<1>q. QED BY <1>2 DEF HandleSizes, f

LEMMA SizesTail ==
  ASSUME NEW s \in Seq(Sized), s # <<>>
  PROVE  /\ HandleSizes(s) \in Nat /\ HandleSizes(Tail(s)) \in Nat
         /\ BlockSize[Head(s)] \in Nat \ {0}
         /\ HandleSizes(s) = BlockSize[Head(s)] + HandleSizes(Tail(s))
<1> DEFINE f == [i \in DOMAIN s |-> BlockSize[s[i]]]
           g == [i \in DOMAIN Tail(s) |-> BlockSize[Tail(s)[i]]]
<1>1. /\ Len(s) \in Nat /\ Len(s) > 0 /\ DOMAIN s = 1..Len(s)
      /\ Tail(s) \in Seq(Sized) /\ DOMAIN Tail(s) = 1..(Len(s) - 1)
      /\ \A i \in 1..(Len(s) - 1) : Tail(s)[i] = s[i + 1]
      /\ Head(s) = s[1] /\ s[1] \in Sized
  OBVIOUS
<1>2. f \in Seq(Nat) /\ g \in Seq(Nat)
  BY <1>1, SizesTyped
<1>3. DOMAIN f = 1..Len(s) /\ f # <<>> /\ Head(f) = BlockSize[Head(s)] /\ Len(f) = Len(s)
  BY <1>1
<1>4. Tail(f) = g
  <2>1. /\ DOMAIN Tail(f) = 1..(Len(s) - 1) /\ Tail(f) \in Seq(Nat)
        /\ \A i \in 1..(Len(s) - 1) : Tail(f)[i] = f[i + 1] /\ i + 1 \in 1..Len(s)
    <3>1. \A h \in Seq(Nat) : h # <<>> =>
            /\ DOMAIN Tail(h) = 1..(Len(h) - 1) /\ Tail(h) \in Seq(Nat)
            /\ \A i \in 1..(Len(h) - 1) : Tail(h)[i] = h[i + 1] /\ i + 1 \in 1..Len(h)
      OBVIOUS
    <3> HIDE DEF f
    <3>q. QED BY <1>2, <1>3, <3>1
  <2>2. \A i \in 1..(Len(s) - 1) : f[i + 1] = g[i]
    BY <1>1, <2>1
  <2>3. DOMAIN g = 1..(Len(s) - 1)
    BY <1>1
  <2> HIDE DEF f, g
  <2>4. Len(Tail(f)) = Len(g)
    BY <1>1, <1>2, <2>1, <2>3
  <2>5. \A a, b \in Seq(Nat) : DOMAIN a = DOMAIN b /\ (\A i \in DOMAIN a : a[i] = b[i]) => a = b
    OBVIOUS
  <2>q. QED BY <1>2, <2>1, <2>2, <2>3, <2>5
<1>5. Total(f) = Head(f) + Total(Tail(f)) /\ IsFiniteMap(f) /\ IsFiniteMap(Tail(f))
  <2> HIDE DEF f
  <2>q. QED BY <1>2, <1>3, TotalTail
<1> HIDE DEF f, g
<1>6. Total(f) \in Nat /\ Total(g) \in Nat
  BY <1>4, <1>5, TotalNat
<1>7. Total(f) = HandleSizes(s) /\ Total(g) = HandleSizes(Tail(s))
  BY DEF HandleSizes, f, g
<1>8. BlockSize[Head(s)] \in Nat \ {0}
  BY <1>1, BlockFacts DEF Sized
<1>q. QED BY <1>3, <1>4, <1>5, <1>6, <1>7, <1>8

LEMMA SizesNat == ASSUME NEW s \in Seq(Sized) PROVE HandleSizes(s) \in Nat
  BY SizesEmpty, SizesTail

LEMMA SizesAppend ==
  ASSUME NEW s \in Seq(Sized), NEW h \in Sized
  PROVE  HandleSizes(Append(s, h)) = HandleSizes(s) + BlockSize[h]
<1> DEFINE s2 == Append(s, h)
           f == [i \in DOMAIN s |-> BlockSize[s[i]]]
           g == [i \in DOMAIN s2 |-> BlockSize[s2[i]]]
           n == Len(s)
<1>1. /\ n \in Nat /\ DOMAIN s = 1..n /\ DOMAIN s2 = 1..(n + 1)
      /\ \A i \in 1..n : s2[i] = s[i]
      /\ s2[n + 1] = h
  OBVIOUS
<1>2. DOMAIN f = 1..n /\ DOMAIN g = 1..(n + 1) /\ \A i \in 1..n : f[i] \in Nat
  <2>1. \A i \in 1..n : s[i] \in Sized
    OBVIOUS
  <2>q. QED BY <1>1, <2>1, BlockFacts DEF Sized
<1>3. g[n + 1] = BlockSize[h] /\ \A i \in 1..n : g[i] = f[i]
  <2>1. n + 1 \in 1..(n + 1) /\ \A i \in 1..n : i \in 1..(n + 1)
    BY <1>1
  <2> HIDE DEF s2, n
  <2>q. QED BY <1>1, <2>1
<1>4. BlockSize[h] \in Nat
  BY BlockFacts DEF Sized
<1>6. Total(f) = HandleSizes(s) /\ Total(g) = HandleSizes(s2)
  BY DEF HandleSizes
<1> HIDE DEF f, g, s2, n
<1>5. IsFiniteSet(1..n) /\ 1..(n + 1) = (1..n) \union {n + 1} /\ n + 1 \notin 1..n
  <2>1. IsFiniteSet(1..n)
    BY <1>1, FS_Interval
  <2>2. 1..(n + 1) = (1..n) \union {n + 1} /\ n + 1 \notin 1..n
    BY <1>1
  <2>q. QED BY <2>1, <2>2
<1>7. IsFiniteMap(f)
  BY <1>2, <1>5 DEF IsFiniteMap
<1>8. Total(g) = Total(f) + g[n + 1]
  <2>1. /\ n + 1 \notin DOMAIN f /\ DOMAIN g = DOMAIN f \union {n + 1}
        /\ g[n + 1] \in Nat /\ \A y \in DOMAIN f : g[y] = f[y]
    BY <1>2, <1>3, <1>4, <1>5
  <2>q. QED BY <1>7, <2>1, TotalAdd
<1>q. QED BY <1>3, <1>6, <1>8 DEF s2

(* What is left of s after its first n handles. *)
Rest(s, n) == SubSeq(s, n + 1, Len(s))

LEMMA RestSteps ==
  ASSUME NEW s \in Seq(Sized), NEW n \in 0..Len(s)
  PROVE  /\ HandleSizes(Rest(s, n)) \in Nat
         /\ n = 0 => Rest(s, n) = s
         /\ n = Len(s) => HandleSizes(Rest(s, n)) = 0
         /\ n < Len(s) => /\ s[n + 1] \in Sized
                          /\ HandleSizes(Rest(s, n)) = BlockSize[s[n + 1]] + HandleSizes(Rest(s, n + 1))
<1> DEFINE q == Rest(s, n)
<1>1. q \in Seq(Sized) /\ Len(s) \in Nat /\ n \in Nat
  BY DEF Rest
<1>2. n = 0 => Rest(s, n) = s
  BY DEF Rest
<1>3. n = Len(s) => Rest(s, n) = <<>>
  BY DEF Rest
<1>4. ASSUME n < Len(s)
      PROVE  /\ s[n + 1] \in Sized /\ q # <<>>
             /\ Head(q) = s[n + 1] /\ Tail(q) = Rest(s, n + 1)
  <2>1. /\ Len(q) = Len(s) - n /\ \A i \in 1..(Len(s) - n) : q[i] = s[n + i]
    BY <1>1, <1>4 DEF Rest
  <2>2. q # <<>> /\ Head(q) = s[n + 1] /\ s[n + 1] \in Sized
    BY <1>1, <1>4, <2>1
  <2>3. Tail(q) = Rest(s, n + 1)
    <3> DEFINE p == Rest(s, n + 1)
               tl == Tail(q)
    <3>1. /\ p \in Seq(Sized) /\ Len(p) = Len(s) - (n + 1)
          /\ \A i \in 1..(Len(s) - (n + 1)) : p[i] = s[n + 1 + i]
      BY <1>1, <1>4 DEF Rest
    <3>2. /\ tl \in Seq(Sized) /\ Len(tl) = Len(s) - n - 1
          /\ \A i \in 1..(Len(s) - n - 1) : tl[i] = q[i + 1] /\ i + 1 \in 1..(Len(s) - n)
      <4> HIDE DEF q
      <4>q. QED BY <1>1, <1>4, <2>1, <2>2
    <3>3. \A i \in 1..(Len(s) - n - 1) : tl[i] = s[n + 1 + i]
      <4> HIDE DEF q, tl
      <4>1. \A i \in 1..(Len(s) - n - 1) : n + (i + 1) = n + 1 + i
        BY <1>1
      <4>q. QED BY <1>1, <2>1, <3>2, <4>1
    <3>4. Len(s) - n - 1 = Len(s) - (n + 1)
      BY <1>1
    <3> HIDE DEF p, tl
    <3>5. Len(p) = Len(tl) /\ \A i \in 1..Len(p) : p[i] = tl[i]
      BY <3>1, <3>2, <3>3, <3>4
    <3>6. p = tl
      BY <3>1, <3>2, <3>5
    <3>q. QED BY <3>6 DEF p, tl
  <2>q. QED BY <2>2, <2>3
<1> HIDE DEF q
<1>5. n < Len(s) => HandleSizes(q) = BlockSize[s[n + 1]] + HandleSizes(Rest(s, n + 1))
  BY <1>1, <1>4, SizesTail
<1>q. QED BY <1>1, <1>2, <1>3, <1>4, <1>5, SizesNat, SizesEmpty DEF q

-----------------------------------------------------------------------------
(* Chains of handles in a range *)

LEMMA AllMapped ==
  ASSUME NEW m, NEW S, NEW s \in Seq(S), NEW n \in Nat, NEW va, Chain(m, s, n, va)
  PROVE  \A i \in 1..n : \E w \in DOMAIN m : m[w] = s[i]
<1> DEFINE Bad == {i \in 1..n : \A w \in DOMAIN m : m[w] # s[i]}
<1> SUFFICES ASSUME Bad # {} PROVE FALSE
  OBVIOUS
<1>1. Bad \in SUBSET Nat
  OBVIOUS
<1>2. PICK i \in Bad : \A j \in Bad : i <= j
  <2> HIDE DEF Bad
  <2>q. QED BY <1>1, LeastElement
<1>3. i \in 1..n /\ \A w \in DOMAIN m : m[w] # s[i]
  OBVIOUS
<1>4. i # 1
  BY <1>3 DEF Chain, At
<1>5. i - 1 \in 1..(n - 1) /\ i - 1 \in 1..n /\ (i - 1) + 1 = i /\ ~ (i <= i - 1)
  BY <1>3, <1>4
<1>6. i - 1 \notin Bad
  BY <1>2, <1>5
<1>7. PICK w \in DOMAIN m : m[w] = s[i - 1]
  BY <1>5, <1>6
<1>8. At(m, w + BlockSize[s[i - 1]], s[i])
  BY <1>5, <1>7 DEF Chain
<1>q. QED BY <1>3, <1>8 DEF At

(* The exception handler of vmmRemap looks at the mapped part of s only. *)
LEMMA ChainPrefix ==
  ASSUME NEW m, NEW S, NEW s \in Seq(S), NEW n \in Nat, NEW va, NEW size, IsInjective(s),
         Chain(m, s, n, va), Only(m, s, va, size)
  PROVE  LET p == SubSeq(s, 1, n)
         IN /\ p \in Seq(S) /\ IsInjective(p) /\ Range(p) \subseteq Range(s)
            /\ Chain(m, p, Len(p), va) /\ Only(m, p, va, size)
<1> DEFINE p == SubSeq(s, 1, n)
<1>1. n \in 0..Len(s) /\ Len(s) \in Nat /\ DOMAIN s = 1..Len(s)
  BY DEF Chain
<1>2. p \in Seq(S) /\ Len(p) = n /\ DOMAIN p = 1..n /\ \A i \in 1..n : p[i] = s[i] /\ i \in 1..Len(s)
  BY <1>1
<1> HIDE DEF p
<1>3. IsInjective(p) /\ Range(p) \subseteq Range(s)
  BY <1>1, <1>2 DEF IsInjective, Range
<1>4. Chain(m, p, n, va)
  <2>1. n > 0 => At(m, va, p[1])
    BY <1>1, <1>2 DEF Chain
  <2>2. ASSUME NEW i \in 1..(n - 1), NEW w \in DOMAIN m, m[w] = p[i]
        PROVE  At(m, w + BlockSize[p[i]], p[i + 1])
    <3>1. p[i] = s[i] /\ p[i + 1] = s[i + 1]
      BY <1>1, <1>2
    <3>q. QED BY <2>2, <3>1 DEF Chain
  <2>3. n \in 0..Len(p) /\ \A i \in (n + 1)..Len(p) : FALSE
    BY <1>1, <1>2
  <2>q. QED BY <2>1, <2>2, <2>3 DEF Chain
<1>5. \A w \in DOMAIN m : m[w] \in Range(s) => m[w] \in Range(p)
  <2>1. ASSUME NEW w \in DOMAIN m, NEW i \in 1..Len(s), m[w] = s[i] PROVE m[w] \in Range(p)
    <3>1. i \notin (n + 1)..Len(s)
      BY <2>1 DEF Chain
    <3>2. i \in 1..n
      BY <1>1, <3>1
    <3>q. QED BY <1>2, <2>1, <3>2 DEF Range
  <2>q. QED BY <1>1, <2>1 DEF Range
<1>6. Only(m, p, va, size)
  BY <1>3, <1>5 DEF Only
<1>q. QED BY <1>2, <1>3, <1>4, <1>6 DEF p

(* The next handle of s is mapped where its chain ends. *)
LEMMA ChainExtends ==
  ASSUME NEW m, NEW m2, NEW S, NEW s \in Seq(S), NEW n \in Nat, NEW h, NEW va, NEW end,
         IsInjective(s), n < Len(s), h = s[n + 1], Chain(m, s, n, va), end \notin DOMAIN m,
         n = 0 => end = va,
         n # 0 => \A w \in DOMAIN m : m[w] = s[n] => w + BlockSize[m[w]] = end,
         DOMAIN m2 = DOMAIN m \union {end}, m2[end] = h, \A w \in DOMAIN m : m2[w] = m[w]
  PROVE  /\ Chain(m2, s, n + 1, va)
         /\ \A w \in DOMAIN m2 : m2[w] = h => w + BlockSize[m2[w]] = end + BlockSize[h]
<1>1. /\ Len(s) \in Nat /\ DOMAIN s = 1..Len(s) /\ n + 1 \in 1..Len(s)
      /\ n + 1 \in (n + 1)..Len(s)
  OBVIOUS
<1>2. \A w \in DOMAIN m : m[w] # h
  BY <1>1 DEF Chain
<1>3. \A i \in 1..Len(s) : i # n + 1 => s[i] # h
  BY <1>1 DEF IsInjective
<1>4. /\ DOMAIN m2 = DOMAIN m \union {end} /\ m2[end] = h
      /\ \A w \in DOMAIN m : m2[w] = m[w] /\ w # end
  OBVIOUS
<1>5. \A w \in DOMAIN m2 : m2[w] = h => w = end
  BY <1>2, <1>4
<1>6. \A i \in 1..n, w \in DOMAIN m2 : m2[w] = s[i] => w \in DOMAIN m /\ m[w] = s[i]
  <2>1. \A i \in 1..n : i \in 1..Len(s) /\ i # n + 1
    BY <1>1
  <2>q. QED BY <1>3, <1>4, <2>1
<1>7. At(m2, va, s[1])
  <2>1. CASE n = 0
    BY <1>4, <2>1 DEF At
  <2>2. CASE n # 0
    <3>1. At(m, va, s[1])
      BY <2>2 DEF Chain
    <3>q. QED BY <1>4, <3>1 DEF At
  <2>q. QED BY <2>1, <2>2
<1>8. ASSUME NEW i \in 1..((n + 1) - 1), NEW w \in DOMAIN m2, m2[w] = s[i]
      PROVE  At(m2, w + BlockSize[s[i]], s[i + 1])
  <2>1. i \in 1..n /\ w \in DOMAIN m /\ m[w] = s[i]
    BY <1>6, <1>8
  <2>2. CASE i = n
    <3>1. w + BlockSize[s[i]] = end
      BY <2>1, <2>2
    <3>q. QED BY <1>4, <2>2, <3>1 DEF At
  <2>3. CASE i # n
    <3>1. i \in 1..(n - 1)
      BY <2>1, <2>3
    <3>2. At(m, w + BlockSize[s[i]], s[i + 1])
      BY <2>1, <3>1 DEF Chain
    <3>q. QED BY <1>4, <3>2 DEF At
  <2>q. QED BY <2>2, <2>3
<1>9. ASSUME NEW i \in ((n + 1) + 1)..Len(s), NEW w \in DOMAIN m2 PROVE m2[w] # s[i]
  <2>1. i \in (n + 1)..Len(s) /\ i \in 1..Len(s) /\ i # n + 1
    BY <1>1
  <2>2. \A x \in DOMAIN m : m[x] # s[i]
    BY <2>1 DEF Chain
  <2>3. s[i] # h
    BY <1>3, <2>1
  <2>q. QED BY <1>4, <2>2, <2>3
<1>10. n + 1 \in 0..Len(s)
  BY <1>1
<1>11. Chain(m2, s, n + 1, va)
  BY <1>7, <1>8, <1>9, <1>10 DEF Chain
<1>q. QED BY <1>4, <1>5, <1>11

(* A handle is mapped in the range. *)
LEMMA RangeGains ==
  ASSUME NEW va \in Nat, NEW size \in Nat, NEW end, NEW h \in Sized,
         IsFiniteSet(DOMAIN mapping), \A w \in DOMAIN mapping : mapping[w] \in Sized,
         end \notin DOMAIN mapping, mapping' = AddRange(mapping, end, h),
         va <= end, end + BlockSize[h] <= va + size
  PROVE  /\ MappedIn(mapping', va, size) = MappedIn(mapping, va, size) \union {end}
         /\ MappedBytes(mapping, va, size) \in Nat
         /\ MappedBytes(mapping', va, size) = MappedBytes(mapping, va, size) + BlockSize[h]
<1> DEFINE A == MappedIn(mapping, va, size)
           B == MappedIn(mapping', va, size)
           f == [w \in A |-> BlockSize[mapping[w]]]
           g == [w \in B |-> BlockSize[mapping'[w]]]
<1>1. /\ DOMAIN mapping' = DOMAIN mapping \union {end} /\ mapping'[end] = h
      /\ \A w \in DOMAIN mapping : mapping'[w] = mapping[w] /\ w # end
  BY DEF AddRange
<1>2. B = A \union {end} /\ end \notin A /\ A \subseteq DOMAIN mapping
  BY <1>1 DEF MappedIn
<1>3. IsFiniteSet(A)
  BY <1>2, FS_Subset
<1>4. BlockSize[h] \in Nat /\ \A w \in A : BlockSize[mapping[w]] \in Nat
  BY <1>2, BlockFacts DEF Sized
<1>5. /\ DOMAIN f = A /\ DOMAIN g = B /\ g[end] = BlockSize[h]
      /\ \A w \in A : f[w] \in Nat /\ g[w] = f[w]
  BY <1>1, <1>2, <1>4
<1>6. MappedBytes(mapping, va, size) = Total(f) /\ MappedBytes(mapping', va, size) = Total(g)
  BY DEF MappedBytes
<1> HIDE DEF A, B, f, g
<1>7. IsFiniteMap(f)
  BY <1>3, <1>5 DEF IsFiniteMap
<1>8. Total(g) = Total(f) + g[end]
  <2>1. /\ end \notin DOMAIN f /\ DOMAIN g = DOMAIN f \union {end}
        /\ g[end] \in Nat /\ \A y \in DOMAIN f : g[y] = f[y]
    BY <1>2, <1>4, <1>5
  <2>q. QED BY <1>7, <2>1, TotalAdd
<1>q. QED BY <1>2, <1>5, <1>6, <1>7, <1>8, TotalNat DEF A, B

LEMMA RangeEmpty ==
  ASSUME NEW m, NEW va, NEW size, MappedIn(m, va, size) = {}
  PROVE  MappedBytes(m, va, size) = 0
<1> DEFINE f == [w \in MappedIn(m, va, size) |-> BlockSize[m[w]]]
<1>1. DOMAIN f = {}
  OBVIOUS
<1> HIDE DEF f
<1>2. Total(f) = 0
  BY <1>1, TotalEmpty
<1>q. QED BY <1>2 DEF MappedBytes, f

-----------------------------------------------------------------------------
(* The invariant *)

(* A vmmRemap on its way works on a live range of its own, with handles of *)
(* its own.                                                                *)
Remaps == {t \in Threads : remap[t] # NoOp}
RemapRecord(r) ==
  /\ DOMAIN r = {"va", "size", "new", "peers", "num_mapped", "offset", "step"}
  /\ r.step \in {"unmap", "map", "rollback"}
  /\ r.new \in Seq(Foreign) /\ IsInjective(r.new)
  /\ r.num_mapped \in Nat /\ r.offset \in Nat /\ r.peers \subseteq Peers
Operations ==
  /\ DOMAIN remap = Threads /\ remapped \subseteq DOMAIN allocs_
  /\ \A t \in Remaps : /\ RemapRecord(remap[t])
                       /\ remap[t].va \in DOMAIN allocs_ /\ remap[t].size = allocs_[remap[t].va]
                       /\ remap[t].step # "unmap" => remap[t].va \in remapped
  /\ \A t, u \in Remaps : t # u =>
       /\ remap[t].va # remap[u].va
       /\ \A h : ~ (h \in Range(remap[t].new) /\ h \in Range(remap[u].new))

(* Reserved ranges do not overlap, and what is mapped lies in one of them. *)
Homesteads ==
  /\ \A v \in DOMAIN reserved : reserved[v] \in Nat \ {0}
  /\ PairwiseDisjoint(reserved)
  /\ \A va \in DOMAIN allocs_ : reserved[va] = allocs_[va]
  /\ \A t \in Calls : reserved[call[t].va] = call[t].size
  /\ \A t \in Threads : /\ call[t].size \in Nat /\ call[t].offset \in Nat
                        /\ call[t].num_mapped \in Nat /\ call[t].todo \in Seq(BlockClasses)
Places ==
  /\ IsFiniteSet(DOMAIN mapping) /\ DOMAIN mapping \subseteq Nat
  /\ \A w, x \in DOMAIN mapping : w # x =>
       /\ Disjoint(w, BlockSize[mapping[w]], x, BlockSize[mapping[x]])
       /\ mapping[w] # mapping[x]
  /\ \A w \in DOMAIN mapping : mapping[w] \in taken \union Foreign
  /\ \A w \in DOMAIN mapping : \E v \in DOMAIN reserved : w \in MappedIn(mapping, v, reserved[v])

(* What the range of each call, live allocation and vmmRemap contains.     *)
CallOK(m, c) == OwnCall(m, c) \/ StrippedCall(m, c)
LiveOK(m, changed, s, va, size) ==
  /\ HandleSizes(s) = size
  /\ va \in changed => StrippedLive(m, s, va, size)
  /\ va \notin changed => OwnLive(m, s, va, size)
CallsOK == \A t \in Calls : CallOK(mapping, call[t])
LivesOK == \A va \in DOMAIN allocs_ : LiveOK(mapping, remapped, alloc_blocks[va], va, allocs_[va])
RemapsOK == \A t \in Remaps : RemapShape(mapping, remap[t])

(* A vmmRemap leaves a range empty or full. *)
Settled ==
  \A va \in remapped :
    \/ \E t \in Remaps : remap[t].va = va /\ remap[t].step # "unmap"
    \/ MappedIn(mapping, va, allocs_[va]) = {}
    \/ MappedBytes(mapping, va, allocs_[va]) = allocs_[va]
Contents == CallsOK /\ LivesOK /\ RemapsOK /\ Settled

(* A peer is in both allocators once its call has returned, and what is    *)
(* mapped in a live range no vmmRemap has changed is open to it.           *)
Registering ==
  /\ DOMAIN enable = Threads
  /\ \A t \in Threads : enable[t] # NoOp =>
       /\ enable[t].step \in {"small", "large"} /\ enable[t].dev \in Peers
       /\ enable[t].step = "large" => enable[t].dev \in small_peers
  /\ \A dev \in registered \ refused :
       \/ \E t \in Threads : enable[t] # NoOp /\ enable[t].dev = dev
       \/ dev \in small_peers /\ dev \in peer_devices_
Reached ==
  \A va \in DOMAIN allocs_ \ remapped : \A w \in MappedIn(mapping, va, allocs_[va]) :
    \A dev \in peer_devices_ \ refused : dev \in access[w]

Layout == LargeInv /\ Operations /\ Homesteads /\ Places
MAInv == Layout /\ Contents /\ Registering /\ Reached

-----------------------------------------------------------------------------
(* What a step that maps or unmaps in one range does to the others *)

LEMMA SizedFacts ==
  /\ Sized = DOMAIN BlockSize /\ Handles \subseteq Sized /\ Foreign \subseteq Sized
  /\ \A h \in Handles : h \notin Foreign
  /\ \A h \in Sized : BlockSize[h] \in Nat \ {0} /\ BlockSize[h] \in BlockClasses
  BY BlockFacts, PlacesAssumption, ForeignAssumption DEF Sized

LEMMA MappingFacts ==
  ASSUME Layout
  PROVE  /\ \A w \in DOMAIN mapping : /\ mapping[w] \in Sized /\ w \in Nat
                                      /\ BlockSize[mapping[w]] \in Nat \ {0}
         /\ \A v \in DOMAIN reserved : v \in Nat /\ reserved[v] \in Nat \ {0}
         /\ DOMAIN access = DOMAIN mapping
  BY SizedFacts, PlacesAssumption DEF Layout, LargeInv, TypeOK, Places, Homesteads

(* Something mapped in one reserved range is not mapped in another. *)
LEMMA OneHouse ==
  ASSUME Layout, NEW m, NEW u \in DOMAIN reserved, NEW v \in DOMAIN reserved, u # v,
         NEW w \in DOMAIN m, w \in Nat, m[w] \in Sized,
         w \in MappedIn(m, u, reserved[u])
  PROVE  w \notin MappedIn(m, v, reserved[v])
<1>1. Disjoint(u, reserved[u], v, reserved[v])
  BY DEF Layout, Homesteads, PairwiseDisjoint
<1>2. u \in Nat /\ v \in Nat /\ reserved[u] \in Nat /\ reserved[v] \in Nat
  BY MappingFacts
<1>3. BlockSize[m[w]] \in Nat \ {0}
  BY SizedFacts
<1>4. \A a, b, c, d, x, n \in Int : n > 0 /\ (a + b <= c \/ c + d <= a)
        /\ a <= x /\ x + n <= a + b => ~ (c <= x /\ x + n <= c + d)
  OBVIOUS
<1>q. QED BY <1>1, <1>2, <1>3, <1>4 DEF MappedIn, Disjoint

LEMMA WithinIs ==
  ASSUME Layout, NEW v \in DOMAIN reserved
  PROVE  Within(v, reserved[v]) = MappedIn(mapping, v, reserved[v])
<1>1. v \in Nat /\ reserved[v] \in Nat \ {0}
  BY MappingFacts
<1>2. ASSUME NEW w \in DOMAIN mapping, w \in Within(v, reserved[v])
      PROVE  w \in MappedIn(mapping, v, reserved[v])
  <2>1. PICK u \in DOMAIN reserved : w \in MappedIn(mapping, u, reserved[u])
    BY DEF Layout, Places
  <2>2. SUFFICES ASSUME u # v PROVE FALSE
    BY <2>1
  <2>3. Disjoint(u, reserved[u], v, reserved[v])
    BY <2>2 DEF Layout, Homesteads, PairwiseDisjoint
  <2>4. u \in Nat /\ reserved[u] \in Nat /\ w \in Nat /\ BlockSize[mapping[w]] \in Nat \ {0}
    BY MappingFacts
  <2>5. ~ Disjoint(v, reserved[v], w, BlockSize[mapping[w]])
    BY <1>2 DEF Within
  <2>q. QED BY <1>1, <2>1, <2>3, <2>4, <2>5 DEF MappedIn, Disjoint
<1>3. ASSUME NEW w \in MappedIn(mapping, v, reserved[v])
      PROVE  w \in Within(v, reserved[v])
  <2>1. w \in DOMAIN mapping /\ w \in Nat /\ BlockSize[mapping[w]] \in Nat \ {0}
    BY MappingFacts DEF MappedIn
  <2>q. QED BY <1>1, <2>1 DEF MappedIn, Within, Disjoint
<1>q. QED BY <1>2, <1>3 DEF Within, MappedIn

(* A handle is mapped in the range at v ... *)
LEMMA MapOther ==
  ASSUME Layout, NEW v \in DOMAIN reserved, NEW h \in Sized, NEW end \in Nat,
         end \notin DOMAIN mapping, mapping' = AddRange(mapping, end, h),
         v <= end, end + BlockSize[h] <= v + reserved[v]
  PROVE  /\ \A u \in DOMAIN reserved : u # v => Same(mapping, mapping', u, reserved[u])
         /\ \A w \in DOMAIN mapping' : At(mapping, w, mapping'[w]) \/ mapping'[w] = h
         /\ \A w \in DOMAIN mapping : w \in DOMAIN mapping' /\ mapping'[w] = mapping[w]
         /\ end \in MappedIn(mapping', v, reserved[v])
<1>1. /\ DOMAIN mapping' = DOMAIN mapping \union {end} /\ mapping'[end] = h
      /\ \A w \in DOMAIN mapping : mapping'[w] = mapping[w] /\ w # end
  BY DEF AddRange
<1>2. end \in MappedIn(mapping', v, reserved[v])
  BY <1>1 DEF MappedIn
<1>3. \A u \in DOMAIN reserved : u # v => end \notin MappedIn(mapping', u, reserved[u])
  BY <1>1, <1>2, OneHouse
<1>4. \A u \in DOMAIN reserved : u # v => Same(mapping, mapping', u, reserved[u])
  BY <1>1, <1>3 DEF Same, MappedIn
<1>q. QED BY <1>1, <1>2, <1>4 DEF At

(* ... or mappings in it are dissolved. *)
LEMMA UnmapOther ==
  ASSUME Layout, NEW v \in DOMAIN reserved,
         DOMAIN mapping' \subseteq DOMAIN mapping,
         \A w \in DOMAIN mapping' : mapping'[w] = mapping[w],
         \A w \in DOMAIN mapping : w \in DOMAIN mapping' \/ w \in MappedIn(mapping, v, reserved[v])
  PROVE  /\ \A u \in DOMAIN reserved : u # v => Same(mapping, mapping', u, reserved[u])
         /\ \A w \in DOMAIN mapping' : At(mapping, w, mapping'[w])
<1>1. ASSUME NEW u \in DOMAIN reserved, u # v PROVE Same(mapping, mapping', u, reserved[u])
  <2>1. \A w \in MappedIn(mapping, u, reserved[u]) : w \in DOMAIN mapping'
    BY <1>1, OneHouse, MappingFacts DEF MappedIn
  <2>q. QED BY <2>1 DEF Same, MappedIn
<1>q. QED BY <1>1 DEF At

LEMMA UnmapInside ==
  ASSUME Layout, NEW v \in DOMAIN reserved, NEW a \in Nat, NEW size \in Nat,
         v <= a, a + size <= v + reserved[v], memUnmap(a, size)
  PROVE  /\ DOMAIN mapping' \subseteq DOMAIN mapping
         /\ \A w \in DOMAIN mapping' : mapping'[w] = mapping[w] /\ access'[w] = access[w]
         /\ \A w \in DOMAIN mapping : \/ w \in DOMAIN mapping'
                                      \/ w \in MappedIn(mapping, v, reserved[v])
<1> DEFINE gone == IF FullyMapped(a, size) THEN Within(a, size) ELSE {}
<1>1. /\ DOMAIN mapping' = DOMAIN mapping \ gone
      /\ \A w \in DOMAIN mapping' : mapping'[w] = mapping[w] /\ access'[w] = access[w]
  BY MappingFacts DEF memUnmap, Restrict
<1>2. ASSUME NEW w \in gone PROVE w \in MappedIn(mapping, v, reserved[v])
  <2>1. w \in DOMAIN mapping /\ a <= w /\ w + BlockSize[mapping[w]] <= a + size
    BY <1>2 DEF FullyMapped, Within
  <2>2. v \in Nat /\ reserved[v] \in Nat /\ w \in Nat /\ BlockSize[mapping[w]] \in Nat
    BY <2>1, MappingFacts
  <2>q. QED BY <2>1, <2>2 DEF MappedIn
<1>q. QED BY <1>1, <1>2

LEMMA PlacesAdd ==
  ASSUME Layout, NEW v \in DOMAIN reserved, NEW h \in Sized, NEW end \in Nat,
         Mappable(end, BlockSize[h]), mapping' = AddRange(mapping, end, h),
         v <= end, end + BlockSize[h] <= v + reserved[v],
         \A w \in DOMAIN mapping : mapping[w] # h,
         UNCHANGED reserved, taken \subseteq taken', h \in taken' \union Foreign
  PROVE  Places' /\ end \notin DOMAIN mapping
<1>1. \A w \in DOMAIN mapping : /\ Disjoint(end, BlockSize[h], w, BlockSize[mapping[w]])
                                /\ w \in Nat /\ BlockSize[mapping[w]] \in Nat \ {0}
  BY MappingFacts DEF Mappable, Within
<1>2. BlockSize[h] \in Nat \ {0}
  BY SizedFacts
<1>3. end \notin DOMAIN mapping
  BY <1>1, <1>2 DEF Disjoint
<1>4. /\ DOMAIN mapping' = DOMAIN mapping \union {end} /\ mapping'[end] = h
      /\ \A w \in DOMAIN mapping : mapping'[w] = mapping[w] /\ w # end
  BY <1>3 DEF AddRange
<1>5. \A w, x \in DOMAIN mapping' : w # x =>
        /\ Disjoint(w, BlockSize[mapping'[w]], x, BlockSize[mapping'[x]])
        /\ mapping'[w] # mapping'[x]
  BY <1>1, <1>2, <1>4 DEF Layout, Places, Disjoint
<1>6. IsFiniteSet(DOMAIN mapping')
  <2>1. IsFiniteSet(DOMAIN mapping)
    BY DEF Layout, Places
  <2>q. QED BY <1>4, <2>1, FS_AddElement
<1>7. /\ DOMAIN mapping' \subseteq Nat
      /\ \A w \in DOMAIN mapping' : mapping'[w] \in taken' \union Foreign
  BY <1>4 DEF Layout, Places
<1>8. \A w \in DOMAIN mapping' : \E u \in DOMAIN reserved : w \in MappedIn(mapping', u, reserved[u])
  <2>1. end \in MappedIn(mapping', v, reserved[v])
    BY <1>4 DEF MappedIn
  <2>2. \A w \in DOMAIN mapping, u \in DOMAIN reserved :
          w \in MappedIn(mapping, u, reserved[u]) => w \in MappedIn(mapping', u, reserved[u])
    BY <1>4 DEF MappedIn
  <2>q. QED BY <1>4, <2>1, <2>2 DEF Layout, Places
<1>q. QED BY <1>3, <1>5, <1>6, <1>7, <1>8 DEF Places

LEMMA PlacesRemove ==
  ASSUME Layout, DOMAIN mapping' \subseteq DOMAIN mapping,
         \A w \in DOMAIN mapping' : mapping'[w] = mapping[w] /\ mapping'[w] \in taken' \union Foreign,
         \A v \in DOMAIN reserved : \/ v \in DOMAIN reserved' /\ reserved'[v] = reserved[v]
                                    \/ MappedIn(mapping, v, reserved[v]) = {}
  PROVE  Places'
<1>1. IsFiniteSet(DOMAIN mapping')
  BY FS_Subset DEF Layout, Places
<1>2. \A w \in DOMAIN mapping' : \E v \in DOMAIN reserved' : w \in MappedIn(mapping', v, reserved'[v])
  <2>1. ASSUME NEW w \in DOMAIN mapping', NEW v \in DOMAIN reserved, w \in MappedIn(mapping, v, reserved[v])
        PROVE  v \in DOMAIN reserved' /\ w \in MappedIn(mapping', v, reserved'[v])
    BY <2>1 DEF MappedIn
  <2>q. QED BY <2>1 DEF Layout, Places
<1>3. \A w, x \in DOMAIN mapping' : w # x =>
        /\ Disjoint(w, BlockSize[mapping'[w]], x, BlockSize[mapping'[x]])
        /\ mapping'[w] # mapping'[x]
  BY DEF Layout, Places
<1>q. QED BY <1>1, <1>2, <1>3 DEF Layout, Places

-----------------------------------------------------------------------------
(* What a step in the range at v does to the contents of the others. *)
LEMMA Others ==
  ASSUME Layout, Contents, NEW v, NEW H,
         \A u \in DOMAIN reserved : u # v => Same(mapping, mapping', u, reserved[u]),
         \A w \in DOMAIN mapping' : At(mapping, w, mapping'[w]) \/ mapping'[w] \in H
  PROVE  /\ \A t \in Calls : call[t].va # v /\ (\A h \in H : h \notin CallHolds(t)) =>
              CallOK(mapping', call[t])
         /\ \A va \in DOMAIN allocs_ : va # v /\ (\A h \in H : h \notin LiveHolds(va)) =>
              /\ LiveOK(mapping', remapped, alloc_blocks[va], va, allocs_[va])
              /\ MappedIn(mapping', va, allocs_[va]) = MappedIn(mapping, va, allocs_[va])
              /\ MappedBytes(mapping', va, allocs_[va]) = MappedBytes(mapping, va, allocs_[va])
         /\ \A t \in Remaps : remap[t].va # v /\ (\A h \in H : h \notin Range(remap[t].new)) =>
              RemapShape(mapping', remap[t])
<1> USE DEF Layout, Contents
<1>1. \A s : (\A h \in H : h \notin Range(s)) => NoneComes(mapping, mapping', s)
  BY DEF NoneComes
<1>2. ASSUME NEW t \in Calls, call[t].va # v, \A h \in H : h \notin CallHolds(t)
      PROVE  CallOK(mapping', call[t])
  <2> DEFINE c == call[t]
  <2>1. /\ c.blocks \in Seq(Handles) /\ c.num_mapped \in Nat
        /\ c.step = "return" => c.blocks # <<>>
        /\ c.va \in DOMAIN reserved /\ reserved[c.va] = c.size
    BY DEF LargeInv, TypeOK, Homes, Homesteads, Calls, InStep
  <2>2. NoneComes(mapping, mapping', c.blocks)
    BY <1>1, <1>2 DEF CallHolds
  <2>3. Same(mapping, mapping', c.va, c.size) /\ CallOK(mapping, c)
    BY <1>2, <2>1 DEF CallsOK
  <2> HIDE DEF c
  <2>4. OwnCall(mapping, c) => OwnCall(mapping', c)
    BY <2>1, <2>2, <2>3, OwnCallSame
  <2>5. StrippedCall(mapping, c) => StrippedCall(mapping', c)
    BY <2>2, <2>3, StrippedCallSame
  <2>q. QED BY <2>3, <2>4, <2>5 DEF CallOK, c
<1>3. ASSUME NEW va \in DOMAIN allocs_, va # v, \A h \in H : h \notin LiveHolds(va)
      PROVE  /\ LiveOK(mapping', remapped, alloc_blocks[va], va, allocs_[va])
             /\ MappedIn(mapping', va, allocs_[va]) = MappedIn(mapping, va, allocs_[va])
             /\ MappedBytes(mapping', va, allocs_[va]) = MappedBytes(mapping, va, allocs_[va])
  <2> DEFINE s == alloc_blocks[va]
             size == allocs_[va]
  <2>1. s \in Seq(Handles) /\ va \in DOMAIN reserved /\ reserved[va] = size
    BY DEF LargeInv, TypeOK, Homes, Homesteads
  <2>2. NoneComes(mapping, mapping', s)
    BY <1>1, <1>3 DEF LiveHolds
  <2>3. Same(mapping, mapping', va, size) /\ LiveOK(mapping, remapped, s, va, size)
    BY <1>3, <2>1 DEF LivesOK
  <2> HIDE DEF s, size
  <2>4. /\ OwnLive(mapping, s, va, size) => OwnLive(mapping', s, va, size)
        /\ StrippedLive(mapping, s, va, size) => StrippedLive(mapping', s, va, size)
    BY <2>1, <2>2, <2>3, LiveSame
  <2>5. LiveOK(mapping', remapped, s, va, size)
    BY <2>3, <2>4 DEF LiveOK
  <2>6. /\ MappedIn(mapping', va, size) = MappedIn(mapping, va, size)
        /\ MappedBytes(mapping', va, size) = MappedBytes(mapping, va, size)
    BY <2>3, SameBytes DEF Same
  <2>q. QED BY <2>5, <2>6 DEF s, size
<1>4. ASSUME NEW t \in Remaps, remap[t].va # v, \A h \in H : h \notin Range(remap[t].new)
      PROVE  RemapShape(mapping', remap[t])
  <2> DEFINE r == remap[t]
  <2>1. /\ r.new \in Seq(Foreign) /\ r.num_mapped \in Nat
        /\ r.va \in DOMAIN reserved /\ reserved[r.va] = r.size
    BY DEF LargeInv, Homes, Homesteads, Operations, RemapRecord
  <2>2. Same(mapping, mapping', r.va, r.size) /\ RemapShape(mapping, r)
    BY <1>4, <2>1 DEF RemapsOK
  <2>3. NoneComes(mapping, mapping', r.new)
    BY <1>1, <1>4
  <2> HIDE DEF r
  <2>4. RemapShape(mapping', r)
    BY <2>1, <2>2, <2>3, RemapSame
  <2>q. QED BY <2>4 DEF r
<1>q. QED BY <1>2, <1>3, <1>4

(* The history and the vmmRemaps, as a step of the LargeAllocator by one   *)
(* thread leaves them.                                                     *)
LEMMA OperationsKept ==
  ASSUME Operations, UNCHANGED <<remap, remapped>>,
         \A va \in DOMAIN allocs_ : \/ va \in DOMAIN allocs_' /\ allocs_'[va] = allocs_[va]
                                    \/ va \notin remapped /\ \A t \in Remaps : remap[t].va # va
  PROVE  Operations' /\ Remaps' = Remaps
<1>1. Remaps' = Remaps
  BY DEF Remaps
<1>q. QED BY <1>1 DEF Operations, RemapRecord

(* A step of call t in its own range. *)
LEMMA CallStep ==
  ASSUME MAInv, LargeInv', Places', NEW t \in Calls, NEW c, NEW H,
         call' = [call EXCEPT ![t] = c], c.step \in {"map", "unmap", "return"},
         c.va = call[t].va, c.size = call[t].size,
         c.offset \in Nat, c.num_mapped \in Nat, c.todo \in Seq(BlockClasses),
         UNCHANGED <<live, peer_devices_, reserved, peer_vars, remap, remapped>>,
         \A u \in DOMAIN reserved : u # c.va => Same(mapping, mapping', u, reserved[u]),
         \A w \in DOMAIN mapping' : At(mapping, w, mapping'[w]) \/ mapping'[w] \in H,
         \A w \in DOMAIN mapping' : w \in DOMAIN mapping => access'[w] = access[w],
         \A h \in H : h \in Handles \ taken,
         CallOK(mapping', c)
  PROVE  MAInv'
<1> USE DEF MAInv
<1>1. /\ DOMAIN call = Threads /\ call'[t] = c /\ t \in Threads
      /\ \A u \in Threads : u # t => call'[u] = call[u]
  BY DEF Layout, LargeInv, TypeOK, Calls
<1>2. Calls' = Calls
  BY <1>1 DEF Calls, InStep
<1>3. Operations' /\ Remaps' = Remaps
  <2>1. allocs_' = allocs_ /\ remap' = remap /\ remapped' = remapped
    BY DEF live
  <2>q. QED BY <2>1, OperationsKept DEF Layout
<1>4. Homesteads'
  <2>1. \A u \in Threads : /\ call'[u].size \in Nat /\ call'[u].offset \in Nat
                           /\ call'[u].num_mapped \in Nat /\ call'[u].todo \in Seq(BlockClasses)
    BY <1>1 DEF Layout, Homesteads
  <2>2. \A u \in Calls : call'[u].va = call[u].va /\ call'[u].size = call[u].size
    BY <1>1 DEF Calls
  <2>q. QED BY <1>2, <2>1, <2>2 DEF Layout, Homesteads, live
<1>5. /\ \A u \in Calls : u # t => call[u].va # c.va
      /\ \A va \in DOMAIN allocs_ : va # c.va
      /\ \A u \in Remaps : remap[u].va # c.va
  BY DEF Layout, LargeInv, Homes, Operations
<1>6. /\ \A h \in H, u \in Threads : h \notin CallHolds(u)
      /\ \A h \in H, va \in DOMAIN allocs_ : h \notin LiveHolds(va)
      /\ \A h \in H, u \in Remaps : h \notin Range(remap[u].new)
  <2>1. \A u \in Remaps : Range(remap[u].new) \subseteq Foreign
    BY DEF Layout, Operations, RemapRecord, Range
  <2>q. QED BY <2>1, SizedFacts DEF Layout, LargeInv, Owned
<1>7. /\ \A u \in Calls : u # t => CallOK(mapping', call[u])
      /\ \A va \in DOMAIN allocs_ :
           /\ LiveOK(mapping', remapped, alloc_blocks[va], va, allocs_[va])
           /\ MappedIn(mapping', va, allocs_[va]) = MappedIn(mapping, va, allocs_[va])
           /\ MappedBytes(mapping', va, allocs_[va]) = MappedBytes(mapping, va, allocs_[va])
      /\ \A u \in Remaps : RemapShape(mapping', remap[u])
  <2>1. \A u \in Calls : u \in Threads
    BY DEF Calls
  <2>q. QED BY <1>5, <1>6, <2>1, Others
<1>8. Contents'
  <2>1. CallsOK'
    BY <1>1, <1>2, <1>7 DEF CallsOK, Calls
  <2>2. LivesOK'
    BY <1>7 DEF LivesOK, live
  <2>3. RemapsOK'
    BY <1>3, <1>7 DEF RemapsOK
  <2>4. Settled'
    BY <1>3, <1>7 DEF Settled, Contents, live, Layout, Operations
  <2>q. QED BY <2>1, <2>2, <2>3, <2>4 DEF Contents
<1>9. Registering'
  BY DEF Registering, peer_vars
<1>10. Reached'
  <2>1. ASSUME NEW va \in DOMAIN allocs_ \ remapped, NEW w \in MappedIn(mapping', va, allocs_[va]),
               NEW dev \in peer_devices_ \ refused
        PROVE  dev \in access'[w]
    <3>1. w \in MappedIn(mapping, va, allocs_[va]) /\ w \in DOMAIN mapping /\ w \in DOMAIN mapping'
      BY <1>7, <2>1 DEF MappedIn
    <3>q. QED BY <3>1 DEF Reached
  <2>q. QED BY <2>1 DEF Reached, live, peer_vars
<1>q. QED BY <1>3, <1>4, <1>8, <1>9, <1>10 DEF Layout

-----------------------------------------------------------------------------
(* The steps of the LargeAllocator *)

LEMMA CallFacts ==
  ASSUME Layout, NEW t \in Calls
  PROVE  /\ call[t].va \in DOMAIN reserved /\ reserved[call[t].va] = call[t].size
         /\ call[t].va \in Nat /\ call[t].size \in Nat \ {0}
         /\ call[t].offset \in Nat /\ call[t].num_mapped \in Nat
         /\ call[t].todo \in Seq(BlockClasses) /\ call[t].todo \in Seq(Nat)
         /\ call[t].blocks \in Seq(Handles) /\ call[t].blocks \in Seq(Sized)
         /\ IsInjective(call[t].blocks)
         /\ CallHolds(t) \subseteq taken /\ call[t].va \notin DOMAIN allocs_
         /\ call[t].step \in {"map", "unmap", "return"}
         /\ call[t].step = "return" => call[t].blocks # <<>>
<1>1. t \in Threads /\ ~ InStep(t, "idle")
  BY DEF Calls
<1>2. call[t].todo \in Seq(BlockClasses) /\ call[t].blocks \in Seq(Handles)
  BY <1>1 DEF Layout, Homesteads, LargeInv, TypeOK
<1>3. call[t].todo \in Seq(Nat)
  BY <1>2, ClassFacts, SeqSubset
<1>4. call[t].blocks \in Seq(Sized)
  BY <1>2, SizedFacts, SeqSubset
<1>5. call[t].va \in DOMAIN reserved /\ reserved[call[t].va] = call[t].size
  BY DEF Layout, LargeInv, Homes, Homesteads
<1>6. call[t].va \in Nat /\ call[t].size \in Nat \ {0}
  BY <1>5, MappingFacts
<1>7. /\ CallHolds(t) \subseteq taken /\ IsInjective(call[t].blocks)
      /\ call[t].va \notin DOMAIN allocs_
  BY <1>1 DEF Layout, LargeInv, Owned, Homes
<1>8. /\ call[t].step \in {"map", "unmap", "return"}
      /\ call[t].step = "return" => call[t].blocks # <<>>
  BY <1>1 DEF Layout, LargeInv, TypeOK, Homes, InStep
<1>9. call[t].offset \in Nat /\ call[t].num_mapped \in Nat
  BY <1>1 DEF Layout, Homesteads
<1>q. QED BY <1>2, <1>3, <1>4, <1>5, <1>6, <1>7, <1>8, <1>9

LEMMA MapBlockAccess ==
  ASSUME MAInv, LargeInv', NEW t \in Threads, MapBlock(t),
         UNCHANGED <<peer_vars, remap, remapped>>
  PROVE  MAInv'
<1> USE DEF MAInv
<1> DEFINE c == call[t]
           c2 == call'[t]
           size == Head(c.todo)
           end == c.va + c.offset
<1>1. /\ InStep(t, "map") /\ c.todo # <<>> /\ UNCHANGED <<live, peer_devices_, reserved>>
      /\ t \in Calls /\ c.step = "map"
  BY DEF MapBlock, Calls, InStep
<1>2. PICK h \in Handles \ taken :
        /\ BlockSize[h] = size /\ Mappable(end, size)
        /\ taken' = taken \union {h}
        /\ memMap(end, h)
        /\ call' = [call EXCEPT ![t].todo = Tail(@), ![t].blocks = Append(@, h),
                      ![t].num_mapped = @ + 1, ![t].offset = @ + size]
  BY DEF MapBlock
<1>3. /\ c.va \in DOMAIN reserved /\ reserved[c.va] = c.size
      /\ c.va \in Nat /\ c.size \in Nat \ {0} /\ c.offset \in Nat /\ c.num_mapped \in Nat
      /\ c.todo \in Seq(BlockClasses) /\ c.todo \in Seq(Nat)
      /\ c.blocks \in Seq(Handles) /\ c.blocks \in Seq(Sized) /\ CallHolds(t) \subseteq taken
  BY <1>1, CallFacts DEF MAInv
<1>4. /\ c2.todo = Tail(c.todo) /\ c2.blocks = Append(c.blocks, h)
      /\ c2.num_mapped = c.num_mapped + 1 /\ c2.offset = c.offset + size
      /\ c2.va = c.va /\ c2.size = c.size /\ c2.step = "map"
      /\ call' = [call EXCEPT ![t] = c2]
  <2>1. DOMAIN call = Threads
    BY DEF Layout, LargeInv, TypeOK
  <2>2. DOMAIN call[t] = {"va", "size", "todo", "blocks", "num_mapped", "offset", "step"}
    BY DEF Layout, LargeInv, TypeOK
  <2>q. QED BY <1>1, <1>2, <2>1, <2>2
<1>5. OwnCall(mapping, c)
  BY <1>1 DEF Contents, CallsOK, CallOK, StrippedCall
<1>6. /\ Only(mapping, c.blocks, c.va, c.size)
      /\ c.num_mapped = Len(c.blocks) /\ Chain(mapping, c.blocks, Len(c.blocks), c.va)
      /\ IF c.blocks = <<>> THEN c.offset = 0 ELSE EndsAt(mapping, c.blocks, end)
      /\ c.offset = MappedBytes(mapping, c.va, c.size) /\ c.offset = HandleSizes(c.blocks)
      /\ c.offset + LayoutBytes(c.todo) = c.size
  BY <1>1, <1>5 DEF OwnCall
<1> HIDE DEF c, c2, end, size
<1>7. h \in Sized /\ size \in Nat \ {0} /\ h \notin Foreign
  BY <1>2, SizedFacts
<1>8. end \in Nat /\ end = c.va + c.offset
  BY <1>3 DEF end
<1>9. /\ LayoutBytes(c.todo) = size + LayoutBytes(Tail(c.todo))
      /\ LayoutBytes(Tail(c.todo)) \in Nat /\ Tail(c.todo) \in Seq(BlockClasses)
  <2>1. Total(c.todo) = Head(c.todo) + Total(Tail(c.todo)) /\ IsFiniteMap(Tail(c.todo))
    BY <1>1, <1>3, TotalTail
  <2>2. Tail(c.todo) \in Seq(BlockClasses)
    BY <1>1, <1>3
  <2>q. QED BY <2>1, <2>2, TotalNat DEF LayoutBytes, size
<1>10. c.va <= end /\ end + BlockSize[h] <= c.va + reserved[c.va]
  BY <1>2, <1>3, <1>6, <1>7, <1>8, <1>9
<1>11. mapping' = AddRange(mapping, end, h) /\ access' = AddRange(access, end, {})
  BY <1>2 DEF memMap
<1>12. \A w \in DOMAIN mapping : mapping[w] # h
  BY <1>2, <1>7 DEF Layout, Places
<1>13. Places' /\ end \notin DOMAIN mapping
  BY <1>1, <1>2, <1>3, <1>7, <1>8, <1>10, <1>11, <1>12, PlacesAdd
<1>14. /\ \A u \in DOMAIN reserved : u # c.va => Same(mapping, mapping', u, reserved[u])
       /\ \A w \in DOMAIN mapping' : At(mapping, w, mapping'[w]) \/ mapping'[w] \in {h}
  BY <1>3, <1>7, <1>8, <1>10, <1>11, <1>13, MapOther
<1>15. \A w \in DOMAIN mapping' : w \in DOMAIN mapping => access'[w] = access[w]
  BY <1>11, <1>13, MappingFacts DEF AddRange
<1>16. CallOK(mapping', c2)
  <2>1. h \notin Range(c.blocks) /\ Range(c2.blocks) = Range(c.blocks) \union {h}
    BY <1>2, <1>3, <1>4, BlockAppended DEF CallHolds, c
  <2>2. /\ Chain(mapping', c2.blocks, Len(c.blocks) + 1, c.va)
        /\ EndsAt(mapping', c2.blocks, end + BlockSize[h])
    <3>1. IF c.blocks = <<>> THEN end = c.va ELSE EndsAt(mapping, c.blocks, end)
      BY <1>3, <1>6, <1>8
    <3>q. QED BY <1>2, <1>3, <1>4, <1>6, <1>11, <1>12, <1>13, <2>1, <3>1, ChainGrows
  <2>3. Len(c2.blocks) = Len(c.blocks) + 1 /\ c2.blocks # <<>>
    BY <1>3, <1>4
  <2>4. /\ MappedIn(mapping', c.va, c.size) = MappedIn(mapping, c.va, c.size) \union {end}
        /\ MappedBytes(mapping', c.va, c.size) = MappedBytes(mapping, c.va, c.size) + BlockSize[h]
    <3>1. IsFiniteSet(DOMAIN mapping) /\ \A w \in DOMAIN mapping : mapping[w] \in Sized
      BY MappingFacts DEF Layout, Places
    <3>2. c.va <= end /\ end + BlockSize[h] <= c.va + c.size /\ c.va \in Nat /\ c.size \in Nat
      BY <1>3, <1>10
    <3>3. /\ end \notin DOMAIN mapping /\ mapping' = AddRange(mapping, end, h) /\ h \in Sized
      BY <1>7, <1>11, <1>13
    <3>q. QED BY <3>1, <3>2, <3>3, RangeGains
  <2>5. Only(mapping', c2.blocks, c.va, c.size)
    <3>1. /\ DOMAIN mapping' = DOMAIN mapping \union {end} /\ mapping'[end] = h
          /\ \A w \in DOMAIN mapping : mapping'[w] = mapping[w] /\ w # end
      BY <1>11, <1>13 DEF AddRange
    <3>q. QED BY <1>6, <1>12, <2>1, <2>4, <3>1 DEF Only
  <2>6. HandleSizes(c2.blocks) = HandleSizes(c.blocks) + BlockSize[h]
    BY <1>3, <1>4, <1>7, SizesAppend
  <2>7. end + BlockSize[h] = c2.va + c2.offset /\ c2.offset + LayoutBytes(c2.todo) = c2.size
    BY <1>2, <1>3, <1>4, <1>6, <1>7, <1>8, <1>9
  <2>q. QED BY <1>2, <1>4, <1>6, <2>2, <2>3, <2>4, <2>5, <2>6, <2>7 DEF CallOK, OwnCall
<1>17. \A x \in {h} : x \in Handles \ taken
  OBVIOUS
<1>18. c2.offset \in Nat /\ c2.num_mapped \in Nat /\ c2.todo \in Seq(BlockClasses)
  <2>1. c.offset + size \in Nat /\ c.num_mapped + 1 \in Nat
    BY <1>3, <1>7
  <2>q. QED BY <1>4, <1>9, <2>1
<1>19. c2.step \in {"map", "unmap", "return"} /\ c2.va = call[t].va /\ c2.size = call[t].size
  BY <1>4 DEF c
<1>20. \A u \in DOMAIN reserved : u # c2.va => Same(mapping, mapping', u, reserved[u])
  BY <1>4, <1>14
<1>q. QED BY <1>1, <1>4, <1>13, <1>14, <1>15, <1>16, <1>17, <1>18, <1>19, <1>20, CallStep

(* Nothing is mapped or unmapped. *)
LEMMA NothingMapped ==
  ASSUME UNCHANGED <<mapping, access>>
  PROVE  /\ \A u \in DOMAIN reserved : Same(mapping, mapping', u, reserved[u])
         /\ \A w \in DOMAIN mapping' : At(mapping, w, mapping'[w])
         /\ \A w \in DOMAIN mapping' : access'[w] = access[w]
         /\ DOMAIN mapping' \subseteq DOMAIN mapping
         /\ \A w \in DOMAIN mapping' : mapping'[w] = mapping[w]
  BY DEF Same, At

LEMMA AllocateFailsAccess ==
  ASSUME MAInv, LargeInv', NEW t \in Threads, AllocateFails(t),
         UNCHANGED <<peer_vars, remap, remapped>>
  PROVE  MAInv'
<1> USE DEF MAInv
<1> DEFINE c == call[t]
           c2 == call'[t]
<1>1. /\ InStep(t, "map") /\ UNCHANGED <<live, peer_devices_, driver>>
      /\ t \in Calls /\ c.step = "map"
  BY DEF AllocateFails, Calls, InStep
<1>2. OwnCall(mapping, c)
  BY <1>1 DEF Contents, CallsOK, CallOK, StrippedCall
<1>3. /\ c.va \in Nat /\ c.size \in Nat \ {0} /\ c.offset \in Nat /\ c.num_mapped \in Nat
      /\ c.todo \in Seq(BlockClasses)
      /\ c.blocks \in Seq(Handles) /\ CallHolds(t) \subseteq taken
  BY <1>1, CallFacts
<1>4. /\ Only(mapping, c.blocks, c.va, c.size)
      /\ c.num_mapped = Len(c.blocks) /\ Chain(mapping, c.blocks, Len(c.blocks), c.va)
  BY <1>1, <1>2 DEF OwnCall
<1>5. /\ c2.va = c.va /\ c2.size = c.size /\ c2.todo = c.todo /\ c2.step = "unmap" /\ c2.offset = 0
      /\ c2.num_mapped = c.num_mapped /\ call' = [call EXCEPT ![t] = c2]
      /\ \/ c2.blocks = c.blocks /\ taken' = taken
         \/ \E h \in Handles \ taken : c2.blocks = Append(c.blocks, h) /\ taken' = taken \union {h}
  <2>1. DOMAIN call = Threads
    BY DEF Layout, LargeInv, TypeOK
  <2>2. DOMAIN call[t] = {"va", "size", "todo", "blocks", "num_mapped", "offset", "step"}
    BY DEF Layout, LargeInv, TypeOK
  <2>3. CASE /\ call' = [call EXCEPT ![t].step = "unmap", ![t].offset = 0]
             /\ UNCHANGED taken
    BY <2>1, <2>2, <2>3
  <2>4. ASSUME NEW h \in Handles \ taken, taken' = taken \union {h},
               call' = [call EXCEPT ![t].step = "unmap", ![t].offset = 0,
                                    ![t].blocks = Append(@, h)]
        PROVE  /\ c2.va = c.va /\ c2.size = c.size /\ c2.todo = c.todo /\ c2.step = "unmap"
               /\ c2.offset = 0 /\ c2.num_mapped = c.num_mapped /\ call' = [call EXCEPT ![t] = c2]
               /\ c2.blocks = Append(c.blocks, h)
    BY <2>1, <2>2, <2>4
  <2>q. QED BY <2>3, <2>4 DEF AllocateFails
<1> HIDE DEF c, c2
<1>6. c.va + 0 = c.va
  BY <1>3
<1>7. CallOK(mapping, c2)
  <2>1. CASE c2.blocks = c.blocks
    BY <1>4, <1>5, <1>6, <2>1 DEF CallOK, OwnCall
  <2>2. ASSUME NEW h \in Handles \ taken, c2.blocks = Append(c.blocks, h)
        PROVE  CallOK(mapping, c2)
    <3>1. \A w \in DOMAIN mapping : mapping[w] # h
      BY <2>2, SizedFacts DEF Layout, Places
    <3>2. Range(c2.blocks) = Range(c.blocks) \union {h}
      BY <1>3, <2>2, BlockAppended
    <3>3. Only(mapping, c2.blocks, c.va, c.size)
      BY <1>4, <3>1, <3>2 DEF Only
    <3>4. Chain(mapping, c2.blocks, Len(c.blocks), c.va)
      BY <1>3, <1>4, <2>2, <3>1, ChainUnmappedEnd
    <3>q. QED BY <1>4, <1>5, <1>6, <3>3, <3>4 DEF CallOK, OwnCall
  <2>q. QED BY <1>5, <2>1, <2>2
<1>8. mapping' = mapping /\ access' = access /\ reserved' = reserved
  BY <1>1 DEF driver
<1>9. Places'
  <2>1. taken \subseteq taken'
    BY <1>5
  <2>2. \A w \in DOMAIN mapping' : mapping'[w] = mapping[w] /\ mapping'[w] \in taken' \union Foreign
    BY <1>8, <2>1 DEF Layout, Places
  <2>q. QED BY <1>8, <2>2, PlacesRemove
<1>10. c2.offset \in Nat /\ c2.num_mapped \in Nat /\ c2.todo \in Seq(BlockClasses)
  BY <1>3, <1>5
<1>11. c2.step \in {"map", "unmap", "return"} /\ c2.va = call[t].va /\ c2.size = call[t].size
  BY <1>5 DEF c
<1>q. QED
  <2>1. \A h \in {} : h \in Handles \ taken
    OBVIOUS
  <2>q. QED BY <1>1, <1>5, <1>7, <1>8, <1>9, <1>10, <1>11, <2>1, NothingMapped, CallStep

LEMMA Shrinks ==
  ASSUME NEW m, NEW m2, DOMAIN m2 \subseteq DOMAIN m, \A w \in DOMAIN m2 : m2[w] = m[w],
         NEW s, NEW va, NEW size
  PROVE  /\ Only(m, s, va, size) => Only(m2, s, va, size)
         /\ Nowhere(m, s) => Nowhere(m2, s)
         /\ Theirs(m, va, size) => Theirs(m2, va, size)
  BY DEF Only, Nowhere, Theirs, MappedIn

LEMMA UnmapBlockAccess ==
  ASSUME MAInv, LargeInv', NEW t \in Threads, UnmapBlock(t),
         UNCHANGED <<peer_vars, remap, remapped>>
  PROVE  MAInv'
<1> USE DEF MAInv
<1> DEFINE c == call[t]
           c2 == call'[t]
           hd == Head(c.blocks)
           tl == Tail(c.blocks)
           size == BlockSize[hd]
           end == c.va + c.offset
<1>1. /\ InStep(t, "unmap") /\ c.blocks # <<>>
      /\ UNCHANGED <<mu_, live, peer_devices_, reserved, taken>>
      /\ t \in Calls /\ c.step = "unmap"
  BY DEF UnmapBlock, Calls, InStep
<1>2. /\ c.va \in DOMAIN reserved /\ reserved[c.va] = c.size
      /\ c.va \in Nat /\ c.size \in Nat \ {0} /\ c.offset \in Nat /\ c.num_mapped \in Nat
      /\ c.todo \in Seq(BlockClasses)
      /\ c.blocks \in Seq(Handles) /\ c.blocks \in Seq(Sized) /\ IsInjective(c.blocks)
  BY <1>1, CallFacts
<1>3. /\ c2.todo = c.todo /\ c2.blocks = c.blocks
      /\ c2.va = c.va /\ c2.size = c.size /\ c2.step = "return"
      /\ call' = [call EXCEPT ![t] = c2]
      /\ \/ /\ c.num_mapped > 0 /\ memUnmap(end, size)
            /\ c2.num_mapped = c.num_mapped - 1 /\ c2.offset = c.offset + size
         \/ /\ c.num_mapped = 0 /\ mapping' = mapping /\ access' = access
            /\ c2.num_mapped = c.num_mapped /\ c2.offset = c.offset
  <2>1. DOMAIN call = Threads
    BY DEF Layout, LargeInv, TypeOK
  <2>2. DOMAIN call[t] = {"va", "size", "todo", "blocks", "num_mapped", "offset", "step"}
    BY DEF Layout, LargeInv, TypeOK
  <2>q. QED BY <2>1, <2>2 DEF UnmapBlock
<1>4. CallOK(mapping, c)
  BY <1>1 DEF Contents, CallsOK
<1> HIDE DEF c, c2
<1>5. /\ hd \in Range(c.blocks) /\ hd \in Sized /\ size \in Nat \ {0}
      /\ tl \in Seq(Handles) /\ tl \in Seq(Sized) /\ Range(c.blocks) = Range(tl) \union {hd}
      /\ HandleSizes(c.blocks) = size + HandleSizes(tl) /\ HandleSizes(tl) \in Nat
  <2>1. hd \in Sized /\ tl \in Seq(Sized) /\ tl \in Seq(Handles)
    BY <1>1, <1>2
  <2>2. hd \in Range(c.blocks) /\ Range(c.blocks) = Range(tl) \union {hd}
    BY <1>1, <1>2, BlockDropped
  <2>3. /\ HandleSizes(c.blocks) = size + HandleSizes(tl) /\ HandleSizes(tl) \in Nat
    BY <1>1, <1>2, SizesTail
  <2>q. QED BY <2>1, <2>2, <2>3, SizedFacts
<1>e. end \in Nat /\ end = c.va + c.offset
  BY <1>2
<1> HIDE DEF hd, tl, size, end
<1>6. /\ DOMAIN mapping' \subseteq DOMAIN mapping
      /\ \A w \in DOMAIN mapping' : mapping'[w] = mapping[w] /\ access'[w] = access[w]
      /\ \A w \in DOMAIN mapping : w \in DOMAIN mapping' \/ w \in MappedIn(mapping, c.va, reserved[c.va])
      /\ CallOK(mapping', c2)
  <2>1. CASE c.num_mapped = 0
    <3>1. mapping' = mapping /\ access' = access /\ c2.num_mapped = 0 /\ c2.offset = c.offset
      BY <1>3, <2>1
    <3>2. CASE OwnCall(mapping, c)
      <4>1. Only(mapping, c.blocks, c.va, c.size) /\ Chain(mapping, c.blocks, 0, end)
        BY <1>1, <2>1, <3>2 DEF OwnCall, end
      <4>2. (\A w \in DOMAIN mapping : mapping[w] # hd) /\ Chain(mapping, tl, 0, end)
        BY <1>1, <1>2, <4>1, ChainNone DEF hd, tl
      <4>q. QED BY <1>3, <3>1, <4>1, <4>2 DEF CallOK, OwnCall, hd, tl, end
    <3>3. CASE StrippedCall(mapping, c)
      <4>1. c2.offset + HandleSizes(tl) <= c2.size
        <5>1. c.offset + HandleSizes(c.blocks) <= c.size
          BY <1>1, <3>3 DEF StrippedCall
        <5>q. QED BY <1>2, <1>3, <1>5, <3>1, <5>1
      <4>q. QED BY <1>3, <3>1, <3>3, <4>1 DEF CallOK, StrippedCall, tl
    <3>q. QED BY <1>4, <3>1, <3>2, <3>3 DEF CallOK
  <2>2. CASE c.num_mapped # 0
    <3>1. /\ memUnmap(end, size) /\ c.num_mapped > 0
          /\ c2.num_mapped = c.num_mapped - 1 /\ c2.offset = c.offset + size
      BY <1>3, <2>2
    <3>2. CASE OwnCall(mapping, c)
      <4>1. Only(mapping, c.blocks, c.va, c.size) /\ Chain(mapping, c.blocks, c.num_mapped, end)
        BY <1>1, <3>2 DEF OwnCall, end
      <4>2. end \in DOMAIN mapping /\ mapping[end] = hd
        <5>1. hd = c.blocks[1]
          BY <1>1, <1>2 DEF hd
        <5>q. QED BY <3>1, <4>1, <5>1 DEF Chain, At
      <4>3. end \in MappedIn(mapping, c.va, reserved[c.va])
        BY <1>2, <1>5, <4>1, <4>2 DEF Only
      <4>4. /\ DOMAIN mapping' = DOMAIN mapping \ {end}
            /\ \A w \in DOMAIN mapping' : mapping'[w] = mapping[w] /\ access'[w] = access[w]
        BY <3>1, <4>2, UnmapsOne DEF Layout, LargeInv, Places, size
      <4>5. \A w, x \in DOMAIN mapping : w # x => mapping[w] # mapping[x]
        BY DEF Layout, Places
      <4>6. /\ \A w \in DOMAIN mapping' : mapping'[w] # hd
            /\ Chain(mapping', tl, c.num_mapped - 1, end + size)
        <5>1. /\ c.blocks \in Seq(Handles) /\ c.blocks # <<>> /\ IsInjective(c.blocks)
              /\ c.num_mapped \in Nat /\ c.num_mapped > 0
          BY <1>1, <1>2, <3>1
        <5>2. DOMAIN mapping' = DOMAIN mapping \ {end} /\ \A w \in DOMAIN mapping' : mapping'[w] = mapping[w]
          BY <4>4
        <5>3. /\ \A w \in DOMAIN mapping' : mapping'[w] # Head(c.blocks)
              /\ Chain(mapping', Tail(c.blocks), c.num_mapped - 1, end + BlockSize[Head(c.blocks)])
          BY <4>1, <4>5, <5>1, <5>2, ChainShrinks
        <5>q. QED BY <5>3 DEF hd, tl, size
      <4>7. end + size = c2.va + c2.offset
        BY <1>2, <1>3, <1>5, <1>e, <3>1
      <4>8. Only(mapping', c.blocks, c.va, c.size)
        BY <4>1, <4>4, Shrinks
      <4>9. CallOK(mapping', c2)
        BY <1>3, <3>1, <4>6, <4>7, <4>8 DEF CallOK, OwnCall, hd, tl
      <4>q. QED BY <4>3, <4>4, <4>9
    <3>3. CASE StrippedCall(mapping, c)
      <4>1. c.offset + HandleSizes(c.blocks) <= c.size
        BY <1>1, <3>3 DEF StrippedCall
      <4>2. /\ end \in Nat /\ c.va <= end /\ end + size <= c.va + reserved[c.va]
            /\ c2.offset + HandleSizes(tl) <= c.size
        <5> DEFINE rest == HandleSizes(tl)
        <5>1. rest \in Nat /\ c.offset + (size + rest) <= c.size
          BY <1>5, <4>1
        <5> HIDE DEF rest
        <5>2. size \in Nat /\ c.va \in Nat /\ c.offset \in Nat /\ c.size \in Nat
          BY <1>2, <1>5
        <5>3. \A v, o, b, x, z \in Nat : o + (b + x) <= z =>
                v <= v + o /\ (v + o) + b <= v + z /\ (o + b) + x <= z
          OBVIOUS
        <5>4. /\ c.va <= c.va + c.offset /\ (c.va + c.offset) + size <= c.va + c.size
              /\ (c.offset + size) + rest <= c.size
          BY <5>1, <5>2, <5>3
        <5>q. QED BY <1>2, <1>e, <3>1, <5>4 DEF rest
      <4>3. /\ DOMAIN mapping' \subseteq DOMAIN mapping
            /\ \A w \in DOMAIN mapping' : mapping'[w] = mapping[w] /\ access'[w] = access[w]
            /\ \A w \in DOMAIN mapping : \/ w \in DOMAIN mapping'
                                         \/ w \in MappedIn(mapping, c.va, reserved[c.va])
        BY <1>2, <1>5, <3>1, <4>2, UnmapInside
      <4>4. Theirs(mapping', c.va, c.size) /\ Nowhere(mapping', c.blocks)
        BY <3>3, <4>3, Shrinks DEF StrippedCall
      <4>5. CallOK(mapping', c2)
        BY <1>3, <4>2, <4>4 DEF CallOK, StrippedCall, tl
      <4>q. QED BY <4>3, <4>5
    <3>q. QED BY <1>4, <3>2, <3>3 DEF CallOK
  <2>q. QED BY <2>1, <2>2
<1>7. /\ \A u \in DOMAIN reserved : u # c.va => Same(mapping, mapping', u, reserved[u])
      /\ \A w \in DOMAIN mapping' : At(mapping, w, mapping'[w])
  BY <1>2, <1>6, UnmapOther
<1>8. Places'
  <2>1. \A w \in DOMAIN mapping' : mapping'[w] = mapping[w] /\ mapping'[w] \in taken' \union Foreign
    BY <1>1, <1>6 DEF Layout, Places
  <2>q. QED BY <1>1, <1>6, <2>1, PlacesRemove
<1>9. c2.offset \in Nat /\ c2.num_mapped \in Nat /\ c2.todo \in Seq(BlockClasses)
  <2>1. c.num_mapped > 0 => c.num_mapped - 1 \in Nat
    BY <1>2
  <2>2. c.offset + size \in Nat
    BY <1>2, <1>5
  <2>q. QED BY <1>2, <1>3, <2>1, <2>2
<1>10. c2.step \in {"map", "unmap", "return"} /\ c2.va = call[t].va /\ c2.size = call[t].size
  BY <1>3 DEF c
<1>11. /\ \A u \in DOMAIN reserved : u # c2.va => Same(mapping, mapping', u, reserved[u])
       /\ \A h \in {} : h \in Handles \ taken
  BY <1>3, <1>7
<1>q. QED BY <1>1, <1>3, <1>6, <1>7, <1>8, <1>9, <1>10, <1>11, CallStep

LEMMA ReturnBlockAccess ==
  ASSUME MAInv, LargeInv', NEW t \in Threads, ReturnBlock(t),
         UNCHANGED <<peer_vars, remap, remapped>>
  PROVE  MAInv'
<1> USE DEF MAInv
<1> DEFINE c == call[t]
           c2 == call'[t]
           hd == Head(c.blocks)
           tl == Tail(c.blocks)
<1>1. /\ InStep(t, "return") /\ taken' = taken \ {hd}
      /\ UNCHANGED <<mu_, live, peer_devices_, driver>>
      /\ t \in Calls /\ c.step = "return"
  BY DEF ReturnBlock, Calls, InStep
<1>2. /\ c.va \in Nat /\ c.size \in Nat \ {0} /\ c.offset \in Nat /\ c.num_mapped \in Nat
      /\ c.todo \in Seq(BlockClasses)
      /\ c.blocks \in Seq(Handles) /\ c.blocks # <<>>
  BY <1>1, CallFacts
<1>3. /\ c2.todo = c.todo /\ c2.blocks = tl
      /\ c2.va = c.va /\ c2.size = c.size /\ c2.step = "unmap"
      /\ c2.num_mapped = c.num_mapped /\ c2.offset = c.offset
      /\ call' = [call EXCEPT ![t] = c2]
  <2>1. DOMAIN call = Threads
    BY DEF Layout, LargeInv, TypeOK
  <2>2. DOMAIN call[t] = {"va", "size", "todo", "blocks", "num_mapped", "offset", "step"}
    BY DEF Layout, LargeInv, TypeOK
  <2>q. QED BY <2>1, <2>2 DEF ReturnBlock
<1>4. CallOK(mapping, c)
  BY <1>1 DEF Contents, CallsOK
<1>5. hd \in Range(c.blocks) /\ Range(c.blocks) = Range(tl) \union {hd}
  BY <1>2, BlockDropped
<1> HIDE DEF c, c2, hd, tl
<1>6. \A w \in DOMAIN mapping : mapping[w] # hd
  BY <1>1, <1>4, <1>5 DEF CallOK, OwnCall, StrippedCall, Nowhere, hd
<1>7. CallOK(mapping, c2)
  <2>1. CASE OwnCall(mapping, c)
    <3>1. Only(mapping, c.blocks, c.va, c.size) /\ Chain(mapping, tl, c.num_mapped, c.va + c.offset)
      BY <1>1, <2>1 DEF OwnCall, tl
    <3>2. Only(mapping, tl, c.va, c.size)
      BY <1>5, <1>6, <3>1 DEF Only
    <3>q. QED BY <1>3, <3>1, <3>2 DEF CallOK, OwnCall
  <2>2. CASE StrippedCall(mapping, c)
    <3>1. Nowhere(mapping, tl)
      BY <1>5, <2>2 DEF StrippedCall, Nowhere
    <3>q. QED BY <1>1, <1>3, <2>2, <3>1 DEF CallOK, StrippedCall, tl
  <2>q. QED BY <1>4, <2>1, <2>2 DEF CallOK
<1>8. mapping' = mapping /\ access' = access /\ reserved' = reserved
  BY <1>1 DEF driver
<1>9. Places'
  <2>1. \A w \in DOMAIN mapping' : mapping'[w] = mapping[w] /\ mapping'[w] \in taken' \union Foreign
    BY <1>1, <1>6, <1>8 DEF Layout, Places
  <2>q. QED BY <1>8, <2>1, PlacesRemove
<1>10. c2.offset \in Nat /\ c2.num_mapped \in Nat /\ c2.todo \in Seq(BlockClasses)
  BY <1>2, <1>3
<1>11. c2.step \in {"map", "unmap", "return"} /\ c2.va = call[t].va /\ c2.size = call[t].size
  BY <1>3 DEF c
<1>q. QED
  <2>1. \A h \in {} : h \in Handles \ taken
    OBVIOUS
  <2>q. QED BY <1>1, <1>3, <1>7, <1>8, <1>9, <1>10, <1>11, <2>1, NothingMapped, CallStep

LEMMA ReserveAccess ==
  ASSUME MAInv, LargeInv', NEW t \in Threads, NEW request \in Requests, Reserve(t, request),
         UNCHANGED <<peer_vars, remap, remapped>>
  PROVE  MAInv'
<1> USE DEF MAInv
<1> DEFINE layout == computeLayout(request)
           total == LayoutBytes(layout)
<1>1. PICK va \in Addresses :
        /\ va \notin DOMAIN reserved
        /\ \A w \in DOMAIN reserved : Disjoint(va, total, w, reserved[w])
        /\ reserved' = AddRange(reserved, va, total)
        /\ call' = [call EXCEPT ![t] = Begin(va, total, layout, <<>>, 0, "map")]
  BY DEF Reserve
<1>2. /\ InStep(t, "idle") /\ t \notin Calls
      /\ UNCHANGED <<mu_, live, peer_devices_, mapping, access, taken>>
  BY DEF Reserve, Calls
<1>3. layout \in Seq(BlockClasses) /\ total \in Nat \ {0} /\ va \in Nat
  <2>1. request \in Nat \ {0} /\ va \in Nat
    BY PlacesAssumption
  <2>2. layout \in Seq(BlockClasses) /\ request <= total
    BY <2>1, LayoutCovers
  <2>3. total \in Nat
    <3>1. layout \in Seq(Nat)
      BY <2>2, ClassFacts, SeqSubset
    <3>2. layout = <<>> => DOMAIN layout = {}
      OBVIOUS
    <3>q. QED BY <3>1, <3>2, TotalTail, TotalEmpty, TotalNat DEF LayoutBytes
  <2> HIDE DEF layout, total
  <2>4. \A x, y \in Nat : x # 0 /\ x <= y => y # 0
    OBVIOUS
  <2>q. QED BY <2>1, <2>2, <2>3, <2>4
<1> DEFINE c == Begin(va, total, layout, <<>>, 0, "map")
<1>4. /\ c.va = va /\ c.size = total /\ c.todo = layout /\ c.blocks = <<>> /\ c.num_mapped = 0
      /\ c.offset = 0 /\ c.step = "map"
  BY DEF Begin
<1> HIDE DEF layout, c
<1>5. /\ DOMAIN call = Threads /\ DOMAIN call' = Threads /\ call'[t] = c
      /\ \A u \in Threads : u # t => call'[u] = call[u]
  BY <1>1 DEF Layout, LargeInv, TypeOK, c
<1>6. /\ \A u \in Calls : u # t /\ u \in Threads /\ call'[u] = call[u]
      /\ \A u \in Calls' : u = t \/ u \in Calls
  BY <1>2, <1>5 DEF Calls, InStep
<1> HIDE DEF total
<1>7. /\ DOMAIN reserved' = DOMAIN reserved \union {va} /\ reserved'[va] = total
      /\ \A v \in DOMAIN reserved : v # va /\ reserved'[v] = reserved[v]
  BY <1>1 DEF AddRange
<1>8. MappedIn(mapping, va, total) = {}
  <2>1. ASSUME NEW w \in MappedIn(mapping, va, total) PROVE FALSE
    <3>1. w \in DOMAIN mapping /\ va <= w /\ w + BlockSize[mapping[w]] <= va + total
      BY <2>1 DEF MappedIn
    <3>2. PICK v \in DOMAIN reserved : w \in MappedIn(mapping, v, reserved[v])
      BY <3>1 DEF Layout, Places
    <3>3. Disjoint(va, total, v, reserved[v])
      BY <1>1
    <3>4. /\ w \in Nat /\ BlockSize[mapping[w]] \in Nat \ {0} /\ v \in Nat /\ reserved[v] \in Nat
          /\ v <= w /\ w + BlockSize[mapping[w]] <= v + reserved[v]
      BY <3>1, <3>2, MappingFacts DEF MappedIn
    <3>5. \A a, b, d, e, x, n \in Nat : n # 0 /\ (a + b <= d \/ d + e <= a)
            /\ a <= x /\ x + n <= a + b => ~ (d <= x /\ x + n <= d + e)
      OBVIOUS
    <3>q. QED BY <1>3, <3>1, <3>3, <3>4, <3>5 DEF Disjoint
  <2>q. QED BY <2>1
<1>9. CallOK(mapping, c)
  <2>1. Only(mapping, c.blocks, va, total)
    BY <1>4, <1>8, NoBlocks DEF Only
  <2>2. Chain(mapping, c.blocks, 0, va) /\ Len(c.blocks) = 0
    BY <1>4 DEF Chain
  <2>3. MappedBytes(mapping, va, total) = 0 /\ HandleSizes(c.blocks) = 0
    BY <1>4, <1>8, RangeEmpty, SizesEmpty
  <2>4. c.offset + LayoutBytes(c.todo) = total
    BY <1>3, <1>4 DEF total
  <2>q. QED BY <1>4, <2>1, <2>2, <2>3, <2>4 DEF CallOK, OwnCall
<1>10. Operations' /\ Remaps' = Remaps
  <2>1. allocs_' = allocs_
    BY <1>2 DEF live
  <2>q. QED BY <2>1, OperationsKept DEF Layout
<1>11. Homesteads'
  <2>1. PairwiseDisjoint(reserved')
    BY <1>1, <1>7 DEF Layout, Homesteads, PairwiseDisjoint, Disjoint
  <2>2. \A u \in Calls' : reserved'[call'[u].va] = call'[u].size
    BY <1>4, <1>5, <1>6, <1>7 DEF Layout, LargeInv, Homes, Homesteads
  <2>3. \A u \in Threads : /\ call'[u].size \in Nat /\ call'[u].offset \in Nat
                           /\ call'[u].num_mapped \in Nat /\ call'[u].todo \in Seq(BlockClasses)
    BY <1>3, <1>4, <1>5 DEF Layout, Homesteads
  <2>4. \A v \in DOMAIN reserved' : reserved'[v] \in Nat \ {0}
    BY <1>3, <1>7 DEF Layout, Homesteads
  <2>5. \A a \in DOMAIN allocs_' : reserved'[a] = allocs_'[a]
    BY <1>2, <1>7 DEF Layout, LargeInv, Homes, Homesteads, live
  <2>q. QED BY <2>1, <2>2, <2>3, <2>4, <2>5 DEF Homesteads
<1>12. Places'
  <2>1. \A w \in DOMAIN mapping' : mapping'[w] = mapping[w] /\ mapping'[w] \in taken' \union Foreign
    BY <1>2 DEF Layout, Places
  <2>2. DOMAIN mapping' \subseteq DOMAIN mapping
    BY <1>2
  <2>q. QED BY <1>7, <2>1, <2>2, PlacesRemove
<1>13. Contents'
  <2>1. CallsOK'
    BY <1>2, <1>5, <1>6, <1>9 DEF CallsOK, Contents
  <2>2. LivesOK' /\ RemapsOK' /\ Settled'
    BY <1>2, <1>10 DEF LivesOK, RemapsOK, Settled, Contents, live
  <2>q. QED BY <2>1, <2>2 DEF Contents
<1>14. Registering' /\ Reached'
  BY <1>2 DEF Registering, Reached, peer_vars, live
<1>q. QED BY <1>10, <1>11, <1>12, <1>13, <1>14 DEF Layout

(* A thread whose call ended. *)
LEMMA IdleFacts ==
  ASSUME Layout, NEW t \in Threads, call' = [call EXCEPT ![t] = NoCall]
  PROVE  /\ DOMAIN call' = Threads /\ call'[t] = NoCall
         /\ \A u \in Threads : u # t => call'[u] = call[u]
         /\ Calls' = Calls \ {t} /\ \A u \in Calls' : call'[u] = call[u]
         /\ \A u \in Threads : /\ call'[u].size \in Nat /\ call'[u].offset \in Nat
                               /\ call'[u].num_mapped \in Nat /\ call'[u].todo \in Seq(BlockClasses)
<1>1. /\ DOMAIN call' = Threads /\ call'[t] = NoCall
      /\ \A u \in Threads : u # t => call'[u] = call[u]
  BY DEF Layout, LargeInv, TypeOK
<1>2. NoCall.step = "idle"
  BY DEF NoCall, Begin
<1>3. Calls' = Calls \ {t}
  BY <1>1, <1>2 DEF Calls, InStep
<1>4. \A u \in Calls' : call'[u] = call[u]
  BY <1>1, <1>3 DEF Calls
<1>q. QED BY <1>1, <1>3, <1>4, IdleNumbers DEF Layout, Homesteads

LEMMA ReleaseAddressAccess ==
  ASSUME MAInv, LargeInv', NEW t \in Threads, ReleaseAddress(t),
         UNCHANGED <<peer_vars, remap, remapped>>
  PROVE  MAInv'
<1> USE DEF MAInv
<1> DEFINE va == call[t].va
<1>1. /\ t \in Calls /\ call' = [call EXCEPT ![t] = NoCall]
      /\ UNCHANGED <<live, peer_devices_, mapping, access, taken>>
      /\ \/ Within(va, call[t].size) = {} /\ reserved' = RemoveRange(reserved, va)
         \/ reserved' = reserved
  BY DEF ReleaseAddress, Calls, InStep
<1>2. va \in DOMAIN reserved /\ reserved[va] = call[t].size
  BY <1>1, CallFacts
<1>3. /\ \A u \in Calls : u # t => call[u].va # va
      /\ va \notin DOMAIN allocs_
      /\ \A u \in Calls : call[u].va \in DOMAIN reserved
      /\ \A a \in DOMAIN allocs_ : a \in DOMAIN reserved
  BY <1>1 DEF Layout, LargeInv, Homes
<1> HIDE DEF va
<1>4. \A v \in DOMAIN reserved : \/ v \in DOMAIN reserved' /\ reserved'[v] = reserved[v]
                                 \/ v = va /\ MappedIn(mapping, v, reserved[v]) = {}
  <2>1. CASE reserved' = reserved
    BY <2>1
  <2>2. CASE Within(va, call[t].size) = {} /\ reserved' = RemoveRange(reserved, va)
    <3>1. MappedIn(mapping, va, reserved[va]) = {}
      BY <1>2, <2>2, WithinIs
    <3>q. QED BY <2>2, <3>1 DEF RemoveRange
  <2>q. QED BY <1>1, <2>1, <2>2
<1>5. DOMAIN reserved' \subseteq DOMAIN reserved /\ \A v \in DOMAIN reserved' : reserved'[v] = reserved[v]
  BY <1>1 DEF RemoveRange
<1>6. Operations' /\ Remaps' = Remaps
  <2>1. allocs_' = allocs_
    BY <1>1 DEF live
  <2>q. QED BY <2>1, OperationsKept DEF Layout
<1>7. Homesteads'
  <2>1. PairwiseDisjoint(reserved')
    BY <1>5 DEF Layout, Homesteads, PairwiseDisjoint
  <2>2. \A u \in Calls' : reserved'[call'[u].va] = call'[u].size
    <3>1. ASSUME NEW u \in Calls' PROVE reserved'[call'[u].va] = call'[u].size
      <4>1. u \in Calls /\ u # t /\ call'[u] = call[u]
        BY <1>1, <3>1, IdleFacts
      <4>2. call[u].va \in DOMAIN reserved /\ call[u].va # va /\ reserved[call[u].va] = call[u].size
        BY <1>3, <4>1 DEF Layout, Homesteads
      <4>q. QED BY <1>4, <4>1, <4>2
    <3>q. QED BY <3>1
  <2>3. \A u \in Threads : /\ call'[u].size \in Nat /\ call'[u].offset \in Nat
                           /\ call'[u].num_mapped \in Nat /\ call'[u].todo \in Seq(BlockClasses)
    BY <1>1, IdleFacts
  <2>4. \A v \in DOMAIN reserved' : reserved'[v] \in Nat \ {0}
    BY <1>5 DEF Layout, Homesteads
  <2>5. \A a \in DOMAIN allocs_' : reserved'[a] = allocs_'[a]
    BY <1>1, <1>3, <1>4 DEF Layout, Homesteads, live
  <2>q. QED BY <2>1, <2>2, <2>3, <2>4, <2>5 DEF Homesteads
<1>8. Places'
  <2>1. \A w \in DOMAIN mapping' : mapping'[w] = mapping[w] /\ mapping'[w] \in taken' \union Foreign
    BY <1>1 DEF Layout, Places
  <2>2. DOMAIN mapping' \subseteq DOMAIN mapping
    BY <1>1
  <2>q. QED BY <1>4, <2>1, <2>2, PlacesRemove
<1>9. Contents'
  <2>1. CallsOK'
    <3>1. \A u \in Calls' : u \in Calls /\ call'[u] = call[u]
      BY <1>1, IdleFacts
    <3>q. QED BY <1>1, <3>1 DEF CallsOK, Contents
  <2>2. LivesOK' /\ RemapsOK' /\ Settled'
    BY <1>1, <1>6 DEF LivesOK, RemapsOK, Settled, Contents, live
  <2>q. QED BY <2>1, <2>2 DEF Contents
<1>10. Registering' /\ Reached'
  BY <1>1 DEF Registering, Reached, peer_vars, live
<1>q. QED BY <1>6, <1>7, <1>8, <1>9, <1>10 DEF Layout

LEMMA RecordAccess ==
  ASSUME MAInv, LargeInv', NEW t \in Threads, Record(t),
         UNCHANGED <<peer_vars, remap, remapped>>
  PROVE  MAInv'
<1> USE DEF MAInv
<1> DEFINE c == call[t]
           va == c.va
           size == c.size
<1>1. /\ InStep(t, "map") /\ t \in Calls /\ c.todo = <<>> /\ c.step = "map"
      /\ access' = Grant(va, size, {device_} \union peer_devices_)
      /\ allocs_' = AddRange(allocs_, va, size)
      /\ alloc_blocks' = AddRange(alloc_blocks, va, c.blocks)
      /\ call' = [call EXCEPT ![t] = NoCall]
      /\ UNCHANGED <<peer_devices_, reserved, mapping, taken>>
  BY DEF Record, setAccess, Calls, InStep
<1>2. /\ va \in DOMAIN reserved /\ reserved[va] = size /\ size \in Nat \ {0} /\ c.offset \in Nat
      /\ va \notin DOMAIN allocs_
  BY <1>1, CallFacts
<1>3. OwnCall(mapping, c)
  BY <1>1 DEF Contents, CallsOK, CallOK, StrippedCall
<1>4. va \notin remapped /\ \A u \in Remaps : remap[u].va # va
  BY <1>2 DEF Layout, Operations
<1>5. OwnLive(mapping, c.blocks, va, size) /\ HandleSizes(c.blocks) = size
  <2>1. LayoutBytes(c.todo) = 0
    <3>1. DOMAIN <<>> = {}
      OBVIOUS
    <3>q. QED BY <1>1, <3>1, TotalEmpty DEF LayoutBytes
  <2>2. c.offset = size
    BY <1>1, <1>2, <1>3, <2>1 DEF OwnCall
  <2>q. QED BY <1>1, <1>3, <2>2 DEF OwnCall, OwnLive
<1> HIDE DEF c, va, size
<1>6. /\ DOMAIN allocs_' = DOMAIN allocs_ \union {va} /\ allocs_'[va] = size
      /\ alloc_blocks'[va] = c.blocks
      /\ \A a \in DOMAIN allocs_ : /\ a # va /\ allocs_'[a] = allocs_[a]
                                   /\ alloc_blocks'[a] = alloc_blocks[a]
  <2>1. DOMAIN alloc_blocks = DOMAIN allocs_
    BY DEF Layout, LargeInv, TypeOK
  <2>q. QED BY <1>1, <1>2, <2>1 DEF AddRange
<1>7. Operations' /\ Remaps' = Remaps
  BY <1>6, OperationsKept DEF Layout
<1>8. /\ Calls' = Calls \ {t} /\ \A u \in Calls' : call'[u] = call[u]
      /\ \A u \in Threads : /\ call'[u].size \in Nat /\ call'[u].offset \in Nat
                            /\ call'[u].num_mapped \in Nat /\ call'[u].todo \in Seq(BlockClasses)
  BY <1>1, IdleFacts
<1>9. Homesteads'
  <2>1. \A a \in DOMAIN allocs_' : reserved'[a] = allocs_'[a]
    BY <1>1, <1>2, <1>6 DEF Layout, Homesteads
  <2>2. \A u \in Calls' : reserved'[call'[u].va] = call'[u].size
    BY <1>1, <1>8 DEF Layout, Homesteads
  <2>q. QED BY <1>1, <1>8, <2>1, <2>2 DEF Layout, Homesteads
<1>10. Places'
  <2>1. \A w \in DOMAIN mapping' : mapping'[w] = mapping[w] /\ mapping'[w] \in taken' \union Foreign
    BY <1>1 DEF Layout, Places
  <2>q. QED BY <1>1, <2>1, PlacesRemove
<1>11. Contents'
  <2>1. CallsOK'
    BY <1>1, <1>8 DEF CallsOK, Contents
  <2>2. LivesOK'
    <3>1. LiveOK(mapping, remapped, c.blocks, va, size)
      BY <1>4, <1>5 DEF LiveOK
    <3>2. \A a \in DOMAIN allocs_ : LiveOK(mapping, remapped, alloc_blocks[a], a, allocs_[a])
      BY DEF Contents, LivesOK
    <3>q. QED BY <1>1, <1>6, <3>1, <3>2 DEF LivesOK
  <2>3. RemapsOK'
    BY <1>1, <1>7 DEF RemapsOK, Contents
  <2>4. Settled'
    <3>1. \A a \in remapped : allocs_'[a] = allocs_[a]
      BY <1>6 DEF Layout, Operations
    <3>q. QED BY <1>1, <1>7, <3>1 DEF Settled, Contents
  <2>q. QED BY <2>1, <2>2, <2>3, <2>4 DEF Contents
<1>12. Registering'
  BY <1>1 DEF Registering, peer_vars
<1>13. Reached'
  <2>1. ASSUME NEW a \in DOMAIN allocs_' \ remapped, NEW w \in MappedIn(mapping, a, allocs_'[a]),
               NEW dev \in peer_devices_ \ refused
        PROVE  dev \in access'[w]
    <3>1. w \in DOMAIN mapping /\ w \in DOMAIN access
      BY MappingFacts DEF MappedIn
    <3>2. access'[w] = IF w \in Within(va, size) THEN {device_} \union peer_devices_ ELSE access[w]
      BY <1>1, <3>1 DEF Grant
    <3>3. CASE a = va
      <4>1. w \in Within(va, size)
        BY <1>2, <1>6, <3>3, WithinIs
      <4>q. QED BY <3>2, <4>1
    <3>4. CASE a # va
      <4>1. dev \in access[w]
        BY <1>6, <3>4 DEF Reached
      <4>q. QED BY <3>2, <4>1
    <3>q. QED BY <3>3, <3>4
  <2>q. QED BY <1>1, <2>1 DEF Reached, peer_vars
<1>q. QED BY <1>7, <1>9, <1>10, <1>11, <1>12, <1>13 DEF Layout

LEMMA FreeEraseAccess ==
  ASSUME MAInv, LargeInv', NEW t \in Threads, NEW va \in DOMAIN allocs_, FreeErase(t, va),
         \A u \in Remaps : remap[u].va # va,
         UNCHANGED <<peer_vars, remap>>, remapped' = remapped \ {va}
  PROVE  MAInv'
<1> USE DEF MAInv
<1> DEFINE s == alloc_blocks[va]
           size == allocs_[va]
           c == Begin(va, size, <<>>, s, Len(s), "unmap")
<1>1. /\ t \notin Calls
      /\ allocs_' = RemoveRange(allocs_, va)
      /\ alloc_blocks' = RemoveRange(alloc_blocks, va)
      /\ call' = [call EXCEPT ![t] = c]
      /\ UNCHANGED <<mu_, peer_devices_, reserved, mapping, access, taken>>
  BY DEF FreeErase, Calls, driver
<1>2. /\ c.va = va /\ c.size = size /\ c.todo = <<>> /\ c.blocks = s /\ c.num_mapped = Len(s)
      /\ c.offset = 0 /\ c.step = "unmap"
  BY DEF Begin
<1>3. s \in Seq(Handles) /\ Len(s) \in Nat /\ va \in DOMAIN reserved /\ reserved[va] = size
  <2>1. s \in Seq(Handles)
    BY DEF Layout, LargeInv, TypeOK
  <2>q. QED BY <2>1 DEF Layout, LargeInv, Homes, Homesteads
<1>4. va \in Nat /\ size \in Nat \ {0}
  BY <1>3, MappingFacts
<1>5. LiveOK(mapping, remapped, s, va, size)
  BY DEF Contents, LivesOK
<1> HIDE DEF c, s, size
<1>6. CallOK(mapping, c)
  <2>1. va + 0 = va /\ 0 + HandleSizes(s) = size
    BY <1>4, <1>5 DEF LiveOK
  <2>2. CASE va \in remapped
    <3>1. 0 + HandleSizes(s) <= size
      BY <1>4, <2>1
    <3>q. QED BY <1>2, <1>5, <2>2, <3>1 DEF LiveOK, StrippedLive, CallOK, StrippedCall
  <2>3. CASE va \notin remapped
    BY <1>2, <1>5, <2>1, <2>3 DEF LiveOK, OwnLive, CallOK, OwnCall
  <2>q. QED BY <2>2, <2>3
<1>7. /\ DOMAIN call = Threads /\ DOMAIN call' = Threads /\ call'[t] = c
      /\ \A u \in Threads : u # t => call'[u] = call[u]
  BY <1>1 DEF Layout, LargeInv, TypeOK
<1>8. /\ \A u \in Calls : u # t /\ u \in Threads /\ call'[u] = call[u]
      /\ \A u \in Calls' : u = t \/ u \in Calls
  BY <1>1, <1>7 DEF Calls, InStep
<1>9. /\ DOMAIN allocs_' = DOMAIN allocs_ \ {va}
      /\ \A a \in DOMAIN allocs_' : allocs_'[a] = allocs_[a] /\ alloc_blocks'[a] = alloc_blocks[a]
  <2>1. DOMAIN alloc_blocks = DOMAIN allocs_
    BY DEF Layout, LargeInv, TypeOK
  <2>q. QED BY <1>1, <2>1 DEF RemoveRange
<1>10. Operations' /\ Remaps' = Remaps
  <2>1. Remaps' = Remaps
    BY DEF Remaps
  <2>q. QED BY <1>9, <2>1 DEF Layout, Operations, RemapRecord
<1>11. Homesteads'
  <2>1. \A a \in DOMAIN allocs_' : reserved'[a] = allocs_'[a]
    BY <1>1, <1>9 DEF Layout, Homesteads
  <2>2. \A u \in Calls' : reserved'[call'[u].va] = call'[u].size
    BY <1>1, <1>2, <1>3, <1>7, <1>8 DEF Layout, Homesteads
  <2>3. \A u \in Threads : /\ call'[u].size \in Nat /\ call'[u].offset \in Nat
                           /\ call'[u].num_mapped \in Nat /\ call'[u].todo \in Seq(BlockClasses)
    <3>1. <<>> \in Seq(BlockClasses) /\ 0 \in Nat
      OBVIOUS
    <3>2. c.size \in Nat /\ c.offset \in Nat /\ c.num_mapped \in Nat /\ c.todo \in Seq(BlockClasses)
      BY <1>2, <1>3, <1>4, <3>1
    <3>3. \A u \in Threads : /\ call[u].size \in Nat /\ call[u].offset \in Nat
                             /\ call[u].num_mapped \in Nat /\ call[u].todo \in Seq(BlockClasses)
      BY DEF Layout, Homesteads
    <3>4. \A u \in Threads : call'[u] = c \/ call'[u] = call[u]
      BY <1>7
    <3>q. QED BY <3>2, <3>3, <3>4
  <2>q. QED BY <1>1, <2>1, <2>2, <2>3 DEF Layout, Homesteads
<1>12. Places'
  <2>1. \A w \in DOMAIN mapping' : mapping'[w] = mapping[w] /\ mapping'[w] \in taken' \union Foreign
    BY <1>1 DEF Layout, Places
  <2>q. QED BY <1>1, <2>1, PlacesRemove
<1>13. Contents'
  <2>1. CallsOK'
    BY <1>1, <1>6, <1>7, <1>8 DEF CallsOK, Contents
  <2>2. LivesOK'
    <3>1. \A a \in DOMAIN allocs_ : LiveOK(mapping, remapped, alloc_blocks[a], a, allocs_[a])
      BY DEF Contents, LivesOK
    <3>2. \A a \in DOMAIN allocs_' : a \in DOMAIN allocs_ /\ (a \in remapped' <=> a \in remapped)
      BY <1>9
    <3>q. QED BY <1>1, <1>9, <3>1, <3>2 DEF LivesOK, LiveOK
  <2>3. RemapsOK'
    BY <1>1, <1>10 DEF RemapsOK, Contents
  <2>4. Settled'
    <3>1. \A a \in remapped' : a \in remapped /\ allocs_'[a] = allocs_[a]
      BY <1>9 DEF Layout, Operations
    <3>q. QED BY <1>1, <1>10, <3>1 DEF Settled, Contents
  <2>q. QED BY <2>1, <2>2, <2>3, <2>4 DEF Contents
<1>14. Registering'
  BY <1>1 DEF Registering, peer_vars
<1>15. Reached'
  <2>1. \A a \in DOMAIN allocs_' \ remapped' : a \in DOMAIN allocs_ \ remapped /\ allocs_'[a] = allocs_[a]
    BY <1>9
  <2>q. QED BY <1>1, <2>1 DEF Reached, peer_vars
<1>q. QED BY <1>10, <1>11, <1>12, <1>13, <1>14, <1>15 DEF Layout

LEMMA LargeStepAccess ==
  ASSUME MAInv, NEW t \in Threads, LargeStep(t)
  PROVE  MAInv'
<1>1. /\ Step(t) /\ Remapping \subseteq DOMAIN allocs_'
      /\ remapped' = remapped \intersect DOMAIN allocs_'
      /\ UNCHANGED <<peer_vars, remap>>
  BY DEF LargeStep
<1>2. LargeInv'
  <2>1. Next
    BY <1>1 DEF Next
  <2>q. QED BY <2>1, NextLarge DEF MAInv, Layout
<1>3. remapped \subseteq DOMAIN allocs_
  BY DEF MAInv, Layout, Operations
<1>4. CASE \E request \in Requests : Reserve(t, request)
  <2>1. allocs_' = allocs_
    BY <1>4 DEF Reserve, live
  <2>2. remapped' = remapped
    BY <1>1, <1>3, <2>1
  <2>q. QED BY <1>1, <1>2, <1>4, <2>2, ReserveAccess
<1>5. CASE MapBlock(t) \/ AllocateFails(t) \/ UnmapBlock(t) \/ ReturnBlock(t) \/ ReleaseAddress(t)
  <2>1. allocs_' = allocs_
    BY <1>5 DEF MapBlock, AllocateFails, UnmapBlock, ReturnBlock, ReleaseAddress, live
  <2>2. remapped' = remapped
    BY <1>1, <1>3, <2>1
  <2>q. QED BY <1>1, <1>2, <1>5, <2>2, MapBlockAccess, AllocateFailsAccess, UnmapBlockAccess,
               ReturnBlockAccess, ReleaseAddressAccess
<1>6. CASE Record(t)
  <2>1. DOMAIN allocs_ \subseteq DOMAIN allocs_'
    BY <1>6 DEF Record, AddRange
  <2>2. remapped' = remapped
    BY <1>1, <1>3, <2>1
  <2>q. QED BY <1>1, <1>2, <1>6, <2>2, RecordAccess
<1>7. ASSUME NEW va \in DOMAIN allocs_, FreeErase(t, va) PROVE MAInv'
  <2>1. DOMAIN allocs_' = DOMAIN allocs_ \ {va}
    BY <1>7 DEF FreeErase, RemoveRange
  <2>2. remapped' = remapped \ {va}
    BY <1>1, <1>3, <2>1
  <2>3. \A u \in Remaps : remap[u].va # va
    BY <1>1, <2>1 DEF Remapping, Remaps
  <2>q. QED BY <1>1, <1>2, <1>7, <2>2, <2>3, FreeEraseAccess
<1>q. QED BY <1>1, <1>4, <1>5, <1>6, <1>7 DEF Step

-----------------------------------------------------------------------------
(* enablePeerAccess *)

LEMMA NoOpIdle == NoOp.step = "idle" /\ \A x : x = NoOp => x.step = "idle"
  BY DEF NoOp

(* The steps that leave allocations, mappings and vmmRemaps alone.         *)
LEMMA ContentsKept ==
  ASSUME Layout, Contents,
         UNCHANGED <<live, call, reserved, mapping, taken, remap, remapped>>
  PROVE  Operations' /\ Homesteads' /\ Places' /\ Contents'
<1>1. /\ allocs_' = allocs_ /\ alloc_blocks' = alloc_blocks /\ call' = call /\ reserved' = reserved
      /\ mapping' = mapping /\ taken' = taken /\ remap' = remap /\ remapped' = remapped
  BY DEF live
<1>2. Calls' = Calls /\ Remaps' = Remaps
  BY <1>1 DEF Calls, InStep, Remaps
<1>3. Operations'
  BY <1>1, <1>2 DEF Layout, Operations, RemapRecord
<1>4. Homesteads'
  BY <1>1, <1>2 DEF Layout, Homesteads
<1>5. Places'
  BY <1>1 DEF Layout, Places
<1>6. CallsOK' /\ RemapsOK'
  BY <1>1, <1>2 DEF Contents, CallsOK, RemapsOK
<1>7. LivesOK'
  BY <1>1 DEF Contents, LivesOK
<1>8. Settled'
  BY <1>1, <1>2 DEF Contents, Settled
<1>q. QED BY <1>3, <1>4, <1>5, <1>6, <1>7, <1>8 DEF Contents

LEMMA EnableRegisterAccess ==
  ASSUME MAInv, NEW t \in Threads, NEW dev \in Peers, EnableRegister(t, dev)
  PROVE  MAInv'
<1> USE DEF MAInv
<1>1. UNCHANGED vars
  BY DEF EnableRegister
<1>2. LargeInv'
  BY <1>1, NextLarge DEF Layout
<1>3. Operations' /\ Homesteads' /\ Places' /\ Contents'
  BY <1>1, ContentsKept DEF EnableRegister, remap_vars, vars, driver
<1>4. /\ registered' = registered \union {dev} /\ refused' = refused /\ small_peers' = small_peers
      /\ enable[t] = NoOp /\ enable' = [enable EXCEPT ![t] = [dev |-> dev, step |-> "small"]]
      /\ peer_devices_' = peer_devices_
  BY <1>1 DEF EnableRegister, Idle, vars
<1>5. /\ DOMAIN enable = Threads /\ DOMAIN enable' = Threads
      /\ enable'[t] = [dev |-> dev, step |-> "small"]
      /\ \A u \in Threads : u # t => enable'[u] = enable[u]
  BY <1>4 DEF Registering
<1>6. enable'[t].dev = dev /\ enable'[t].step = "small" /\ enable'[t] # NoOp
  BY <1>5, NoOpIdle
<1>7. Registering'
  <2>1. ASSUME NEW d \in registered \ refused
        PROVE  \/ \E u \in Threads : enable'[u] # NoOp /\ enable'[u].dev = d
               \/ d \in small_peers /\ d \in peer_devices_
    <3>1. CASE \E u \in Threads : enable[u] # NoOp /\ enable[u].dev = d
      <4>1. PICK u \in Threads : enable[u] # NoOp /\ enable[u].dev = d
        BY <3>1
      <4>2. u # t
        BY <1>4, <4>1
      <4>q. QED BY <1>5, <4>1, <4>2
    <3>q. QED BY <3>1 DEF Registering
  <2>2. \A u \in Threads : enable'[u] # NoOp =>
          /\ enable'[u].step \in {"small", "large"} /\ enable'[u].dev \in Peers
          /\ enable'[u].step = "large" => enable'[u].dev \in small_peers
    BY <1>5, <1>6 DEF Registering
  <2>q. QED BY <1>4, <1>5, <1>6, <2>1, <2>2 DEF Registering
<1>8. Reached'
  <2>1. /\ allocs_' = allocs_ /\ remapped' = remapped /\ mapping' = mapping /\ access' = access
    BY <1>1 DEF EnableRegister, remap_vars, vars, live, driver
  <2>q. QED BY <1>4, <2>1 DEF Reached
<1>q. QED BY <1>2, <1>3, <1>7, <1>8 DEF Layout

(* A call that ends, having reached both allocators or thrown.             *)
LEMMA EnableEnds ==
  ASSUME Registering, NEW t \in Threads, NEW dev, enable[t].dev = dev,
         enable' = [enable EXCEPT ![t] = NoOp], UNCHANGED <<registered, small_peers>>,
         peer_devices_ \subseteq peer_devices_', refused \subseteq refused',
         dev \in refused' \/ (dev \in small_peers /\ dev \in peer_devices_')
  PROVE  Registering'
<1>1. /\ DOMAIN enable = Threads /\ DOMAIN enable' = Threads /\ enable'[t] = NoOp
      /\ \A u \in Threads : u # t => enable'[u] = enable[u]
  BY DEF Registering
<1>2. ASSUME NEW d \in registered \ refused'
      PROVE  \/ \E u \in Threads : enable'[u] # NoOp /\ enable'[u].dev = d
             \/ d \in small_peers /\ d \in peer_devices_'
  <2>1. CASE d = dev
    BY <1>2, <2>1
  <2>2. CASE d # dev
    <3>1. \A u \in Threads : enable[u] # NoOp /\ enable[u].dev = d => u # t
      BY <2>2
    <3>q. QED BY <1>1, <1>2, <3>1 DEF Registering
  <2>q. QED BY <2>1, <2>2
<1>3. \A u \in Threads : enable'[u] # NoOp =>
        /\ enable'[u].step \in {"small", "large"} /\ enable'[u].dev \in Peers
        /\ enable'[u].step = "large" => enable'[u].dev \in small_peers
  BY <1>1 DEF Registering
<1>q. QED BY <1>1, <1>2, <1>3 DEF Registering

LEMMA EnableSmallAccess ==
  ASSUME MAInv, NEW t \in Threads, EnableSmall(t)
  PROVE  MAInv'
<1> USE DEF MAInv
<1>1. UNCHANGED vars /\ UNCHANGED <<registered, remap, remapped>> /\ enable[t].step = "small"
  BY DEF EnableSmall, remap_vars, Enabling
<1>2. LargeInv'
  BY <1>1, NextLarge DEF Layout
<1>3. Operations' /\ Homesteads' /\ Places' /\ Contents'
  BY <1>1, ContentsKept DEF vars, driver
<1>4. refused \subseteq refused' /\ peer_devices_' = peer_devices_
  BY <1>1 DEF EnableSmall, vars
<1>5. Reached'
  <2>1. /\ allocs_' = allocs_ /\ remapped' = remapped /\ mapping' = mapping /\ access' = access
    BY <1>1 DEF vars, live, driver
  <2>q. QED BY <1>4, <2>1 DEF Reached
<1>6. Registering'
  <2>1. CASE /\ small_peers' = small_peers \union {enable[t].dev}
             /\ enable' = [enable EXCEPT ![t].step = "large"]
             /\ UNCHANGED refused
    <3>1. DOMAIN enable = Threads /\ enable[t] # NoOp
      BY <1>1, NoOpIdle DEF Registering
    <3>2. /\ DOMAIN enable' = Threads
          /\ enable'[t] = [enable[t] EXCEPT !.step = "large"]
          /\ \A u \in Threads : u # t => enable'[u] = enable[u]
      BY <2>1, <3>1
    <3>3. enable'[t].dev = enable[t].dev /\ enable'[t].step \in {"large", enable[t].step}
      BY <3>2
    <3>4. enable'[t] # NoOp /\ enable'[t].dev \in small_peers'
      <4>1. enable'[t].step \in {"large", "small"}
        BY <1>1, <3>3
      <4>2. enable'[t].step # "idle"
        BY <4>1
      <4>3. enable'[t] # NoOp
        BY <4>2, NoOpIdle
      <4>q. QED BY <2>1, <3>3, <4>3
    <3>5. ASSUME NEW d \in registered \ refused
          PROVE  \/ \E u \in Threads : enable'[u] # NoOp /\ enable'[u].dev = d
                 \/ d \in small_peers' /\ d \in peer_devices_
      <4>1. \A u \in Threads : enable[u] # NoOp /\ enable[u].dev = d =>
              enable'[u] # NoOp /\ enable'[u].dev = d
        BY <3>2, <3>3, <3>4
      <4>q. QED BY <2>1, <4>1 DEF Registering
    <3>6. ASSUME NEW u \in Threads, enable'[u] # NoOp
          PROVE  /\ enable'[u].step \in {"small", "large"} /\ enable'[u].dev \in Peers
                 /\ enable'[u].step = "large" => enable'[u].dev \in small_peers'
      <4>1. CASE u = t
        <5>1. enable[t].dev \in Peers
          BY <3>1 DEF Registering
        <5>2. enable'[t].step \in {"small", "large"}
          BY <1>1, <3>3
        <5>q. QED BY <3>3, <3>4, <4>1, <5>1, <5>2
      <4>2. CASE u # t
        BY <2>1, <3>2, <3>6, <4>2 DEF Registering
      <4>q. QED BY <4>1, <4>2
    <3>q. QED BY <1>1, <1>4, <2>1, <3>2, <3>5, <3>6 DEF Registering
  <2>2. CASE /\ refused' = refused \union {enable[t].dev}
             /\ enable' = [enable EXCEPT ![t] = NoOp]
             /\ UNCHANGED small_peers
    <3> DEFINE dev == enable[t].dev
    <3>1. /\ refused' = refused \union {dev} /\ enable[t].dev = dev
          /\ enable' = [enable EXCEPT ![t] = NoOp]
          /\ UNCHANGED <<registered, small_peers>> /\ peer_devices_ \subseteq peer_devices_'
      BY <1>1, <1>4, <2>2
    <3>2. /\ refused \subseteq refused'
          /\ dev \in refused' \/ (dev \in small_peers /\ dev \in peer_devices_')
      BY <3>1
    <3>q. QED BY <3>1, <3>2, EnableEnds
  <2>q. QED BY <2>1, <2>2 DEF EnableSmall
<1>q. QED BY <1>2, <1>3, <1>5, <1>6 DEF Layout

LEMMA EnableLargeAccess ==
  ASSUME MAInv, NEW t \in Threads, EnableLarge(t)
  PROVE  MAInv'
<1> USE DEF MAInv
<1> DEFINE dev == enable[t].dev
<1>1. PICK ok \in BOOLEAN : /\ addPeerDevice(dev, ok)
                            /\ refused' = IF ok THEN refused ELSE refused \union {dev}
  BY DEF EnableLarge
<1>2. /\ UNCHANGED <<registered, small_peers, remap, remapped>> /\ enable[t].step = "large"
      /\ enable' = [enable EXCEPT ![t] = NoOp]
  BY DEF EnableLarge, remap_vars, Enabling
<1>3. /\ UNCHANGED <<live, call, reserved, mapping, taken>>
      /\ peer_devices_' = peer_devices_ \union {dev}
  BY <1>1 DEF addPeerDevice
<1>4. LargeInv'
  <2>1. dev \in Peers
    BY <1>2, NoOpIdle DEF Registering
  <2>2. Next
    BY <1>1, <2>1 DEF Next
  <2>q. QED BY <2>2, NextLarge DEF Layout
<1>5. Operations' /\ Homesteads' /\ Places' /\ Contents'
  BY <1>2, <1>3, ContentsKept
<1>6. Registering'
  <2>1. enable[t] # NoOp
    BY <1>2, NoOpIdle
  <2>2. dev \in small_peers
    BY <1>2, <2>1 DEF Registering
  <2>q. QED BY <1>1, <1>2, <1>3, <2>2, EnableEnds
<1>7. Reached'
  <2>1. PICK granted \in SUBSET DOMAIN allocs_ :
          /\ ok => granted = DOMAIN allocs_
          /\ access' = [w \in DOMAIN access |->
               IF \E va \in granted : w \in Within(va, allocs_[va])
               THEN access[w] \union {dev} ELSE access[w]]
    BY <1>1 DEF addPeerDevice
  <2>2. ASSUME NEW va \in DOMAIN allocs_ \ remapped, NEW w \in MappedIn(mapping, va, allocs_[va]),
               NEW d \in (peer_devices_ \union {dev}) \ refused'
        PROVE  d \in access'[w]
    <3>1. w \in DOMAIN access
      BY MappingFacts DEF MappedIn
    <3>2. access[w] \subseteq access'[w]
      BY <2>1, <3>1
    <3>3. CASE d \in peer_devices_
      BY <1>1, <2>2, <3>2, <3>3 DEF Reached
    <3>4. CASE d = dev
      <4>1. ok
        BY <1>1, <2>2, <3>4
      <4>2. va \in DOMAIN reserved /\ reserved[va] = allocs_[va]
        BY DEF Layout, LargeInv, Homes, Homesteads
      <4>3. w \in Within(va, allocs_[va])
        BY <4>2, WithinIs
      <4>q. QED BY <2>1, <3>1, <3>4, <4>1, <4>3
    <3>q. QED BY <3>3, <3>4
  <2>3. allocs_' = allocs_ /\ remapped' = remapped /\ mapping' = mapping
    BY <1>2, <1>3 DEF live
  <2>q. QED BY <1>3, <2>2, <2>3 DEF Reached
<1>q. QED BY <1>4, <1>5, <1>6, <1>7 DEF Layout

-----------------------------------------------------------------------------
(* vmmRemap *)

(* The LargeAllocator's own invariant survives what vmmRemap maps and      *)
(* unmaps behind its back: it says nothing of what the mappings are.       *)
LEMMA RemapLarge ==
  ASSUME LargeInv, UNCHANGED <<mu_, live, peer_devices_, call, reserved, taken>>,
         DOMAIN access' = DOMAIN mapping',
         \A w \in DOMAIN mapping' : /\ mapping'[w] \in Sized
                                    /\ access'[w] \subseteq {device_} \union Peers
  PROVE  LargeInv'
<1>1. /\ mu_' = mu_ /\ allocs_' = allocs_ /\ alloc_blocks' = alloc_blocks
      /\ peer_devices_' = peer_devices_ /\ call' = call /\ reserved' = reserved /\ taken' = taken
  BY DEF live
<1>2. TypeOK'
  BY <1>1 DEF LargeInv, TypeOK, InStep, Sized
<1>3. Owned'
  BY <1>1 DEF LargeInv, Owned, LiveHolds, CallHolds
<1>4. Homes'
  <2>1. Calls' = Calls
    BY <1>1 DEF Calls, InStep
  <2>q. QED BY <1>1, <2>1 DEF LargeInv, Homes, InStep
<1>q. QED BY <1>2, <1>3, <1>4 DEF LargeInv

MappingKept ==
  /\ DOMAIN mapping' = DOMAIN mapping
  /\ \A w \in DOMAIN mapping : mapping'[w] = mapping[w] /\ access'[w] = access[w]

(* A step of vmmRemap t in the range it works on, after which it is r.     *)
LEMMA RemapProgress ==
  ASSUME MAInv, LargeInv', Places', NEW t \in Threads, t \in Remaps, NEW r, NEW va, NEW size,
         va = remap[t].va, size = remap[t].size,
         remap' = [remap EXCEPT ![t] = r],
         r # NoOp => /\ RemapRecord(r) /\ r.va = va /\ r.size = size /\ r.step # "unmap"
                     /\ Range(r.new) \subseteq Range(remap[t].new)
                     /\ RemapShape(mapping', r) /\ va \in remapped',
         UNCHANGED <<mu_, live, peer_devices_, call, reserved, taken, peer_vars>>,
         remapped \subseteq remapped', remapped' \subseteq remapped \union {va},
         va \in remapped' \/ MappingKept,
         \A u \in DOMAIN reserved : u # va => Same(mapping, mapping', u, reserved[u]),
         \A w \in DOMAIN mapping' : \/ At(mapping, w, mapping'[w])
                                    \/ mapping'[w] \in Range(remap[t].new),
         \A w \in DOMAIN mapping : w \in DOMAIN mapping' =>
           access'[w] = access[w] \/ w \in MappedIn(mapping, va, size),
         LiveOK(mapping', remapped', alloc_blocks[va], va, size),
         va \in remapped' => \/ r # NoOp
                             \/ MappedIn(mapping', va, size) = {}
                             \/ MappedBytes(mapping', va, size) = size
  PROVE  MAInv'
<1> USE DEF MAInv
<1> DEFINE H == Range(remap[t].new)
<1>1. /\ DOMAIN remap = Threads /\ va \in DOMAIN allocs_ /\ size = allocs_[va]
      /\ va \in DOMAIN reserved /\ reserved[va] = size /\ remapped \subseteq DOMAIN allocs_
  BY DEF Layout, LargeInv, Homes, Homesteads, Operations
<1>2. /\ allocs_' = allocs_ /\ alloc_blocks' = alloc_blocks /\ peer_devices_' = peer_devices_
      /\ call' = call /\ reserved' = reserved /\ taken' = taken /\ UNCHANGED peer_vars
      /\ Calls' = Calls
  BY DEF live, Calls, InStep
<1>3. /\ DOMAIN remap' = Threads /\ remap'[t] = r
      /\ \A u \in Threads : u # t => remap'[u] = remap[u]
      /\ \A u \in Remaps' : u \in Threads /\ IF u = t THEN r # NoOp ELSE u \in Remaps
      /\ \A u \in Remaps : u \in Threads /\ (u # t => u \in Remaps')
  BY <1>1 DEF Remaps
<1>4. Operations'
  <2>1. remapped' \subseteq DOMAIN allocs_'
    BY <1>1, <1>2
  <2>2. ASSUME NEW u \in Remaps'
        PROVE  /\ RemapRecord(remap'[u]) /\ remap'[u].va \in DOMAIN allocs_
               /\ remap'[u].size = allocs_[remap'[u].va]
               /\ remap'[u].step # "unmap" => remap'[u].va \in remapped'
    <3>1. CASE u = t
      BY <1>1, <1>3, <2>2, <3>1
    <3>2. CASE u # t
      <4>1. u \in Remaps /\ remap'[u] = remap[u]
        BY <1>3, <2>2, <3>2
      <4>q. QED BY <4>1 DEF Layout, Operations
    <3>q. QED BY <3>1, <3>2
  <2>3. ASSUME NEW u \in Remaps', NEW v \in Remaps', u # v
        PROVE  /\ remap'[u].va # remap'[v].va
               /\ \A h : ~ (h \in Range(remap'[u].new) /\ h \in Range(remap'[v].new))
    <3>1. \A x \in Remaps' : /\ x \in Remaps /\ remap'[x].va = remap[x].va
                             /\ Range(remap'[x].new) \subseteq Range(remap[x].new)
      BY <1>3
    <3>2. /\ remap[u].va # remap[v].va
          /\ \A h : ~ (h \in Range(remap[u].new) /\ h \in Range(remap[v].new))
      BY <2>3, <3>1 DEF Layout, Operations
    <3>q. QED BY <3>1, <3>2
  <2>q. QED BY <1>2, <1>3, <2>1, <2>2, <2>3 DEF Operations
<1>5. Homesteads'
  BY <1>2 DEF Layout, Homesteads
<1>6. /\ \A u \in Calls : call[u].va # va /\ u \in Threads
      /\ \A u \in Remaps : u # t => remap[u].va # va
  BY <1>1 DEF Layout, LargeInv, Homes, Operations, Calls
<1>7. /\ \A h \in H, u \in Threads : h \notin CallHolds(u)
      /\ \A h \in H, a \in DOMAIN allocs_ : h \notin LiveHolds(a)
      /\ \A h \in H, u \in Remaps : u # t => h \notin Range(remap[u].new)
  <2>1. \A h \in H : h \in Foreign
    BY DEF Layout, Operations, RemapRecord, Range
  <2>2. \A h \in H : h \notin Handles
    BY <2>1, SizedFacts
  <2>3. /\ \A u \in Threads : CallHolds(u) \subseteq Handles
        /\ \A a \in DOMAIN allocs_ : LiveHolds(a) \subseteq Handles
    BY DEF Layout, LargeInv, TypeOK, Owned
  <2>4. \A u \in Remaps : u # t => \A h : ~ (h \in H /\ h \in Range(remap[u].new))
    BY DEF Layout, Operations
  <2>q. QED BY <2>2, <2>3, <2>4
<1> HIDE DEF H
<1>8. /\ \A u \in Calls : CallOK(mapping', call[u])
      /\ \A a \in DOMAIN allocs_ : a # va =>
           /\ LiveOK(mapping', remapped, alloc_blocks[a], a, allocs_[a])
           /\ MappedIn(mapping', a, allocs_[a]) = MappedIn(mapping, a, allocs_[a])
           /\ MappedBytes(mapping', a, allocs_[a]) = MappedBytes(mapping, a, allocs_[a])
      /\ \A u \in Remaps : u # t => RemapShape(mapping', remap[u])
  <2>1. \A w \in DOMAIN mapping' : At(mapping, w, mapping'[w]) \/ mapping'[w] \in H
    BY DEF H
  <2>2. Layout /\ Contents
    OBVIOUS
  <2>3. /\ \A u \in Calls : call[u].va # va /\ (\A h \in H : h \notin CallHolds(u)) =>
             CallOK(mapping', call[u])
        /\ \A a \in DOMAIN allocs_ : a # va /\ (\A h \in H : h \notin LiveHolds(a)) =>
             /\ LiveOK(mapping', remapped, alloc_blocks[a], a, allocs_[a])
             /\ MappedIn(mapping', a, allocs_[a]) = MappedIn(mapping, a, allocs_[a])
             /\ MappedBytes(mapping', a, allocs_[a]) = MappedBytes(mapping, a, allocs_[a])
        /\ \A u \in Remaps : remap[u].va # va /\ (\A h \in H : h \notin Range(remap[u].new)) =>
             RemapShape(mapping', remap[u])
    BY <2>1, <2>2, Others
  <2>q. QED BY <1>6, <1>7, <2>3
<1>9. Contents'
  <2>1. CallsOK'
    BY <1>2, <1>8 DEF CallsOK
  <2>2. LivesOK'
    <3>1. ASSUME NEW a \in DOMAIN allocs_
          PROVE  LiveOK(mapping', remapped', alloc_blocks[a], a, allocs_[a])
      <4>1. CASE a = va
        BY <1>1, <4>1
      <4>2. CASE a # va
        <5>1. a \in remapped' <=> a \in remapped
          BY <4>2
        <5>q. QED BY <1>8, <4>2, <5>1 DEF LiveOK
      <4>q. QED BY <4>1, <4>2
    <3>q. QED BY <1>2, <3>1 DEF LivesOK
  <2>3. RemapsOK'
    BY <1>3, <1>8 DEF RemapsOK
  <2>4. Settled'
    <3>1. ASSUME NEW a \in remapped'
          PROVE  \/ \E u \in Remaps' : remap'[u].va = a /\ remap'[u].step # "unmap"
                 \/ MappedIn(mapping', a, allocs_[a]) = {}
                 \/ MappedBytes(mapping', a, allocs_[a]) = allocs_[a]
      <4>1. CASE a = va
        <5>1. r # NoOp => t \in Remaps'
          BY <1>3 DEF Remaps
        <5>q. QED BY <1>1, <1>3, <3>1, <4>1, <5>1
      <4>2. CASE a # va
        <5>1. a \in remapped /\ a \in DOMAIN allocs_
          BY <1>1, <3>1, <4>2
        <5>2. \A u \in Remaps : remap[u].va = a => u # t
          BY <4>2
        <5>q. QED BY <1>3, <1>8, <4>2, <5>1, <5>2 DEF Contents, Settled
      <4>q. QED BY <4>1, <4>2
    <3>q. QED BY <1>2, <3>1 DEF Settled
  <2>q. QED BY <2>1, <2>2, <2>3, <2>4 DEF Contents
<1>10. Registering'
  BY <1>2 DEF Registering, peer_vars
<1>11. Reached'
  <2>1. ASSUME NEW a \in DOMAIN allocs_ \ remapped', NEW w \in MappedIn(mapping', a, allocs_[a]),
               NEW dev \in peer_devices_ \ refused
        PROVE  dev \in access'[w]
    <3>1. a \notin remapped
      BY <2>1
    <3>2. CASE a = va
      <4>1. w \in MappedIn(mapping, a, allocs_[a]) /\ access'[w] = access[w]
        BY <2>1, <3>2 DEF MappedIn, MappingKept
      <4>q. QED BY <2>1, <3>1, <4>1 DEF Reached
    <3>3. CASE a # va
      <4>1. /\ w \in MappedIn(mapping, a, allocs_[a]) /\ w \in DOMAIN mapping
            /\ w \in DOMAIN mapping'
        BY <1>8, <2>1, <3>3 DEF MappedIn
      <4>2. a \in DOMAIN reserved /\ reserved[a] = allocs_[a]
        BY <2>1 DEF Layout, LargeInv, Homes, Homesteads
      <4>3. w \notin MappedIn(mapping, va, size)
        BY <1>1, <3>3, <4>1, <4>2, OneHouse, MappingFacts
      <4>4. access'[w] = access[w]
        BY <4>1, <4>3
      <4>q. QED BY <2>1, <3>1, <4>1, <4>4 DEF Reached
    <3>q. QED BY <3>2, <3>3
  <2>q. QED BY <1>2, <2>1 DEF Reached, peer_vars
<1>q. QED BY <1>4, <1>5, <1>9, <1>10, <1>11 DEF Layout

LEMMA RemapBeginAccess ==
  ASSUME MAInv, NEW t \in Threads, NEW va \in DOMAIN allocs_, NEW new \in RemapArgs,
         NEW peers \in {{}, peer_devices_}, RemapBegin(t, va, new, peers)
  PROVE  MAInv'
<1> USE DEF MAInv
<1> DEFINE r == [va |-> va, size |-> allocs_[va], new |-> new, peers |-> peers,
                 num_mapped |-> 0, offset |-> 0, step |-> "unmap"]
<1>1. /\ UNCHANGED vars /\ UNCHANGED peer_vars /\ remapped' = remapped
      /\ remap[t] = NoOp /\ va \notin Remapping /\ remap' = [remap EXCEPT ![t] = r]
      /\ IsInjective(new) /\ \A h \in Range(new) : h \notin InUse
      /\ HandleSizes(new) = allocs_[va]
  BY DEF RemapBegin, Idle
<1>2. LargeInv'
  BY <1>1, NextLarge DEF Layout
<1>3. /\ allocs_' = allocs_ /\ alloc_blocks' = alloc_blocks /\ peer_devices_' = peer_devices_
      /\ call' = call /\ reserved' = reserved /\ mapping' = mapping /\ access' = access
      /\ taken' = taken /\ Calls' = Calls
  BY <1>1 DEF vars, live, driver, Calls, InStep
<1>4. /\ DOMAIN remap = Threads /\ DOMAIN remap' = Threads /\ remap'[t] = r
      /\ \A u \in Threads : u # t => remap'[u] = remap[u]
  BY <1>1 DEF Layout, Operations
<1>5. RemapRecord(r) /\ r.va = va /\ r.size = allocs_[va] /\ r.new = new /\ r.step = "unmap" /\ r # NoOp
  <2>1. new \in Seq(Foreign)
    BY DEF RemapArgs, SeqOf
  <2>2. peers \subseteq Peers
    BY DEF Layout, LargeInv, TypeOK
  <2>3. r.step = "unmap"
    OBVIOUS
  <2>4. r # NoOp
    BY <2>3, NoOpIdle
  <2>q. QED BY <1>1, <2>1, <2>2, <2>4 DEF RemapRecord
<1>6. RemapShape(mapping, r)
  <2>1. Nowhere(mapping, new)
    BY <1>1 DEF Nowhere, InUse, Range
  <2>q. QED BY <1>1, <1>5, <2>1 DEF RemapShape
<1>7. \A u \in Remaps : /\ u # t /\ u \in Threads /\ remap[u].va # va
                        /\ \A h \in Range(new) : h \notin Range(remap[u].new)
  BY <1>1 DEF Remaps, Remapping, InUse
<1> HIDE DEF r
<1>8. /\ t \in Remaps' /\ \A u \in Remaps' : u = t \/ (u \in Remaps /\ u # t)
      /\ \A u \in Remaps : u \in Remaps' /\ remap'[u] = remap[u]
  BY <1>4, <1>5, <1>7 DEF Remaps
<1>9. Operations'
  <2>1. ASSUME NEW u \in Remaps'
        PROVE  /\ RemapRecord(remap'[u]) /\ remap'[u].va \in DOMAIN allocs_
               /\ remap'[u].size = allocs_[remap'[u].va]
               /\ remap'[u].step # "unmap" => remap'[u].va \in remapped
    <3>1. CASE u = t
      BY <1>4, <1>5, <3>1
    <3>2. CASE u # t
      <4>1. u \in Remaps /\ remap'[u] = remap[u]
        BY <1>8, <3>2
      <4>q. QED BY <4>1 DEF Layout, Operations
    <3>q. QED BY <3>1, <3>2
  <2>2. ASSUME NEW u \in Remaps', NEW v \in Remaps', u # v
        PROVE  /\ remap'[u].va # remap'[v].va
               /\ \A h : ~ (h \in Range(remap'[u].new) /\ h \in Range(remap'[v].new))
    <3>1. CASE u # t /\ v # t
      BY <1>8, <2>2, <3>1 DEF Layout, Operations
    <3>2. CASE u = t
      BY <1>4, <1>5, <1>7, <1>8, <2>2, <3>2
    <3>3. CASE v = t
      BY <1>4, <1>5, <1>7, <1>8, <2>2, <3>3
    <3>q. QED BY <3>1, <3>2, <3>3
  <2>q. QED BY <1>1, <1>3, <1>4, <2>1, <2>2 DEF Layout, Operations
<1>10. Homesteads' /\ Places'
  BY <1>3 DEF Layout, Homesteads, Places
<1>11. Contents'
  <2>1. CallsOK' /\ LivesOK'
    BY <1>1, <1>3 DEF Contents, CallsOK, LivesOK
  <2>2. RemapsOK'
    BY <1>3, <1>4, <1>6, <1>8 DEF Contents, RemapsOK
  <2>3. Settled'
    BY <1>1, <1>3, <1>8 DEF Contents, Settled
  <2>q. QED BY <2>1, <2>2, <2>3 DEF Contents
<1>12. Registering'
  BY <1>1, <1>3 DEF Registering, peer_vars
<1>13. Reached'
  BY <1>1, <1>3 DEF Reached, peer_vars
<1>q. QED BY <1>2, <1>9, <1>10, <1>11, <1>12, <1>13 DEF Layout

LEMMA RemapFacts ==
  ASSUME MAInv, NEW t \in Threads, t \in Remaps
  PROVE  /\ RemapRecord(remap[t]) /\ RemapShape(mapping, remap[t])
         /\ DOMAIN remap = Threads /\ remap[t] # NoOp
         /\ remap[t].new \in Seq(Sized) /\ remap[t].num_mapped \in Nat /\ remap[t].offset \in Nat
         /\ \A h \in Range(remap[t].new) : h \in Foreign
         /\ remap[t].va \in DOMAIN allocs_ /\ remap[t].size = allocs_[remap[t].va]
         /\ remap[t].va \in DOMAIN reserved /\ reserved[remap[t].va] = remap[t].size
         /\ remap[t].va \in Nat /\ remap[t].size \in Nat \ {0}
         /\ remap[t].step # "unmap" => remap[t].va \in remapped
         /\ alloc_blocks[remap[t].va] \in Seq(Handles)
         /\ LiveOK(mapping, remapped, alloc_blocks[remap[t].va], remap[t].va, remap[t].size)
<1> USE DEF MAInv
<1>1. /\ RemapRecord(remap[t]) /\ DOMAIN remap = Threads /\ remap[t] # NoOp
      /\ remap[t].va \in DOMAIN allocs_ /\ remap[t].size = allocs_[remap[t].va]
      /\ remap[t].step # "unmap" => remap[t].va \in remapped
  BY DEF Layout, Operations, Remaps
<1>2. RemapShape(mapping, remap[t])
  BY DEF Contents, RemapsOK
<1>3. /\ remap[t].new \in Seq(Foreign) /\ remap[t].num_mapped \in Nat /\ remap[t].offset \in Nat
  BY <1>1 DEF RemapRecord
<1>4. remap[t].new \in Seq(Sized)
  BY <1>3, SizedFacts, SeqSubset
<1>5. \A h \in Range(remap[t].new) : h \in Foreign
  BY <1>3 DEF Range
<1>6. remap[t].va \in DOMAIN reserved /\ reserved[remap[t].va] = remap[t].size
  BY <1>1 DEF Layout, LargeInv, Homes, Homesteads
<1>7. remap[t].va \in Nat /\ remap[t].size \in Nat \ {0}
  BY <1>6, MappingFacts
<1>8. /\ alloc_blocks[remap[t].va] \in Seq(Handles)
      /\ LiveOK(mapping, remapped, alloc_blocks[remap[t].va], remap[t].va, remap[t].size)
  BY <1>1 DEF Layout, LargeInv, TypeOK, Contents, LivesOK
<1>q. QED BY <1>1, <1>2, <1>3, <1>4, <1>5, <1>6, <1>7, <1>8

(* memUnmap of the whole range: all that is mapped in it, or nothing.      *)
LEMMA RemapUnmapAccess ==
  ASSUME MAInv, NEW t \in Threads, RemapUnmap(t)
  PROVE  MAInv'
<1> USE DEF MAInv
<1> DEFINE r == remap[t]
           va == r.va
           size == r.size
           new == r.new
           s == alloc_blocks[va]
           r2 == IF FullyMapped(va, size) THEN [r EXCEPT !.step = "map"] ELSE NoOp
<1>1. /\ r.step = "unmap" /\ memUnmap(va, size)
      /\ remapped' = IF FullyMapped(va, size) THEN remapped \union {va} ELSE remapped
      /\ UNCHANGED <<mu_, live, peer_devices_, call, reserved, taken, peer_vars>>
  BY DEF RemapUnmap, RemapStep
<1>2. t \in Remaps
  BY <1>1, NoOpIdle DEF Remaps
<1>3. /\ RemapRecord(r) /\ RemapShape(mapping, r) /\ r # NoOp
      /\ new \in Seq(Foreign) /\ IsInjective(new)
      /\ new \in Seq(Sized) /\ va \in DOMAIN allocs_ /\ size = allocs_[va]
      /\ va \in DOMAIN reserved /\ reserved[va] = size /\ va \in Nat /\ size \in Nat \ {0}
      /\ s \in Seq(Handles) /\ LiveOK(mapping, remapped, s, va, size)
  BY <1>2, RemapFacts DEF RemapRecord
<1>4. remap' = [remap EXCEPT ![t] = r2]
  <2>1. DOMAIN remap = Threads
    BY DEF Layout, Operations
  <2>q. QED BY <2>1 DEF RemapUnmap, RemapGoto, RemapReturn
<1>5. /\ DOMAIN mapping' \subseteq DOMAIN mapping
      /\ \A w \in DOMAIN mapping' : mapping'[w] = mapping[w] /\ access'[w] = access[w]
      /\ \A w \in DOMAIN mapping : w \in DOMAIN mapping' \/ w \in MappedIn(mapping, va, reserved[va])
  <2>1. va <= va /\ va + size <= va + reserved[va] /\ size \in Nat
    BY <1>3
  <2>q. QED BY <1>1, <1>3, <2>1, UnmapInside
<1>6. /\ \A u \in DOMAIN reserved : u # va => Same(mapping, mapping', u, reserved[u])
      /\ \A w \in DOMAIN mapping' : At(mapping, w, mapping'[w])
  BY <1>3, <1>5, UnmapOther
<1>7. LargeInv'
  <2>1. DOMAIN access' = DOMAIN mapping'
    BY <1>1, MappingFacts DEF memUnmap, Restrict
  <2>2. \A w \in DOMAIN mapping' : /\ mapping'[w] \in Sized
                                   /\ access'[w] \subseteq {device_} \union Peers
    BY <1>5 DEF Layout, LargeInv, TypeOK, Sized
  <2>q. QED BY <1>1, <2>1, <2>2, RemapLarge DEF Layout
<1>8. Places'
  <2>1. \A w \in DOMAIN mapping' : mapping'[w] = mapping[w] /\ mapping'[w] \in taken' \union Foreign
    BY <1>1, <1>5 DEF Layout, Places
  <2>q. QED BY <1>1, <1>5, <2>1, PlacesRemove
<1>9. CASE FullyMapped(va, size)
  <2>1. \A w \in DOMAIN mapping' : w \notin MappedIn(mapping, va, size)
    <3>1. Within(va, size) = MappedIn(mapping, va, size)
      BY <1>3, WithinIs
    <3>q. QED BY <1>1, <1>9, <3>1 DEF memUnmap, Restrict
  <2>2. MappedIn(mapping', va, size) = {}
    BY <1>5, <2>1 DEF MappedIn
  <2>3. r2 = [r EXCEPT !.step = "map"] /\ remapped' = remapped \union {va}
    BY <1>1, <1>9
  <2>4. /\ DOMAIN r2 = DOMAIN r /\ r2.step = "map"
        /\ r2.va = va /\ r2.size = size /\ r2.new = new /\ r2.peers = r.peers
        /\ r2.num_mapped = r.num_mapped /\ r2.offset = r.offset
    BY <1>3, <2>3 DEF RemapRecord
  <2>5. RemapRecord(r2)
    BY <1>3, <2>4 DEF RemapRecord
  <2>6. /\ Nowhere(mapping, new) /\ r.num_mapped = 0 /\ r.offset = 0 /\ HandleSizes(new) = size
    BY <1>1, <1>3 DEF RemapShape
  <2>7. Nowhere(mapping', new)
    BY <1>5, <2>6, Shrinks
  <2>8. LiveOK(mapping', remapped', s, va, size)
    <3>1. Nowhere(mapping', s)
      BY <1>3, <1>5, <2>1 DEF LiveOK, OwnLive, StrippedLive, Only, Nowhere
    <3>2. Theirs(mapping', va, size)
      BY <2>2 DEF Theirs
    <3>q. QED BY <1>3, <2>3, <3>1, <3>2 DEF LiveOK, StrippedLive
  <2> HIDE DEF r2, r, new, va, size, s
  <2>9. RemapShape(mapping', r2)
    <3>1. Only(mapping', new, va, size)
      BY <2>2, <2>7 DEF Only, Nowhere
    <3>2. Len(new) \in Nat /\ DOMAIN new = 1..Len(new)
      BY <1>3
    <3>3. Chain(mapping', new, 0, va)
      <4>1. \A i \in (0 + 1)..Len(new), w \in DOMAIN mapping' : mapping'[w] # new[i]
        BY <2>7, <3>2 DEF Nowhere, Range
      <4>2. 0 \in 0..Len(new) /\ ~ (0 > 0) /\ 1..(0 - 1) = {}
        BY <3>2
      <4>q. QED BY <4>1, <4>2 DEF Chain
    <3>4. MappedBytes(mapping', va, size) = 0
      BY <2>2, RangeEmpty
    <3>5. 0 + HandleSizes(SubSeq(new, 0 + 1, Len(new))) = size
      <4>1. 0 \in 0..Len(new)
        BY <3>2
      <4>2. SubSeq(new, 0 + 1, Len(new)) = new
        BY <1>3, <4>1, RestSteps DEF Rest
      <4>3. HandleSizes(SubSeq(new, 0 + 1, Len(new))) = size /\ size \in Nat
        BY <1>3, <2>6, <4>2
      <4>q. QED BY <4>3
    <3>q. QED BY <2>4, <2>6, <3>1, <3>3, <3>4, <3>5 DEF RemapShape
  <2>10. /\ va \in remapped' /\ remapped \subseteq remapped' /\ remapped' \subseteq remapped \union {va}
         /\ r2.step # "unmap" /\ Range(r2.new) \subseteq Range(remap[t].new) /\ r2 # NoOp
    <3>1. r2.step = "map" /\ r2.new = remap[t].new
      BY <2>4 DEF new, r
    <3>2. r2.step # "unmap" /\ r2.step # "idle"
      BY <3>1
    <3>3. r2 # NoOp
      BY <3>2, NoOpIdle
    <3>q. QED BY <2>3, <3>1, <3>2, <3>3
  <2>11. va = remap[t].va /\ size = remap[t].size
    BY DEF va, size, r
  <2>12. LiveOK(mapping', remapped', alloc_blocks[va], va, size)
    BY <2>8 DEF s
  <2>13. \A w \in DOMAIN mapping : w \in DOMAIN mapping' => access'[w] = access[w]
    BY <1>5
  <2>q. QED BY <1>1, <1>2, <1>4, <1>6, <1>7, <1>8, <2>4, <2>5, <2>9, <2>10, <2>11, <2>12, <2>13,
               RemapProgress
<1>10. CASE ~ FullyMapped(va, size)
  <2>1. r2 = NoOp /\ remapped' = remapped
    BY <1>1, <1>10
  <2>2. DOMAIN mapping' = DOMAIN mapping
    BY <1>1, <1>10 DEF memUnmap, Restrict
  <2>3. \A w \in DOMAIN mapping : mapping'[w] = mapping[w] /\ access'[w] = access[w]
    BY <1>5, <2>2
  <2>4. Same(mapping, mapping', va, size) /\ NoneComes(mapping, mapping', s)
    BY <2>2, <2>3 DEF Same, NoneComes, MappedIn, At
  <2>5. LiveOK(mapping', remapped', s, va, size)
    BY <1>3, <2>1, <2>4, LiveSame DEF LiveOK
  <2>6. va \in remapped => \/ MappedIn(mapping', va, size) = {}
                           \/ MappedBytes(mapping', va, size) = size
    <3>1. \A u \in Remaps : remap[u].va = va => u = t
      BY <1>2 DEF Layout, Operations
    <3>2. va \in remapped => \/ MappedIn(mapping, va, size) = {}
                             \/ MappedBytes(mapping, va, size) = size
      BY <1>1, <1>3, <3>1 DEF Contents, Settled
    <3>q. QED BY <2>4, <3>2, SameBytes DEF Same
  <2>7. va = remap[t].va /\ size = remap[t].size
    OBVIOUS
  <2>8. LiveOK(mapping', remapped', alloc_blocks[va], va, size)
    BY <2>5
  <2> HIDE DEF r2, r, new, va, size, s
  <2>9. /\ remapped \subseteq remapped' /\ remapped' \subseteq remapped \union {va}
        /\ va \in remapped' => \/ r2 # NoOp
                               \/ MappedIn(mapping', va, size) = {}
                               \/ MappedBytes(mapping', va, size) = size
    BY <2>1, <2>6
  <2>10. MappingKept
    BY <2>2, <2>3 DEF MappingKept
  <2>11. \A w \in DOMAIN mapping : w \in DOMAIN mapping' => access'[w] = access[w]
    BY <2>3
  <2>12. MAInv /\ t \in Remaps
    BY <1>2
  <2>q. QED BY <1>1, <1>4, <1>6, <1>7, <1>8, <2>1, <2>7, <2>8, <2>9, <2>10, <2>11, <2>12, RemapProgress
<1>q. QED BY <1>9, <1>10

(* The two outcomes of memMap: the next handle is mapped, or the exception *)
(* handler starts with what has been mapped.                               *)
HandleMapped(t) ==
  LET r == remap[t]
      h == r.new[r.num_mapped + 1]
  IN /\ RemapStep(t, "map") /\ r.num_mapped < Len(r.new)
     /\ Mappable(r.va + r.offset, BlockSize[h])
     /\ memMap(r.va + r.offset, h)
     /\ remap' = [remap EXCEPT ![t].num_mapped = @ + 1, ![t].offset = @ + BlockSize[h]]
     /\ UNCHANGED <<mu_, live, peer_devices_, call, reserved, taken, peer_vars, remapped>>
HandleRefused(t) ==
  LET r == remap[t]
  IN /\ RemapStep(t, "map")
     /\ remap' = [remap EXCEPT ![t].step = "rollback", ![t].offset = 0,
                               ![t].new = SubSeq(@, 1, r.num_mapped)]
     /\ UNCHANGED <<mapping, access, mu_, live, peer_devices_, call, reserved, taken,
                    peer_vars, remapped>>

LEMMA HandleMappedAccess ==
  ASSUME MAInv, NEW t \in Threads, HandleMapped(t)
  PROVE  MAInv'
<1> USE DEF MAInv
<1> DEFINE r == remap[t]
           va == r.va
           size == r.size
           new == r.new
           n == r.num_mapped
           end == va + r.offset
           h == new[n + 1]
           s == alloc_blocks[va]
           r2 == [r EXCEPT !.num_mapped = n + 1, !.offset = r.offset + BlockSize[h]]
<1>1. /\ r.step = "map" /\ n < Len(new)
      /\ Mappable(end, BlockSize[h]) /\ mapping' = AddRange(mapping, end, h)
      /\ access' = AddRange(access, end, {})
      /\ UNCHANGED <<mu_, live, peer_devices_, call, reserved, taken, peer_vars, remapped>>
  BY DEF HandleMapped, RemapStep, memMap
<1>2. t \in Remaps
  BY <1>1, NoOpIdle DEF Remaps
<1>3. /\ RemapRecord(r) /\ RemapShape(mapping, r)
      /\ new \in Seq(Foreign) /\ IsInjective(new) /\ new \in Seq(Sized)
      /\ n \in Nat /\ r.offset \in Nat
      /\ va \in DOMAIN reserved /\ reserved[va] = size /\ va \in Nat /\ size \in Nat \ {0}
      /\ va \in remapped
      /\ s \in Seq(Handles) /\ LiveOK(mapping, remapped, s, va, size)
  BY <1>1, <1>2, RemapFacts DEF RemapRecord
<1>4. /\ remap' = [remap EXCEPT ![t] = r2]
      /\ DOMAIN r2 = DOMAIN r /\ r2.step = "map" /\ r2.va = va /\ r2.size = size
      /\ r2.new = new /\ r2.peers = r.peers
      /\ r2.num_mapped = n + 1 /\ r2.offset = r.offset + BlockSize[h]
  <2>1. DOMAIN remap = Threads
    BY DEF Layout, Operations
  <2>2. DOMAIN r = {"va", "size", "new", "peers", "num_mapped", "offset", "step"}
    BY <1>3 DEF RemapRecord
  <2>q. QED BY <1>1, <2>1, <2>2 DEF HandleMapped
<1>5. va = remap[t].va /\ size = remap[t].size /\ new = remap[t].new /\ h = new[n + 1]
      /\ s = alloc_blocks[va]
  OBVIOUS
<1>6. /\ Only(mapping, new, va, size) /\ Chain(mapping, new, n, va)
      /\ r.offset = MappedBytes(mapping, va, size)
      /\ IF n = 0 THEN r.offset = 0
         ELSE \A w \in DOMAIN mapping : mapping[w] = new[n] => w + BlockSize[mapping[w]] = end
      /\ r.offset + HandleSizes(Rest(new, n)) = size
  BY <1>1, <1>3 DEF RemapShape, Rest
<1>7. end \in Nat /\ end = va + r.offset
  BY <1>3
<1> HIDE DEF r, va, size, new, n, end, h, s, r2
<1>8. Len(new) \in Nat /\ n \in 0..Len(new) /\ n + 1 \in 0..Len(new) /\ n + 1 \in 1..Len(new)
  BY <1>1, <1>3
<1>9. /\ h \in Sized /\ h \in Foreign /\ h \in Range(new) /\ h \notin Handles /\ BlockSize[h] \in Nat \ {0}
  <2>1. h \in Foreign /\ h \in Range(new)
    BY <1>3, <1>5, <1>8 DEF Range
  <2>q. QED BY <2>1, SizedFacts
<1>10. /\ HandleSizes(Rest(new, n + 1)) \in Nat
       /\ HandleSizes(Rest(new, n)) = BlockSize[h] + HandleSizes(Rest(new, n + 1))
  <2>1. /\ n < Len(new) => HandleSizes(Rest(new, n)) = BlockSize[new[n + 1]] + HandleSizes(Rest(new, n + 1))
    BY <1>3, <1>8, RestSteps
  <2>2. HandleSizes(Rest(new, n + 1)) \in Nat
    BY <1>3, <1>8, RestSteps
  <2>q. QED BY <1>1, <1>5, <2>1, <2>2
<1>11. /\ va <= end /\ end + BlockSize[h] <= va + size
       /\ (r.offset + BlockSize[h]) + HandleSizes(Rest(new, n + 1)) = size
  <2>1. \A v, o, b, x, z \in Nat : o + (b + x) = z =>
          v <= v + o /\ (v + o) + b <= v + z /\ (o + b) + x = z
    OBVIOUS
  <2>2. r.offset + (BlockSize[h] + HandleSizes(Rest(new, n + 1))) = size
    BY <1>6, <1>10
  <2>3. BlockSize[h] \in Nat /\ HandleSizes(Rest(new, n + 1)) \in Nat /\ va \in Nat
        /\ r.offset \in Nat /\ size \in Nat
    BY <1>3, <1>9, <1>10
  <2>q. QED BY <1>7, <2>1, <2>2, <2>3
<1>12. \A w \in DOMAIN mapping : mapping[w] # h
  <2>1. n + 1 \in (n + 1)..Len(new)
    BY <1>8
  <2>q. QED BY <1>5, <1>6, <2>1 DEF Chain
<1>13. /\ \A w \in DOMAIN mapping : mapping[w] \in Sized
       /\ IsFiniteSet(DOMAIN mapping) /\ DOMAIN access = DOMAIN mapping
       /\ \A w \in DOMAIN mapping : access[w] \subseteq {device_} \union Peers
  BY MappingFacts DEF Layout, Places, LargeInv, TypeOK
<1>14. Places' /\ end \notin DOMAIN mapping
  <2>1. UNCHANGED reserved /\ taken \subseteq taken' /\ h \in taken' \union Foreign
    BY <1>1, <1>9
  <2>2. end + BlockSize[h] <= va + reserved[va]
    BY <1>3, <1>11
  <2>q. QED BY <1>1, <1>3, <1>7, <1>9, <1>11, <1>12, <2>1, <2>2, PlacesAdd
<1>15. /\ \A u \in DOMAIN reserved : u # va => Same(mapping, mapping', u, reserved[u])
       /\ \A w \in DOMAIN mapping' : At(mapping, w, mapping'[w]) \/ mapping'[w] = h
       /\ \A w \in DOMAIN mapping : w \in DOMAIN mapping' /\ mapping'[w] = mapping[w]
  <2>1. /\ Layout /\ va \in DOMAIN reserved /\ h \in Sized /\ end \in Nat
        /\ end \notin DOMAIN mapping /\ mapping' = AddRange(mapping, end, h)
        /\ va <= end /\ end + BlockSize[h] <= va + reserved[va]
    BY <1>1, <1>3, <1>7, <1>9, <1>11, <1>14
  <2>q. QED BY <2>1, MapOther
<1>16. /\ DOMAIN mapping' = DOMAIN mapping \union {end} /\ mapping'[end] = h
       /\ DOMAIN access' = DOMAIN mapping'
       /\ access'[end] = {} /\ \A w \in DOMAIN mapping : access'[w] = access[w]
  BY <1>1, <1>13, <1>14 DEF AddRange
<1>17. LargeInv'
  <2>1. \A w \in DOMAIN mapping' : /\ mapping'[w] \in Sized
                                   /\ access'[w] \subseteq {device_} \union Peers
    BY <1>9, <1>13, <1>15, <1>16
  <2>q. QED BY <1>1, <1>16, <2>1, RemapLarge DEF Layout
<1>18. /\ MappedIn(mapping', va, size) = MappedIn(mapping, va, size) \union {end}
       /\ MappedBytes(mapping', va, size) = MappedBytes(mapping, va, size) + BlockSize[h]
  <2>1. size \in Nat
    BY <1>3
  <2>q. QED BY <1>1, <1>3, <1>9, <1>11, <1>13, <1>14, <2>1, RangeGains
<1>19. /\ Chain(mapping', new, n + 1, va)
       /\ \A w \in DOMAIN mapping' : mapping'[w] = h =>
            w + BlockSize[mapping'[w]] = end + BlockSize[h]
  <2>1. /\ n = 0 => end = va
        /\ n # 0 => \A w \in DOMAIN mapping : mapping[w] = new[n] => w + BlockSize[mapping[w]] = end
    BY <1>3, <1>6, <1>7
  <2>2. /\ n < Len(new) /\ end \notin DOMAIN mapping
        /\ Chain(mapping, new, n, va) /\ IsInjective(new) /\ n \in Nat /\ h = new[n + 1]
        /\ new \in Seq(Foreign)
    BY <1>1, <1>3, <1>5, <1>6, <1>14
  <2>3. /\ DOMAIN mapping' = DOMAIN mapping \union {end} /\ mapping'[end] = h
        /\ \A w \in DOMAIN mapping : mapping'[w] = mapping[w]
    BY <1>15, <1>16
  <2>q. QED BY <2>1, <2>2, <2>3, ChainExtends
<1>20. Only(mapping', new, va, size)
  BY <1>6, <1>9, <1>15, <1>16, <1>18 DEF Only, MappedIn
<1>21. RemapShape(mapping', r2) /\ RemapRecord(r2)
  <2>1. r.offset + BlockSize[h] \in Nat /\ n + 1 \in Nat /\ n + 1 # 0
    BY <1>3, <1>9
  <2>2. RemapRecord(r2)
    BY <1>3, <1>4, <2>1 DEF RemapRecord
  <2>3. end + BlockSize[h] = va + (r.offset + BlockSize[h])
    BY <1>3, <1>7, <1>9
  <2>4. \A w \in DOMAIN mapping' : mapping'[w] = r2.new[r2.num_mapped] =>
          w + BlockSize[mapping'[w]] = r2.va + r2.offset
    BY <1>4, <1>5, <1>19, <2>3
  <2>5. /\ Chain(mapping', r2.new, r2.num_mapped, r2.va)
        /\ r2.offset = MappedBytes(mapping', r2.va, r2.size)
        /\ r2.offset + HandleSizes(Rest(r2.new, r2.num_mapped)) = r2.size
        /\ Only(mapping', r2.new, r2.va, r2.size) /\ r2.num_mapped # 0
    BY <1>4, <1>6, <1>11, <1>18, <1>19, <1>20, <2>1
  <2>6. RemapShape(mapping', r2)
    BY <1>4, <2>4, <2>5 DEF RemapShape, Rest
  <2>q. QED BY <2>2, <2>6
<1>22. LiveOK(mapping', remapped', alloc_blocks[va], va, size)
  <2>1. HandleSizes(s) = size /\ StrippedLive(mapping, s, va, size)
    BY <1>3 DEF LiveOK
  <2>2. Theirs(mapping', va, size)
    BY <1>9, <1>15, <1>16, <1>18, <2>1 DEF StrippedLive, Theirs, MappedIn
  <2>3. h \notin Range(s)
    BY <1>3, <1>9 DEF Range
  <2>4. Nowhere(mapping', s)
    BY <1>15, <2>1, <2>3 DEF StrippedLive, Nowhere, At
  <2>q. QED BY <1>1, <1>3, <1>5, <2>1, <2>2, <2>4 DEF LiveOK, StrippedLive
<1>23. /\ r2 # NoOp /\ r2.step # "unmap" /\ Range(r2.new) \subseteq Range(remap[t].new)
  <2>1. r2.step # "unmap" /\ r2.step # "idle"
    BY <1>4
  <2>q. QED BY <1>4, <1>5, <2>1, NoOpIdle
<1>24. /\ remapped \subseteq remapped' /\ remapped' \subseteq remapped \union {va} /\ va \in remapped'
       /\ \A u \in DOMAIN reserved : u # va => Same(mapping, mapping', u, reserved[u])
       /\ \A w \in DOMAIN mapping' : \/ At(mapping, w, mapping'[w])
                                     \/ mapping'[w] \in Range(remap[t].new)
       /\ \A w \in DOMAIN mapping : w \in DOMAIN mapping' => access'[w] = access[w]
  BY <1>1, <1>3, <1>5, <1>9, <1>15, <1>16
<1>25. /\ MAInv /\ Places' /\ r2 # NoOp /\ r2.step # "unmap"
       /\ r2.va = va /\ r2.size = size /\ Range(r2.new) \subseteq Range(remap[t].new)
       /\ va = remap[t].va /\ size = remap[t].size /\ remap' = [remap EXCEPT ![t] = r2]
       /\ UNCHANGED <<mu_, live, peer_devices_, call, reserved, taken, peer_vars>>
  BY <1>1, <1>4, <1>5, <1>14, <1>23
<1>q. QED BY <1>2, <1>17, <1>21, <1>22, <1>24, <1>25, RemapProgress

LEMMA HandleRefusedAccess ==
  ASSUME MAInv, NEW t \in Threads, HandleRefused(t)
  PROVE  MAInv'
<1> USE DEF MAInv
<1> DEFINE r == remap[t]
           va == r.va
           size == r.size
           new == r.new
           n == r.num_mapped
           p == SubSeq(new, 1, n)
           r2 == [r EXCEPT !.step = "rollback", !.offset = 0, !.new = p]
<1>1. /\ r.step = "map" /\ mapping' = mapping /\ access' = access
      /\ UNCHANGED <<mu_, live, peer_devices_, call, reserved, taken, peer_vars, remapped>>
  BY DEF HandleRefused, RemapStep
<1>2. t \in Remaps
  BY <1>1, NoOpIdle DEF Remaps
<1>3. /\ RemapRecord(r) /\ RemapShape(mapping, r)
      /\ new \in Seq(Foreign) /\ IsInjective(new) /\ n \in Nat
      /\ va \in DOMAIN reserved /\ reserved[va] = size /\ va \in Nat /\ size \in Nat \ {0}
      /\ va \in remapped /\ LiveOK(mapping, remapped, alloc_blocks[va], va, size)
  BY <1>1, <1>2, RemapFacts DEF RemapRecord
<1>4. /\ remap' = [remap EXCEPT ![t] = r2]
      /\ DOMAIN r2 = DOMAIN r /\ r2.step = "rollback" /\ r2.va = va /\ r2.size = size
      /\ r2.new = p /\ r2.peers = r.peers /\ r2.num_mapped = n /\ r2.offset = 0
  <2>1. DOMAIN remap = Threads
    BY DEF Layout, Operations
  <2>2. DOMAIN r = {"va", "size", "new", "peers", "num_mapped", "offset", "step"}
    BY <1>3 DEF RemapRecord
  <2>q. QED BY <2>1, <2>2 DEF HandleRefused
<1>5. va = remap[t].va /\ size = remap[t].size /\ new = remap[t].new /\ p = SubSeq(new, 1, n)
  OBVIOUS
<1>6. Only(mapping, new, va, size) /\ Chain(mapping, new, n, va)
  BY <1>1, <1>3 DEF RemapShape
<1> HIDE DEF r, va, size, new, n, p, r2
<1>7. /\ p \in Seq(Foreign) /\ IsInjective(p) /\ Range(p) \subseteq Range(new)
      /\ Chain(mapping, p, Len(p), va) /\ Only(mapping, p, va, size)
  BY <1>3, <1>5, <1>6, ChainPrefix
<1>8. RemapRecord(r2)
  <2>1. 0 \in Nat
    OBVIOUS
  <2>q. QED BY <1>3, <1>4, <1>7, <2>1 DEF RemapRecord
<1>9. RemapShape(mapping, r2)
  <2>1. va + 0 = va
    BY <1>3
  <2>q. QED BY <1>4, <1>7, <2>1 DEF RemapShape
<1>10. LargeInv'
  <2>1. /\ DOMAIN access' = DOMAIN mapping'
        /\ \A w \in DOMAIN mapping' : /\ mapping'[w] \in Sized
                                      /\ access'[w] \subseteq {device_} \union Peers
    BY <1>1 DEF Layout, LargeInv, TypeOK, Sized
  <2>q. QED BY <1>1, <2>1, RemapLarge DEF Layout
<1>11. Places'
  BY <1>1 DEF Layout, Places
<1>12. /\ r2 # NoOp /\ r2.step # "unmap" /\ Range(r2.new) \subseteq Range(remap[t].new)
  <2>1. r2.step # "unmap" /\ r2.step # "idle"
    BY <1>4
  <2>q. QED BY <1>4, <1>5, <1>7, <2>1, NoOpIdle
<1>13. /\ remapped \subseteq remapped' /\ remapped' \subseteq remapped \union {va} /\ va \in remapped'
       /\ \A w \in DOMAIN mapping' : At(mapping, w, mapping'[w])
       /\ \A w \in DOMAIN mapping : w \in DOMAIN mapping' => access'[w] = access[w]
       /\ \A u \in DOMAIN reserved : u # va => Same(mapping, mapping', u, reserved[u])
       /\ LiveOK(mapping', remapped', alloc_blocks[va], va, size) /\ RemapShape(mapping', r2)
  BY <1>1, <1>3, <1>9 DEF At, Same
<1>14. MAInv
  OBVIOUS
<1>q. QED BY <1>1, <1>2, <1>4, <1>5, <1>8, <1>10, <1>11, <1>12, <1>13, <1>14, RemapProgress

LEMMA RemapMapAccess ==
  ASSUME MAInv, NEW t \in Threads, RemapMap(t)
  PROVE  MAInv'
<1>1. HandleMapped(t) \/ HandleRefused(t)
  BY DEF RemapMap, HandleMapped, HandleRefused
<1>q. QED BY <1>1, HandleMappedAccess, HandleRefusedAccess

(* The exception handler: one handle fewer is mapped, or none is left and  *)
(* with it nothing in the range.                                           *)
LEMMA RemapRollbackAccess ==
  ASSUME MAInv, NEW t \in Threads, RemapRollback(t)
  PROVE  MAInv'
<1> USE DEF MAInv
<1> DEFINE r == remap[t]
           va == r.va
           size == r.size
           new == r.new
           hd == Head(new)
           tl == Tail(new)
           end == va + r.offset
           s == alloc_blocks[va]
           r2 == IF new = <<>> THEN NoOp
                 ELSE [r EXCEPT !.new = tl, !.offset = r.offset + BlockSize[hd]]
<1>1. /\ r.step = "rollback"
      /\ new = <<>> => mapping' = mapping /\ access' = access
      /\ new # <<>> => memUnmap(end, BlockSize[hd])
      /\ UNCHANGED <<mu_, live, peer_devices_, call, reserved, taken, peer_vars, remapped>>
  BY DEF RemapRollback, RemapStep
<1>2. t \in Remaps
  BY <1>1, NoOpIdle DEF Remaps
<1>3. /\ RemapRecord(r) /\ RemapShape(mapping, r)
      /\ new \in Seq(Foreign) /\ new \in Seq(Sized) /\ IsInjective(new)
      /\ r.num_mapped \in Nat /\ r.offset \in Nat
      /\ va \in DOMAIN reserved /\ reserved[va] = size /\ va \in Nat /\ size \in Nat \ {0}
      /\ va \in remapped
      /\ s \in Seq(Handles) /\ LiveOK(mapping, remapped, s, va, size)
  BY <1>1, <1>2, RemapFacts DEF RemapRecord
<1>4. remap' = [remap EXCEPT ![t] = r2]
  <2>1. DOMAIN remap = Threads
    BY DEF Layout, Operations
  <2>2. DOMAIN r = {"va", "size", "new", "peers", "num_mapped", "offset", "step"}
    BY <1>3 DEF RemapRecord
  <2>q. QED BY <2>1, <2>2 DEF RemapRollback, RemapReturn
<1>5. /\ new = <<>> => r2 = NoOp
      /\ new # <<>> =>
           /\ DOMAIN r2 = DOMAIN r /\ r2.step = "rollback" /\ r2.va = va /\ r2.size = size
           /\ r2.new = tl /\ r2.peers = r.peers
           /\ r2.num_mapped = r.num_mapped /\ r2.offset = r.offset + BlockSize[hd]
  <2>1. DOMAIN r = {"va", "size", "new", "peers", "num_mapped", "offset", "step"}
    BY <1>3 DEF RemapRecord
  <2>q. QED BY <1>1, <2>1
<1>6. /\ va = remap[t].va /\ size = remap[t].size /\ new = remap[t].new /\ s = alloc_blocks[va]
      /\ hd = Head(new) /\ tl = Tail(new)
  OBVIOUS
<1>7. Only(mapping, new, va, size) /\ Chain(mapping, new, Len(new), end)
  BY <1>1, <1>3 DEF RemapShape
<1>8. end \in Nat /\ end = va + r.offset
  BY <1>3
<1> HIDE DEF r, va, size, new, hd, tl, end, s, r2
<1>9. /\ Len(new) \in Nat
      /\ new # <<>> => /\ Len(new) > 0 /\ hd = new[1] /\ hd \in Range(new) /\ hd \in Sized
                       /\ tl \in Seq(Foreign) /\ IsInjective(tl)
                       /\ Range(new) = Range(tl) \union {hd} /\ Len(tl) = Len(new) - 1
                       /\ BlockSize[hd] \in Nat \ {0}
  <2>1. new # <<>> => /\ Range(new) = Range(tl) \union {hd} /\ IsInjective(tl)
                      /\ hd \in Range(new) /\ tl \in Seq(Foreign)
    BY <1>3, <1>6, BlockDropped
  <2>2. new # <<>> => Len(new) > 0 /\ hd = new[1] /\ hd \in Sized /\ Len(tl) = Len(new) - 1
    BY <1>3, <1>6
  <2>3. Len(new) \in Nat
    BY <1>3
  <2>q. QED BY <2>1, <2>2, <2>3, SizedFacts
<1>10. new # <<>> => /\ DOMAIN mapping' = DOMAIN mapping \ {end}
                     /\ \A w \in DOMAIN mapping' : mapping'[w] = mapping[w] /\ access'[w] = access[w]
                     /\ end \in DOMAIN mapping /\ mapping[end] = hd
                     /\ DOMAIN access' = DOMAIN mapping'
  <2>1. SUFFICES ASSUME new # <<>>
                 PROVE  /\ DOMAIN mapping' = DOMAIN mapping \ {end}
                        /\ \A w \in DOMAIN mapping' : mapping'[w] = mapping[w] /\ access'[w] = access[w]
                        /\ end \in DOMAIN mapping /\ mapping[end] = hd
                        /\ DOMAIN access' = DOMAIN mapping'
    OBVIOUS
  <2>2. end \in DOMAIN mapping /\ mapping[end] = hd
    BY <1>7, <1>9, <2>1 DEF Chain, At
  <2>3. memUnmap(end, BlockSize[mapping[end]])
    BY <1>1, <2>1, <2>2
  <2>4. /\ DOMAIN mapping' = DOMAIN mapping \ {end}
        /\ \A w \in DOMAIN mapping' : mapping'[w] = mapping[w] /\ access'[w] = access[w]
    BY <2>2, <2>3, UnmapsOne DEF Layout, LargeInv, Places
  <2>5. DOMAIN access' = DOMAIN mapping'
    BY <2>3, MappingFacts DEF memUnmap, Restrict
  <2>q. QED BY <2>2, <2>4, <2>5
<1>11. /\ DOMAIN mapping' \subseteq DOMAIN mapping /\ DOMAIN access' = DOMAIN mapping'
       /\ \A w \in DOMAIN mapping' : mapping'[w] = mapping[w] /\ access'[w] = access[w]
       /\ \A w \in DOMAIN mapping : w \in DOMAIN mapping' \/ w \in MappedIn(mapping, va, reserved[va])
  <2>1. CASE new = <<>>
    BY <1>1, <2>1, MappingFacts
  <2>2. CASE new # <<>>
    <3>1. end \in MappedIn(mapping, va, reserved[va])
      BY <1>3, <1>7, <1>9, <1>10, <2>2 DEF Only
    <3>q. QED BY <1>10, <2>2, <3>1
  <2>q. QED BY <2>1, <2>2
<1>12. /\ \A u \in DOMAIN reserved : u # va => Same(mapping, mapping', u, reserved[u])
       /\ \A w \in DOMAIN mapping' : At(mapping, w, mapping'[w])
  BY <1>3, <1>11, UnmapOther
<1>13. LargeInv'
  <2>1. \A w \in DOMAIN mapping' : /\ mapping'[w] \in Sized
                                   /\ access'[w] \subseteq {device_} \union Peers
    BY <1>11 DEF Layout, LargeInv, TypeOK, Sized
  <2>q. QED BY <1>1, <1>11, <2>1, RemapLarge DEF Layout
<1>14. Places'
  <2>1. \A w \in DOMAIN mapping' : mapping'[w] = mapping[w] /\ mapping'[w] \in taken' \union Foreign
    BY <1>1, <1>11 DEF Layout, Places
  <2>q. QED BY <1>1, <1>11, <2>1, PlacesRemove
<1>15. LiveOK(mapping', remapped', alloc_blocks[va], va, size)
  BY <1>1, <1>3, <1>6, <1>11, Shrinks DEF LiveOK, StrippedLive
<1>16. r2 # NoOp => /\ RemapRecord(r2) /\ r2.va = va /\ r2.size = size /\ r2.step # "unmap"
                    /\ Range(r2.new) \subseteq Range(remap[t].new)
                    /\ RemapShape(mapping', r2) /\ va \in remapped'
  <2>1. SUFFICES ASSUME new # <<>>
                 PROVE  /\ RemapRecord(r2) /\ r2.va = va /\ r2.size = size /\ r2.step # "unmap"
                        /\ Range(r2.new) \subseteq Range(remap[t].new)
                        /\ RemapShape(mapping', r2) /\ va \in remapped'
    BY <1>5
  <2>2. /\ DOMAIN r2 = DOMAIN r /\ r2.step = "rollback" /\ r2.va = va /\ r2.size = size
        /\ r2.new = tl /\ r2.peers = r.peers
        /\ r2.num_mapped = r.num_mapped /\ r2.offset = r.offset + BlockSize[hd]
    BY <1>5, <2>1
  <2>3. r.offset + BlockSize[hd] \in Nat
    BY <1>3, <1>9, <2>1
  <2>4. RemapRecord(r2)
    BY <1>3, <1>9, <2>1, <2>2, <2>3 DEF RemapRecord
  <2>5. /\ \A w \in DOMAIN mapping' : mapping'[w] # hd
        /\ Chain(mapping', tl, Len(new) - 1, end + BlockSize[hd])
    <3>1. /\ new # <<>> /\ IsInjective(new) /\ Len(new) > 0 /\ Len(new) \in Nat
          /\ Chain(mapping, new, Len(new), end) /\ new \in Seq(Foreign)
          /\ DOMAIN mapping' = DOMAIN mapping \ {end} /\ \A w \in DOMAIN mapping' : mapping'[w] = mapping[w]
      BY <1>3, <1>7, <1>9, <1>10, <2>1
    <3>2. \A w, x \in DOMAIN mapping : w # x => mapping[w] # mapping[x]
      BY DEF Layout, Places
    <3>3. /\ \A w \in DOMAIN mapping' : mapping'[w] # Head(new)
          /\ Chain(mapping', Tail(new), Len(new) - 1, end + BlockSize[Head(new)])
      BY <3>1, <3>2, ChainShrinks
    <3>q. QED BY <1>6, <3>3
  <2>6. Only(mapping', tl, va, size)
    <3>1. Only(mapping', new, va, size)
      BY <1>7, <1>11, Shrinks
    <3>q. QED BY <1>9, <2>1, <2>5, <3>1 DEF Only
  <2>7. end + BlockSize[hd] = va + (r.offset + BlockSize[hd])
    BY <1>3, <1>8, <1>9, <2>1
  <2>8. RemapShape(mapping', r2)
    BY <1>9, <2>1, <2>2, <2>5, <2>6, <2>7 DEF RemapShape
  <2>9. Range(r2.new) \subseteq Range(remap[t].new) /\ va \in remapped'
    BY <1>1, <1>3, <1>6, <1>9, <2>1, <2>2
  <2>q. QED BY <2>2, <2>4, <2>8, <2>9
<1>17. r2 # NoOp \/ MappedIn(mapping', va, size) = {}
  <2>1. CASE new = <<>>
    <3>1. Range(new) = {}
      BY <2>1 DEF Range
    <3>q. QED BY <1>1, <1>7, <2>1, <3>1 DEF Only, MappedIn
  <2>2. CASE new # <<>>
    <3>1. r2.step # "idle"
      BY <1>5, <2>2
    <3>q. QED BY <3>1, NoOpIdle
  <2>q. QED BY <2>1, <2>2
<1>18. /\ remapped \subseteq remapped' /\ remapped' \subseteq remapped \union {va} /\ va \in remapped'
       /\ \A w \in DOMAIN mapping : w \in DOMAIN mapping' => access'[w] = access[w]
       /\ va = remap[t].va /\ size = remap[t].size /\ remap' = [remap EXCEPT ![t] = r2]
       /\ UNCHANGED <<mu_, live, peer_devices_, call, reserved, taken, peer_vars>>
       /\ MAInv /\ t \in Remaps
  BY <1>1, <1>2, <1>3, <1>4, <1>6, <1>11
<1>19. CASE r2 = NoOp
  <2>1. MappedIn(mapping', va, size) = {}
    BY <1>17, <1>19
  <2>q. QED BY <1>12, <1>13, <1>14, <1>15, <1>18, <1>19, <2>1, RemapProgress
<1>20. CASE r2 # NoOp
  <2>1. /\ RemapRecord(r2) /\ r2.va = va /\ r2.size = size /\ r2.step # "unmap"
        /\ Range(r2.new) \subseteq Range(remap[t].new)
        /\ RemapShape(mapping', r2)
    BY <1>16, <1>20
  <2>q. QED BY <1>12, <1>13, <1>14, <1>15, <1>18, <1>20, <2>1, RemapProgress
<1>q. QED BY <1>19, <1>20

(* memSetAccess of the range, which the handles fill by now. *)
LEMMA RemapAccessAccess ==
  ASSUME MAInv, NEW t \in Threads, RemapAccess(t)
  PROVE  MAInv'
<1> USE DEF MAInv
<1> DEFINE r == remap[t]
           va == r.va
           size == r.size
           new == r.new
           n == r.num_mapped
<1>1. /\ r.step = "map" /\ n = Len(new) /\ mapping' = mapping
      /\ access' = Grant(va, size, {device_} \union r.peers) \/ access' = access
      /\ remap' = [remap EXCEPT ![t] = NoOp]
      /\ UNCHANGED <<mu_, live, peer_devices_, call, reserved, taken, peer_vars, remapped>>
  BY DEF RemapAccess, RemapStep, RemapReturn
<1>2. t \in Remaps
  BY <1>1, NoOpIdle DEF Remaps
<1>3. /\ RemapRecord(r) /\ RemapShape(mapping, r)
      /\ new \in Seq(Sized) /\ r.offset \in Nat /\ n \in Nat /\ r.peers \subseteq Peers
      /\ va \in DOMAIN reserved /\ reserved[va] = size /\ va \in Nat /\ size \in Nat \ {0}
      /\ va \in remapped /\ LiveOK(mapping, remapped, alloc_blocks[va], va, size)
  BY <1>1, <1>2, RemapFacts DEF RemapRecord
<1>4. /\ r.offset = MappedBytes(mapping, va, size)
      /\ r.offset + HandleSizes(Rest(new, n)) = size
  BY <1>1, <1>3 DEF RemapShape, Rest
<1>5. va = remap[t].va /\ size = remap[t].size
  OBVIOUS
<1> HIDE DEF r, va, size, new, n
<1>6. MappedBytes(mapping', va, size) = size
  <2>1. n \in 0..Len(new) /\ Len(new) \in Nat
    BY <1>1, <1>3
  <2>2. HandleSizes(Rest(new, n)) = 0
    BY <1>1, <1>3, <2>1, RestSteps
  <2>q. QED BY <1>1, <1>3, <1>4, <2>2
<1>7. /\ DOMAIN access' = DOMAIN mapping /\ DOMAIN access = DOMAIN mapping
      /\ \A w \in DOMAIN mapping : \/ access'[w] = access[w]
                                   \/ /\ w \in MappedIn(mapping, va, size)
                                      /\ access'[w] = {device_} \union r.peers
  <2>1. Within(va, size) = MappedIn(mapping, va, size)
    BY <1>3, WithinIs
  <2>q. QED BY <1>1, <2>1, MappingFacts DEF Grant
<1>8. LargeInv'
  <2>1. /\ DOMAIN access' = DOMAIN mapping'
        /\ \A w \in DOMAIN mapping' : /\ mapping'[w] \in Sized
                                      /\ access'[w] \subseteq {device_} \union Peers
    BY <1>1, <1>3, <1>7 DEF Layout, LargeInv, TypeOK, Sized
  <2>q. QED BY <1>1, <2>1, RemapLarge DEF Layout
<1>9. Places'
  BY <1>1 DEF Layout, Places
<1>10. /\ remapped \subseteq remapped' /\ remapped' \subseteq remapped \union {va} /\ va \in remapped'
       /\ \A u \in DOMAIN reserved : u # va => Same(mapping, mapping', u, reserved[u])
       /\ \A w \in DOMAIN mapping' : At(mapping, w, mapping'[w])
       /\ \A w \in DOMAIN mapping : w \in DOMAIN mapping' =>
            access'[w] = access[w] \/ w \in MappedIn(mapping, va, size)
       /\ LiveOK(mapping', remapped', alloc_blocks[va], va, size)
       /\ remap' = [remap EXCEPT ![t] = NoOp]
       /\ UNCHANGED <<mu_, live, peer_devices_, call, reserved, taken, peer_vars>>
       /\ MAInv /\ t \in Remaps
  BY <1>1, <1>2, <1>3, <1>7 DEF At, Same
<1>q. QED BY <1>5, <1>6, <1>8, <1>9, <1>10, RemapProgress

-----------------------------------------------------------------------------
LEMMA WholeChain ==
  ASSUME NEW s \in Seq(Handles), NEW va, Chain(mapping, s, Len(s), va)
  PROVE  \A i \in 1..Len(s) : \E w \in DOMAIN mapping : mapping[w] = s[i]
<1> DEFINE n == Len(s)
<1>1. n \in Nat /\ Chain(mapping, s, n, va)
  OBVIOUS
<1> HIDE DEF n
<1>2. \A i \in 1..n : \E w \in DOMAIN mapping : mapping[w] = s[i]
  BY <1>1, AllMapped
<1>q. QED BY <1>2 DEF n

LEMMA InitAccess == MAInit => MAInv
<1> SUFFICES ASSUME MAInit PROVE MAInv OBVIOUS
<1>1. /\ LargeInv /\ Init /\ registered = {} /\ remapped = {}
      /\ enable = [t \in Threads |-> NoOp] /\ remap = [t \in Threads |-> NoOp]
  BY InitLarge DEF MAInit
<1>2. /\ DOMAIN allocs_ = {} /\ DOMAIN reserved = {} /\ DOMAIN mapping = {} /\ Calls = {}
      /\ \A t \in Threads : /\ call[t].size = 0 /\ call[t].offset = 0
                            /\ call[t].num_mapped = 0 /\ call[t].todo = <<>>
  BY <1>1 DEF Init, EmptyMap, Calls, InStep, NoCall, Begin
<1>3. Remaps = {} /\ \A t \in Threads : enable[t] = NoOp
  BY <1>1 DEF Remaps
<1>4. Operations
  BY <1>1, <1>2, <1>3 DEF Operations
<1>5. Homesteads
  <2>1. <<>> \in Seq(BlockClasses) /\ 0 \in Nat
    OBVIOUS
  <2>q. QED BY <1>2, <2>1 DEF Homesteads, PairwiseDisjoint
<1>6. Places
  BY <1>2, FS_EmptySet DEF Places
<1>7. Contents
  BY <1>1, <1>2, <1>3 DEF Contents, CallsOK, LivesOK, RemapsOK, Settled
<1>8. Registering /\ Reached
  BY <1>1, <1>2, <1>3 DEF Registering, Reached
<1>q. QED BY <1>1, <1>4, <1>5, <1>6, <1>7, <1>8 DEF MAInv, Layout

LEMMA NextAccess == MAInv /\ [MANext]_all_vars => MAInv'
<1> SUFFICES ASSUME MAInv, [MANext]_all_vars PROVE MAInv' OBVIOUS
<1>1. CASE UNCHANGED all_vars
  <2>1. UNCHANGED vars /\ UNCHANGED peer_vars /\ UNCHANGED remap_vars
    BY <1>1 DEF all_vars
  <2>2. LargeInv'
    BY <2>1, NextLarge DEF MAInv, Layout
  <2>3. Operations' /\ Homesteads' /\ Places' /\ Contents'
    BY <2>1, ContentsKept DEF MAInv, vars, driver, remap_vars
  <2>4. Registering'
    BY <2>1 DEF MAInv, Registering, peer_vars, vars
  <2>5. Reached'
    <3>1. /\ allocs_' = allocs_ /\ remapped' = remapped /\ mapping' = mapping /\ access' = access
          /\ peer_devices_' = peer_devices_ /\ refused' = refused
      BY <2>1 DEF vars, live, driver, peer_vars, remap_vars
    <3>q. QED BY <3>1 DEF MAInv, Reached
  <2>q. QED BY <2>2, <2>3, <2>4, <2>5 DEF MAInv, Layout
<1>2. ASSUME NEW t \in Threads, LargeStep(t) PROVE MAInv'
  BY <1>2, LargeStepAccess
<1>3. ASSUME NEW t \in Threads, NEW dev \in Peers, EnableRegister(t, dev) PROVE MAInv'
  BY <1>3, EnableRegisterAccess
<1>4. ASSUME NEW t \in Threads, EnableSmall(t) PROVE MAInv'
  BY <1>4, EnableSmallAccess
<1>5. ASSUME NEW t \in Threads, EnableLarge(t) PROVE MAInv'
  BY <1>5, EnableLargeAccess
<1>6. ASSUME NEW t \in Threads, NEW va \in DOMAIN allocs_, NEW new \in RemapArgs,
             NEW peers \in {{}, peer_devices_}, RemapBegin(t, va, new, peers)
      PROVE  MAInv'
  BY <1>6, RemapBeginAccess
<1>7. ASSUME NEW t \in Threads, RemapUnmap(t) PROVE MAInv'
  BY <1>7, RemapUnmapAccess
<1>8. ASSUME NEW t \in Threads, RemapMap(t) PROVE MAInv'
  BY <1>8, RemapMapAccess
<1>9. ASSUME NEW t \in Threads, RemapRollback(t) PROVE MAInv'
  BY <1>9, RemapRollbackAccess
<1>10. ASSUME NEW t \in Threads, RemapAccess(t) PROVE MAInv'
  BY <1>10, RemapAccessAccess
<1>q. QED BY <1>1, <1>2, <1>3, <1>4, <1>5, <1>6, <1>7, <1>8, <1>9, <1>10 DEF MANext

LEMMA AccessHolds == MASpec => []MAInv
<1>1. MAInit => MAInv
  BY InitAccess
<1>2. MAInv /\ [MANext]_all_vars => MAInv'
  BY NextAccess
<1>q. QED BY <1>1, <1>2, PTL DEF MASpec

(* vmmRemap changes mappings without the allocators' knowledge, at any     *)
(* moment of their calls and of its own failures.  Still no block or       *)
(* handle is ever reached through two addresses, and a block that          *)
(* PhysicalMemoryManager may hand out again is mapped nowhere.             *)
THEOREM NoStaleRemapHolds == MASpec => []NoStaleRemap
<1>1. MAInv => NoStaleRemap
  BY DEF MAInv, Layout, Places, NoStaleRemap, IsInjective, Range
<1>q. QED BY <1>1, AccessHolds, PTL

(* Between two vmmRemaps a live range is backed by all of its own blocks,  *)
(* by handles of the program that fill it, or, where a vmmRemap threw half *)
(* way, by nothing at all: the exception handler undoes exactly what was   *)
(* mapped (substitution.cc:67-80).                                         *)
THEOREM RemapNeverMixedHolds == MASpec => []RemapNeverMixed
<1>1. ASSUME MAInv, NEW va \in DOMAIN allocs_ \ Remapping
      PROVE  LET backing == {mapping[w] : w \in Within(va, allocs_[va])}
             IN \/ va \in remapped /\ backing = {}
                \/ va \in remapped /\ backing \subseteq Foreign /\ FullyMapped(va, allocs_[va])
                \/ va \notin remapped /\ backing = LiveHolds(va) /\ FullyMapped(va, allocs_[va])
  <2> USE DEF MAInv
  <2> DEFINE size == allocs_[va]
             s == alloc_blocks[va]
             backing == {mapping[w] : w \in Within(va, size)}
  <2>1. va \in DOMAIN reserved /\ reserved[va] = size /\ s \in Seq(Handles)
    BY <1>1 DEF Layout, LargeInv, TypeOK, Homes, Homesteads
  <2>2. Within(va, size) = MappedIn(mapping, va, size)
    BY <1>1, <2>1, WithinIs
  <2>3. LiveOK(mapping, remapped, s, va, size)
    BY <1>1 DEF Contents, LivesOK
  <2>4. MappedBytes(mapping, va, size) = size => FullyMapped(va, size)
    BY <2>2 DEF FullyMapped, MappedBytes, MappedIn
  <2> HIDE DEF size, s
  <2>5. CASE va \in remapped
    <3>1. MappedIn(mapping, va, size) = {} \/ MappedBytes(mapping, va, size) = size
      BY <1>1, <2>5 DEF Contents, Settled, Remapping, Remaps, size
    <3>2. backing \subseteq Foreign
      BY <2>2, <2>3, <2>5 DEF LiveOK, StrippedLive, Theirs
    <3>q. QED BY <2>2, <2>4, <2>5, <3>1, <3>2 DEF size
  <2>6. CASE va \notin remapped
    <3>1. /\ Only(mapping, s, va, size) /\ Chain(mapping, s, Len(s), va)
          /\ MappedBytes(mapping, va, size) = size
      BY <2>3, <2>6 DEF LiveOK, OwnLive
    <3>2. Len(s) \in Nat /\ DOMAIN s = 1..Len(s)
      BY <2>1
    <3>3. \A i \in 1..Len(s) : \E w \in DOMAIN mapping : mapping[w] = s[i]
      BY <2>1, <3>1, WholeChain
    <3>4. Range(s) \subseteq backing
      <4>1. ASSUME NEW i \in 1..Len(s) PROVE s[i] \in backing
        <5>1. PICK w \in DOMAIN mapping : mapping[w] = s[i]
          BY <3>3, <4>1
        <5>2. mapping[w] \in Range(s)
          BY <3>2, <4>1, <5>1 DEF Range
        <5>q. QED BY <2>2, <3>1, <5>1, <5>2 DEF Only
      <4>q. QED BY <3>2, <4>1 DEF Range
    <3>5. backing \subseteq Range(s)
      BY <2>2, <3>1 DEF Only, MappedIn
    <3>6. backing = LiveHolds(va)
      BY <3>4, <3>5 DEF LiveHolds, s
    <3>q. QED BY <2>4, <2>6, <3>1, <3>6 DEF size
  <2>q. QED BY <2>5, <2>6
<1>2. MAInv => RemapNeverMixed
  BY <1>1 DEF RemapNeverMixed
<1>q. QED BY <1>2, AccessHolds, PTL

(* enablePeerAccess registers the peer, then opens the memory of both      *)
(* sub-allocators without holding peers_mu: once it has returned, all that *)
(* was handed out before, meanwhile or since is open to the peer, except   *)
(* what vmmRemap mapped anew (vmm_allocator.cc, "existing and future").    *)
THEOREM PeerReachedHolds == MASpec => []PeerReached
<1>1. ASSUME MAInv, NEW dev \in registered \ refused,
             ~ \E t \in Threads : enable[t] # NoOp /\ enable[t].dev = dev
      PROVE  /\ dev \in small_peers
             /\ \A va \in DOMAIN allocs_ \ remapped : \A w \in Within(va, allocs_[va]) :
                  dev \in access[w]
  <2>1. dev \in small_peers /\ dev \in peer_devices_
    BY <1>1 DEF MAInv, Registering
  <2>2. ASSUME NEW va \in DOMAIN allocs_ \ remapped, NEW w \in Within(va, allocs_[va])
        PROVE  dev \in access[w]
    <3>1. va \in DOMAIN reserved /\ reserved[va] = allocs_[va] /\ Layout
      BY <1>1 DEF MAInv, Layout, LargeInv, Homes, Homesteads
    <3>2. w \in MappedIn(mapping, va, allocs_[va])
      BY <3>1, WithinIs
    <3>q. QED BY <1>1, <2>1, <3>2 DEF MAInv, Reached
  <2>q. QED BY <2>1, <2>2
<1>2. MAInv => PeerReached
  BY <1>1 DEF PeerReached
<1>q. QED BY <1>2, AccessHolds, PTL
=============================================================================
