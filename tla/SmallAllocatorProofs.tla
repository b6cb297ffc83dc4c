------------------------- MODULE SmallAllocatorProofs -------------------------
(***************************************************************************)
(* Proofs about SmallAllocator for every granule, page size, number of     *)
(* pages, request size, set of peers, supply of blocks and set of faults.  *)
(***************************************************************************)
EXTENDS SmallAllocator, TotalsProofs

-----------------------------------------------------------------------------
(* Arithmetic *)

LEMMA RoundUp ==
  ASSUME NEW n \in Nat \ {0}, NEW align \in Nat \ {0}
  PROVE  roundUp(n, align) \in Nat \ {0} /\ roundUp(n, align) >= n
<1> DEFINE x == n + align - 1
<1>1. x \in Int
  OBVIOUS
<1>2. x % align \in 0..(align - 1)
  <2> HIDE DEF x
  <2>q. QED BY <1>1
<1> DEFINE r == x % align
<1>3. r \in Nat /\ r <= align - 1
  <2> HIDE DEF x
  <2>q. QED BY <1>2
<1>4. roundUp(n, align) = x - r
  BY DEF roundUp
<1>q. QED
  <2> HIDE DEF r
  <2>q. QED BY <1>3, <1>4

LEMMA PageIsNotEmpty ==
  ASSUME NEW p \in Nat
  PROVE  /\ p * kSmallBlockSize \in Nat /\ (p + 1) * kSmallBlockSize \in Nat
         /\ p * kSmallBlockSize < (p + 1) * kSmallBlockSize
  BY SizeAssumption

LEMMA SpaceSize == va_size_ \in Nat
  BY SizeAssumption DEF va_size_

-----------------------------------------------------------------------------
(* NoOverlap *)

RangesOK(f) == \A va \in DOMAIN f : va \in Nat /\ f[va] \in Nat /\ f[va] > 0

(* NoOverlap with the types of the ranges and the end of the reservation. *)
BookInv ==
  /\ high_water_ \in Nat /\ high_water_ <= va_size_
  /\ RangesOK(free_) /\ RangesOK(allocated_)
  /\ NoOverlap

LEMMA TakeFreeRanges ==
  ASSUME RangesOK(free_), NEW va \in DOMAIN free_, NEW size \in Nat \ {0},
         free_[va] >= size
  PROVE  \A w \in DOMAIN TakeFree(va, size) :
           \/ w \in DOMAIN free_ /\ w # va /\ TakeFree(va, size)[w] = free_[w]
           \/ /\ w = va + size /\ free_[va] > size
              /\ TakeFree(va, size)[w] = free_[va] - size
  BY DEF TakeFree, RemoveRange, AddRange

LEMMA AddRangeAt ==
  ASSUME NEW f, NEW va, NEW size
  PROVE  \A w \in DOMAIN AddRange(f, va, size) :
           \/ w = va /\ AddRange(f, va, size)[w] = size
           \/ w \in DOMAIN f /\ w # va /\ AddRange(f, va, size)[w] = f[w]
  BY DEF AddRange

LEMMA allocateBook ==
  ASSUME BookInv, NEW request \in Requests, allocate(request)
  PROVE  BookInv'
<1> DEFINE size == roundUp(request, kMinBlockAlign)
<1>1. size \in Nat \ {0}
  BY RoundUp, SizeAssumption
<1>2. ASSUME NEW va \in BestFits(size), free_' = TakeFree(va, size),
             UNCHANGED high_water_,
             allocated_' = AddRange(allocated_, va, size) \/ UNCHANGED allocated_
      PROVE  BookInv'
  <2>1. va \in DOMAIN free_ /\ free_[va] >= size
    BY DEF BestFits
  <2>2. \A w \in DOMAIN free_' :
          \/ w \in DOMAIN free_ /\ w # va /\ free_'[w] = free_[w]
          \/ w = va + size /\ free_[va] > size /\ free_'[w] = free_[va] - size
    BY <1>1, <1>2, <2>1, TakeFreeRanges DEF BookInv
  <2>3. \A w \in DOMAIN allocated_' :
          \/ w = va /\ allocated_'[w] = size
          \/ w \in DOMAIN allocated_ /\ allocated_'[w] = allocated_[w]
    BY <1>2, AddRangeAt
  <2> HIDE DEF size
  <2>4. RangesOK(free_') /\ RangesOK(allocated_')
    BY <1>1, <2>1, <2>2, <2>3 DEF RangesOK, BookInv
  <2>5. NoOverlap'
    BY <1>1, <1>2, <2>1, <2>2, <2>3
       DEF BookInv, RangesOK, NoOverlap, PairwiseDisjoint, Disjoint
  <2>q. QED BY <1>2, <2>4, <2>5, SpaceSize DEF BookInv, va_size_, RangesOK
<1>3. ASSUME high_water_ + size <= va_size_, high_water_' = high_water_ + size,
             UNCHANGED free_,
             \/ allocated_' = AddRange(allocated_, high_water_, size)
             \/ UNCHANGED allocated_
      PROVE  BookInv'
  <2>1. \A w \in DOMAIN allocated_' :
          \/ w = high_water_ /\ allocated_'[w] = size
          \/ w \in DOMAIN allocated_ /\ allocated_'[w] = allocated_[w]
    BY <1>3, AddRangeAt
  <2> HIDE DEF size
  <2>2. NoOverlap' /\ RangesOK(allocated_')
    BY <1>1, <1>3, <2>1
       DEF BookInv, RangesOK, NoOverlap, PairwiseDisjoint, Disjoint
  <2>q. QED BY <1>1, <1>3, <2>2 DEF BookInv, va_size_, RangesOK
<1>q. QED BY <1>2, <1>3 DEF allocate, Commit

LEMMA freeBook ==
  ASSUME BookInv, NEW va \in DOMAIN allocated_, free(va)
  PROVE  BookInv'
<1> DEFINE size == allocated_[va]
           end == va + size
           right == size + (IF end \in DOMAIN free_ THEN free_[end] ELSE 0)
<1>1. va \in Nat /\ size \in Nat /\ size > 0 /\ right \in Nat /\ right >= size
  BY DEF BookInv, RangesOK
<1>2. \A w \in DOMAIN allocated_' :
        w \in DOMAIN allocated_ /\ w # va /\ allocated_'[w] = allocated_[w]
  BY DEF free, RemoveRange
<1>3. UNCHANGED high_water_
  BY DEF free
<1>4. \/ right = size
      \/ end \in DOMAIN free_ /\ right = size + free_[end]
  BY <1>1
<1>5. ASSUME NEW base \in Nat, NEW before \in Nat, base + before = va,
             \/ before = 0 /\ base = va
             \/ base \in DOMAIN free_ /\ before = free_[base],
             free_' = AddRange(RemoveRange(free_, end), base, before + right)
      PROVE  BookInv'
  <2>1. \A w \in DOMAIN free_' :
          \/ w = base /\ free_'[w] = before + right
          \/ w \in DOMAIN free_ /\ w # end /\ w # base /\ free_'[w] = free_[w]
    BY <1>5, AddRangeAt DEF RemoveRange
  <2>2. end = va + allocated_[va] /\ size = allocated_[va]
    OBVIOUS
  <2> HIDE DEF size, end, right
  <2>3. RangesOK(free_') /\ RangesOK(allocated_')
    BY <1>1, <1>2, <1>5, <2>1 DEF BookInv, RangesOK
  <2>4. PairwiseDisjoint(allocated_')
    BY <1>2 DEF BookInv, NoOverlap, PairwiseDisjoint
  <2>5. \A w \in DOMAIN free_ :
          w # end /\ w # base => Disjoint(base, before + right, w, free_[w])
    BY <1>1, <1>4, <1>5, <2>2 DEF BookInv, RangesOK, NoOverlap, PairwiseDisjoint, Disjoint
  <2>6. PairwiseDisjoint(free_')
    BY <1>1, <1>5, <2>1, <2>5 DEF BookInv, RangesOK, NoOverlap, PairwiseDisjoint, Disjoint
  <2>7. \A w \in DOMAIN allocated_ :
          w # va => Disjoint(w, allocated_[w], base, before + right)
    BY <1>1, <1>4, <1>5, <2>2 DEF BookInv, RangesOK, NoOverlap, PairwiseDisjoint, Disjoint
  <2>8. base + (before + right) <= high_water_
    BY <1>1, <1>4, <1>5, <2>2 DEF BookInv, RangesOK, NoOverlap
  <2>9. NoOverlap'
    BY <1>2, <1>3, <2>1, <2>4, <2>6, <2>7, <2>8 DEF BookInv, NoOverlap
  <2>q. QED BY <1>3, <2>3, <2>9 DEF BookInv, va_size_, RangesOK
<1>6. CASE free_' = AddRange(RemoveRange(free_, end), va, right)
  <2> HIDE DEF size, end, right
  <2>1. va + 0 = va /\ 0 + right = right
    BY <1>1
  <2>2. free_' = AddRange(RemoveRange(free_, end), va, 0 + right)
    BY <1>6, <2>1
  <2>q. QED BY <1>1, <1>5, <2>1, <2>2
<1>7. ASSUME NEW w \in DOMAIN free_, w + free_[w] = va,
             free_' = AddRange(RemoveRange(free_, end), w, free_[w] + right)
      PROVE  BookInv'
  <2>1. w \in Nat /\ free_[w] \in Nat
    BY DEF BookInv, RangesOK
  <2> HIDE DEF size, end, right
  <2>q. QED BY <1>5, <1>7, <2>1
<1>q. QED BY <1>6, <1>7 DEF free, coalesce

LEMMA InitBook == Init => BookInv
  BY SpaceSize DEF Init, BookInv, RangesOK, NoOverlap, PairwiseDisjoint, NoRange

LEMMA NextBook == BookInv /\ [Next]_vars => BookInv'
<1> SUFFICES ASSUME BookInv, [Next]_vars PROVE BookInv' OBVIOUS
<1>1. ASSUME NEW request \in Requests, allocate(request) PROVE BookInv'
  BY <1>1, allocateBook
<1>2. ASSUME NEW va \in DOMAIN allocated_, free(va) PROVE BookInv'
  BY <1>2, freeBook
<1>3. CASE UNCHANGED book
  BY <1>3 DEF book, BookInv, NoOverlap
<1>4. CASE emptyCache
  BY <1>3, <1>4 DEF emptyCache
<1>5. ASSUME NEW peer \in Peers, addPeerDevice(peer) PROVE BookInv'
  BY <1>3, <1>5 DEF addPeerDevice
<1>6. CASE UNCHANGED vars
  BY <1>3, <1>6 DEF vars
<1>q. QED BY <1>1, <1>2, <1>4, <1>5, <1>6 DEF Next

(* Splitting, best fit, merging and bumping never give out or free a byte  *)
(* twice, for any sizes, and whatever fails while pages are mapped.        *)
THEOREM NoOverlapHolds == Spec => []NoOverlap
<1>1. BookInv => NoOverlap
  BY DEF BookInv
<1>q. QED BY <1>1, InitBook, NextBook, PTL DEF Spec

-----------------------------------------------------------------------------
(* MappedWhileLive *)

(* A page under a live range has a byte that lies in no free range.        *)
LEMMA LivePageNotFree ==
  ASSUME BookInv, NEW va \in DOMAIN allocated_, NEW p \in TouchedPages(va, allocated_[va])
  PROVE  ~ EntirelyFree(p)
<1> DEFINE start == p * kSmallBlockSize
           end == (p + 1) * kSmallBlockSize
           x == IF va <= start THEN start ELSE va
<1>1. p \in Nat
  <2>1. num_pages_ - 1 \in Int
    BY SizeAssumption
  <2>q. QED BY <2>1 DEF TouchedPages, Pages
<1>2. start \in Nat /\ end \in Nat /\ start < end
  BY <1>1, PageIsNotEmpty
<1>3. start < va + allocated_[va] /\ va < end
  BY DEF TouchedPages, Touches
<1>4. va \in Nat /\ allocated_[va] \in Nat /\ allocated_[va] > 0
  BY DEF BookInv, RangesOK
<1>5. EntirelyFree(p) => \A y \in start..(end - 1) :
                           \E w \in DOMAIN free_ : w <= y /\ y < w + free_[w]
  BY DEF EntirelyFree
<1> HIDE DEF start, end
<1>6. x \in start..(end - 1) /\ va <= x /\ x < va + allocated_[va]
  <2>1. CASE va <= start
    BY <1>2, <1>3, <1>4, <2>1
  <2>2. CASE ~ va <= start
    BY <1>2, <1>3, <1>4, <2>2
  <2>q. QED BY <2>1, <2>2
<1>7. \A w \in DOMAIN free_ : ~ (w <= x /\ x < w + free_[w])
  BY <1>4, <1>6 DEF BookInv, RangesOK, NoOverlap, Disjoint
<1> HIDE DEF x
<1>q. QED BY <1>5, <1>6, <1>7

PagesOK ==
  /\ page_mapped_ \subseteq Pages /\ backed \subseteq Pages
  /\ access \in [Pages -> SUBSET ({device_} \union Peers)]

LEMMA MapPagesEffect ==
  ASSUME PagesOK, MappedWhileLive, NEW done, done \subseteq Pages, NEW leaked, NEW dangling,
         dangling \subseteq Pages, MapPages(done, leaked, dangling), peer_devices_ \subseteq Peers
  PROVE  /\ PagesOK'
         /\ page_mapped_' = page_mapped_ \union done
         /\ page_mapped_' \subseteq backed'
         /\ \A p \in page_mapped_' : device_ \in access'[p]
  BY DEF PagesOK, MappedWhileLive, MapPages

LEMMA ensureEffect ==
  ASSUME PagesOK, MappedWhileLive, peer_devices_ \subseteq Peers,
         NEW va, NEW size, NEW ok \in BOOLEAN, ensurePagesMapped(va, size, ok)
  PROVE  /\ PagesOK'
         /\ page_mapped_ \subseteq page_mapped_'
         /\ page_mapped_' \subseteq backed'
         /\ \A p \in page_mapped_' : device_ \in access'[p]
         /\ ok => TouchedPages(va, size) \subseteq page_mapped_'
<1> DEFINE missing == TouchedPages(va, size) \ page_mapped_
<1>1. missing \subseteq Pages
  BY DEF TouchedPages
<1>2. CASE ok
  <2>1. MapPages(missing, 0, {})
    BY <1>2 DEF ensurePagesMapped
  <2> HIDE DEF missing
  <2>2. /\ PagesOK' /\ page_mapped_' = page_mapped_ \union missing
        /\ page_mapped_' \subseteq backed'
        /\ \A p \in page_mapped_' : device_ \in access'[p]
    BY <1>1, <2>1, MapPagesEffect
  <2>q. QED BY <2>2 DEF missing
<1>3. CASE ~ ok
  <2>1. PICK done \in SUBSET missing : \E leaked : \E dangling \in SUBSET missing :
          MapPages(done, leaked, dangling)
    BY <1>3 DEF ensurePagesMapped
  <2>2. PICK leaked : \E dangling \in SUBSET missing : MapPages(done, leaked, dangling)
    BY <2>1
  <2>3. PICK dangling \in SUBSET missing : MapPages(done, leaked, dangling)
    BY <2>2
  <2>4. done \subseteq Pages /\ dangling \subseteq Pages
    BY <1>1
  <2>q. QED BY <1>3, <2>3, <2>4, MapPagesEffect
<1>q. QED BY <1>2, <1>3

(* What is inductive: a live range is on mapped pages because no page that *)
(* emptyCache takes has a byte of a live range (NoOverlap).                *)
PeersOK ==
  peer_devices_ \subseteq Peers /\ opened \subseteq peer_devices_ /\ flushed \in BOOLEAN

MapInv == BookInv /\ PagesOK /\ PeersOK /\ MappedWhileLive

LEMMA InitMap == Init => MapInv
<1> SUFFICES ASSUME Init PROVE MapInv OBVIOUS
<1>1. PagesOK /\ PeersOK
  BY DEF Init, PagesOK, PeersOK
<1>2. MappedWhileLive
  BY DEF Init, MappedWhileLive, NoRange
<1>q. QED BY <1>1, <1>2, InitBook DEF MapInv

LEMMA allocateMap ==
  ASSUME MapInv, NEW request \in Requests, allocate(request)
  PROVE  PagesOK' /\ MappedWhileLive' /\ PeersOK'
<1> USE DEF MapInv
<1>1. PeersOK'
  BY DEF allocate, peers, PeersOK
<1>2. PICK va, size : Commit(va, size)
  BY DEF allocate
<1>3. PICK ok \in BOOLEAN :
        /\ ensurePagesMapped(va, size, ok)
        /\ \/ ok /\ allocated_' = AddRange(allocated_, va, size)
           \/ UNCHANGED allocated_
  BY <1>2 DEF Commit
<1>4. /\ PagesOK'
      /\ page_mapped_ \subseteq page_mapped_'
      /\ page_mapped_' \subseteq backed'
      /\ \A p \in page_mapped_' : device_ \in access'[p]
      /\ ok => TouchedPages(va, size) \subseteq page_mapped_'
  BY <1>3, ensureEffect DEF PeersOK
<1>5. \A w \in DOMAIN allocated_' :
        \/ ok /\ w = va /\ allocated_'[w] = size
        \/ w \in DOMAIN allocated_ /\ allocated_'[w] = allocated_[w]
  BY <1>3, AddRangeAt
<1>6. \A w \in DOMAIN allocated_ : TouchedPages(w, allocated_[w]) \subseteq page_mapped_
  BY DEF MappedWhileLive
<1>7. \A w \in DOMAIN allocated_' : TouchedPages(w, allocated_'[w]) \subseteq page_mapped_'
  BY <1>4, <1>5, <1>6
<1>q. QED BY <1>1, <1>4, <1>7 DEF MappedWhileLive, TouchedPages, Pages

LEMMA emptyCacheMap ==
  ASSUME MapInv, emptyCache
  PROVE  PagesOK' /\ MappedWhileLive'
<1> USE DEF MapInv
<1> DEFINE unmapped == {p \in page_mapped_ : EntirelyFree(p)}
<1>1. /\ page_mapped_' = page_mapped_ \ unmapped
      /\ backed' = backed \ unmapped
      /\ access' = [p \in Pages |-> IF p \in unmapped THEN {} ELSE access[p]]
      /\ UNCHANGED allocated_
  BY DEF emptyCache, book
<1>2. \A va \in DOMAIN allocated_ : \A p \in TouchedPages(va, allocated_[va]) :
        p \in page_mapped_ /\ p \notin unmapped
  BY LivePageNotFree DEF MappedWhileLive
<1> HIDE DEF unmapped
<1>3. PagesOK'
  BY <1>1 DEF PagesOK
<1>4. page_mapped_' \subseteq backed'
  BY <1>1 DEF MappedWhileLive
<1>5. \A p \in page_mapped_' : device_ \in access'[p]
  BY <1>1 DEF MappedWhileLive, PagesOK
<1>6. \A va \in DOMAIN allocated_' : TouchedPages(va, allocated_'[va]) \subseteq page_mapped_'
  BY <1>1, <1>2
<1>q. QED BY <1>3, <1>4, <1>5, <1>6 DEF MappedWhileLive, TouchedPages, Pages

LEMMA NextMap == MapInv /\ [Next]_vars => MapInv'
<1> SUFFICES ASSUME MapInv, [Next]_vars PROVE MapInv' OBVIOUS
<1> USE DEF MapInv
<1>b. BookInv'
  BY NextBook
<1>1. ASSUME NEW request \in Requests, allocate(request) PROVE MapInv'
  BY <1>b, <1>1, allocateMap
<1>2. ASSUME NEW va \in DOMAIN allocated_, free(va) PROVE MapInv'
  <2>1. \A w \in DOMAIN allocated_' : w \in DOMAIN allocated_ /\ allocated_'[w] = allocated_[w]
    BY <1>2 DEF free, RemoveRange
  <2>2. UNCHANGED <<page_mapped_, backed, access>> /\ PeersOK'
    BY <1>2 DEF free, pages, peers, PeersOK
  <2>q. QED BY <1>b, <2>1, <2>2 DEF MappedWhileLive, PagesOK, TouchedPages, Pages
<1>3. CASE emptyCache
  <2>1. PeersOK'
    BY <1>3 DEF emptyCache, peers, PeersOK
  <2>q. QED BY <1>b, <1>3, <2>1, emptyCacheMap
<1>4. ASSUME NEW peer \in Peers, addPeerDevice(peer) PROVE MapInv'
  <2>1. UNCHANGED <<allocated_, page_mapped_, backed>>
    BY <1>4 DEF addPeerDevice, book
  <2>2. PeersOK'
    BY <1>4 DEF addPeerDevice, PeersOK
  <2>3. PagesOK' /\ \A p \in Pages : access[p] \subseteq access'[p]
    <3>1. CASE UNCHANGED access
      BY <2>1, <3>1 DEF PagesOK
    <3>2. CASE peer \notin peer_devices_
      BY <1>4, <2>1, <3>2 DEF addPeerDevice, PagesOK
    <3>q. QED BY <1>4, <3>1, <3>2 DEF addPeerDevice
  <2>q. QED BY <1>b, <2>1, <2>2, <2>3 DEF MappedWhileLive, PagesOK, TouchedPages, Pages
<1>5. CASE UNCHANGED vars
  <2>1. PeersOK'
    BY <1>5 DEF vars, peers, PeersOK
  <2>q. QED
    BY <1>b, <1>5, <2>1 DEF vars, book, pages, PagesOK, MappedWhileLive, TouchedPages, Pages
<1>q. QED BY <1>1, <1>2, <1>3, <1>4, <1>5 DEF Next

(* Every page under a live range is mapped, backed and open to the device: *)
(* emptyCache takes no page from a live range, and an allocation is handed *)
(* out only after its pages were mapped, whatever fails before.            *)
THEOREM MappedWhileLiveHolds == Spec => []MappedWhileLive
<1>1. MapInv => MappedWhileLive
  BY DEF MapInv
<1>q. QED BY <1>1, InitMap, NextMap, PTL DEF Spec

(* The ranges lie in the reservation, and pages and devices stay what they *)
(* are, whatever fails.                                                    *)
THEOREM TypeCorrect == Spec => []TypeOK
<1>1. ASSUME MapInv PROVE TypeOK
  <2>1. /\ \A va \in DOMAIN free_ : /\ va \in Nat /\ free_[va] \in Nat /\ free_[va] > 0
                                   /\ va + free_[va] <= va_size_
        /\ \A va \in DOMAIN allocated_ :
             /\ va \in Nat /\ allocated_[va] \in Nat /\ allocated_[va] > 0
             /\ va + allocated_[va] <= va_size_
    BY <1>1, SpaceSize DEF MapInv, BookInv, RangesOK, NoOverlap
  <2>q. QED BY <1>1, <2>1, SpaceSize DEF MapInv, BookInv, PagesOK, PeersOK, TypeOK
<1>q. QED BY <1>1, InitMap, NextMap, PTL DEF Spec

-----------------------------------------------------------------------------
(* SmallAllocator implements RangeAllocator *)

usable == {p \in page_mapped_ : device_ \in access[p]}

LEMMA allocateRefines ==
  ASSUME MapInv, MapInv', NEW request \in Requests, allocate(request)
  PROVE  Abstract!Next
<1> DEFINE size == roundUp(request, kMinBlockAlign)
<1>1. size \in Nat \ {0}
  BY RoundUp, SizeAssumption
<1>2. usable = page_mapped_ /\ usable' = page_mapped_'
  BY DEF MapInv, MappedWhileLive, usable
<1>3. PICK va : /\ Commit(va, size)
                /\ va \in Nat
                /\ \A w \in DOMAIN allocated_ : Disjoint(va, size, w, allocated_[w])
  <2>1. ASSUME NEW va \in BestFits(size), Commit(va, size)
        PROVE  /\ va \in Nat
               /\ \A w \in DOMAIN allocated_ : Disjoint(va, size, w, allocated_[w])
    <3>1. va \in DOMAIN free_ /\ free_[va] >= size
      BY DEF BestFits
    <3> HIDE DEF size
    <3>q. QED BY <1>1, <3>1 DEF MapInv, BookInv, RangesOK, NoOverlap, Disjoint
  <2>2. /\ high_water_ \in Nat
        /\ \A w \in DOMAIN allocated_ : Disjoint(high_water_, size, w, allocated_[w])
    <3> HIDE DEF size
    <3>q. QED BY <1>1 DEF MapInv, BookInv, RangesOK, NoOverlap, Disjoint
  <2>q. QED BY <2>1, <2>2 DEF allocate
<1>4. PICK ok \in BOOLEAN :
        /\ ensurePagesMapped(va, size, ok)
        /\ IF ok THEN allocated_' = AddRange(allocated_, va, size)
           ELSE UNCHANGED allocated_
  BY <1>3 DEF Commit
<1>5. /\ page_mapped_ \subseteq page_mapped_'
      /\ ok => TouchedPages(va, size) \subseteq page_mapped_'
  BY <1>4, ensureEffect DEF MapInv, PeersOK
<1> HIDE DEF size
<1>6. CASE ok
  <2>1. va \in DOMAIN allocated_' /\ allocated_'[va] = size
    BY <1>4, <1>6 DEF AddRange
  <2>2. va + size <= va_size_
    BY <1>1, <1>3, <2>1, SpaceSize DEF MapInv, BookInv, NoOverlap, va_size_
  <2>3. va \in 0..va_size_ /\ size \in 1..va_size_
    BY <1>1, <1>3, <2>2, SpaceSize
  <2>4. Abstract!Alloc(va, size)
    BY <1>2, <1>3, <1>4, <1>5, <1>6, <2>2
       DEF Abstract!Alloc, Abstract!Usable, Abstract!Touches, Abstract!Disjoint,
           Abstract!AddRange, AddRange, Disjoint, Touches, TouchedPages, usable
  <2>q. QED BY <2>3, <2>4 DEF Abstract!Next
<1>7. CASE ~ ok
  BY <1>2, <1>4, <1>5, <1>7 DEF Abstract!Next, Abstract!AddPages, usable
<1>q. QED BY <1>6, <1>7

LEMMA NextRefines ==
  ASSUME MapInv, MapInv', [Next]_vars
  PROVE  [Abstract!Next]_(Abstract!vars)
<1>u. usable = page_mapped_ /\ usable' = page_mapped_'
  BY DEF MapInv, MappedWhileLive, usable
<1>1. ASSUME NEW request \in Requests, allocate(request) PROVE Abstract!Next
  BY <1>1, allocateRefines
<1>2. ASSUME NEW va \in DOMAIN allocated_, free(va) PROVE Abstract!Next
  BY <1>2
     DEF free, pages, RemoveRange, Abstract!Next, Abstract!Free, Abstract!RemoveRange
<1>3. CASE emptyCache
  <2>1. UNCHANGED allocated_ /\ page_mapped_' \subseteq page_mapped_
    BY <1>3 DEF emptyCache, book
  <2>2. \A va \in DOMAIN allocated_ : TouchedPages(va, allocated_[va]) \subseteq page_mapped_'
    BY <2>1 DEF MapInv, MappedWhileLive, TouchedPages, Pages
  <2>q. QED
    BY <1>u, <2>1, <2>2
       DEF Abstract!Next, Abstract!DropPages, Abstract!Usable, Abstract!Touches,
           Touches, TouchedPages, usable
<1>4. ASSUME NEW peer \in Peers, addPeerDevice(peer) PROVE Abstract!Next
  <2>1. UNCHANGED <<allocated_, page_mapped_>>
    BY <1>4 DEF addPeerDevice, book
  <2>q. QED BY <1>u, <2>1 DEF Abstract!Next, Abstract!AddPages, usable
<1>5. CASE UNCHANGED vars
  BY <1>5 DEF vars, book, pages, Abstract!vars
<1>q. QED BY <1>1, <1>2, <1>3, <1>4, <1>5 DEF Next

(* The SmallAllocator keeps the promise of a range allocator: the ranges   *)
(* handed out are disjoint, inside the reservation, and usable as long as  *)
(* they are handed out.                                                    *)
THEOREM RefinesRangeAllocator == Spec => ImplementsRangeAllocator
<1>1. Init => Abstract!Init
  BY DEF Init, Abstract!Init, NoRange
<1>q. QED
  BY <1>1, InitMap, NextMap, NextRefines, PTL DEF Spec, ImplementsRangeAllocator, Abstract!Spec

-----------------------------------------------------------------------------
(* SpaceConserved and FullyCoalesced *)

InRange(va, size, x) == va <= x /\ x < va + size
Holds(f, x) == \E va \in DOMAIN f : InRange(va, f[va], x)

(* The ranges of allocations that threw lie apart from all others. *)
LostApart ==
  /\ RangesOK(lost)
  /\ \A v \in DOMAIN lost : v + lost[v] <= high_water_
  /\ \A v \in DOMAIN lost, w \in DOMAIN free_ : Disjoint(v, lost[v], w, free_[w])
  /\ \A v \in DOMAIN lost, w \in DOMAIN allocated_ : Disjoint(v, lost[v], w, allocated_[w])

Covered ==
  \A x \in Nat : x < high_water_ => Holds(allocated_, x) \/ Holds(free_, x) \/ Holds(lost, x)

Counted ==
  /\ IsFiniteMap(free_) /\ IsFiniteMap(allocated_) /\ IsFiniteSet(DOMAIN lost)
  /\ allocated_bytes_ = Total(allocated_)

SpaceInv == LostApart /\ Covered /\ Counted /\ FullyCoalesced

AddFacts(f, g, va, size) ==
  /\ DOMAIN g = DOMAIN f \union {va} /\ g[va] = size
  /\ \A w \in DOMAIN f : w # va => g[w] = f[w]

LEMMA Adds == ASSUME NEW f, NEW va, NEW size PROVE AddFacts(f, AddRange(f, va, size), va, size)
  BY DEF AddFacts, AddRange

LEMMA HoldsAdds ==
  ASSUME NEW f, NEW g, NEW va, NEW size, AddFacts(f, g, va, size), va \notin DOMAIN f
  PROVE  /\ \A x : Holds(f, x) => Holds(g, x)
         /\ \A x : InRange(va, size, x) => Holds(g, x)
<1>1. \A w \in DOMAIN f : w \in DOMAIN g /\ g[w] = f[w]
  BY DEF AddFacts
<1>2. va \in DOMAIN g /\ g[va] = size
  BY DEF AddFacts
<1>q. QED BY <1>1, <1>2 DEF Holds

(* What allocate takes, from a free range or at the bump pointer. *)
Takes(va, size) ==
  \/ va \in BestFits(size) /\ free_' = TakeFree(va, size) /\ UNCHANGED high_water_
  \/ /\ va = high_water_ /\ high_water_' = high_water_ + size /\ high_water_' <= va_size_
     /\ UNCHANGED free_

LEMMA TakesRange ==
  ASSUME BookInv, SpaceInv, NEW va, NEW size \in Nat \ {0}, Takes(va, size)
  PROVE  /\ va \in Nat /\ va + size <= high_water_'
         /\ high_water_ <= high_water_' /\ high_water_' \in Nat
         /\ \A w \in DOMAIN allocated_ : Disjoint(va, size, w, allocated_[w])
         /\ \A w \in DOMAIN lost : Disjoint(va, size, w, lost[w])
         /\ \A w \in DOMAIN free_' : Disjoint(va, size, w, free_'[w])
         /\ \A w \in DOMAIN free_' : \E v \in DOMAIN free_ :
              w \in Nat /\ free_'[w] \in Nat \ {0} /\ v <= w /\ w + free_'[w] <= v + free_[v]
         /\ \A x \in Nat : Holds(free_, x) => Holds(free_', x) \/ InRange(va, size, x)
         /\ \A x \in Nat : x < high_water_' => x < high_water_ \/ InRange(va, size, x)
         /\ FullyCoalesced' /\ IsFiniteMap(free_')
<1> USE DEF BookInv, SpaceInv
<1>1. CASE va = high_water_ /\ high_water_' = high_water_ + size /\ UNCHANGED free_
  <2>1. /\ \A w \in DOMAIN allocated_ : w \in Nat /\ allocated_[w] \in Nat /\ w + allocated_[w] <= va
        /\ \A w \in DOMAIN lost : w \in Nat /\ lost[w] \in Nat /\ w + lost[w] <= va
        /\ \A w \in DOMAIN free_ : w \in Nat /\ free_[w] \in Nat \ {0} /\ w + free_[w] <= va
    BY <1>1 DEF NoOverlap, LostApart, RangesOK
  <2>2. va \in Nat /\ va + size = high_water_' /\ high_water_ <= high_water_'
    BY <1>1
  <2>3. \A x \in Nat : x < high_water_' => x < high_water_ \/ InRange(va, size, x)
    BY <1>1, <2>2 DEF InRange
  <2>4. FullyCoalesced' /\ IsFiniteMap(free_')
    BY <1>1 DEF FullyCoalesced, Counted
  <2>5. \A w \in DOMAIN free_' : \E v \in DOMAIN free_ :
          w \in Nat /\ free_'[w] \in Nat \ {0} /\ v <= w /\ w + free_'[w] <= v + free_[v]
    <3> SUFFICES ASSUME NEW w \in DOMAIN free_
                 PROVE  /\ w \in Nat /\ free_[w] \in Nat \ {0}
                        /\ w <= w /\ w + free_[w] <= w + free_[w]
      BY <1>1
    <3>q. QED BY <2>1
  <2>6. \A x \in Nat : Holds(free_, x) => Holds(free_', x)
    BY <1>1 DEF Holds
  <2>q. QED BY <1>1, <2>1, <2>2, <2>3, <2>4, <2>5, <2>6 DEF Disjoint
<1>2. ASSUME va \in BestFits(size), free_' = TakeFree(va, size), UNCHANGED high_water_
      PROVE  /\ va \in Nat /\ va + size <= high_water_'
             /\ high_water_ <= high_water_' /\ high_water_' \in Nat
             /\ \A w \in DOMAIN allocated_ : Disjoint(va, size, w, allocated_[w])
             /\ \A w \in DOMAIN lost : Disjoint(va, size, w, lost[w])
             /\ \A w \in DOMAIN free_' : Disjoint(va, size, w, free_'[w])
             /\ \A w \in DOMAIN free_' : \E v \in DOMAIN free_ :
                  w \in Nat /\ free_'[w] \in Nat \ {0} /\ v <= w /\ w + free_'[w] <= v + free_[v]
             /\ \A x \in Nat : Holds(free_, x) => Holds(free_', x) \/ InRange(va, size, x)
             /\ \A x \in Nat : x < high_water_' => x < high_water_ \/ InRange(va, size, x)
             /\ FullyCoalesced' /\ IsFiniteMap(free_')
  <2>1. va \in DOMAIN free_ /\ free_[va] >= size
    BY <1>2 DEF BestFits
  <2>2. \A w \in DOMAIN free_ : w \in Nat /\ free_[w] \in Nat \ {0} /\ w + free_[w] <= high_water_
    BY DEF RangesOK, NoOverlap
  <2>3. \A w \in DOMAIN free_' :
          \/ w \in DOMAIN free_ /\ w # va /\ free_'[w] = free_[w]
          \/ w = va + size /\ free_[va] > size /\ free_'[w] = free_[va] - size
    BY <1>2, <2>1, TakeFreeRanges
  <2>4. /\ \A w \in DOMAIN free_ : w # va => w \in DOMAIN free_'
        /\ free_[va] > size => va + size \in DOMAIN free_'
    BY <1>2 DEF TakeFree, RemoveRange, AddRange
  <2>5. \A w \in DOMAIN free_ : w # va => Disjoint(va, free_[va], w, free_[w])
    BY <2>1 DEF NoOverlap, PairwiseDisjoint
  <2>6. \A w \in DOMAIN free_ : w # va => w # va + size
    BY <2>1, <2>2, <2>5 DEF Disjoint, FullyCoalesced
  <2>7. /\ \A w \in DOMAIN free_ : w # va => w \in DOMAIN free_' /\ free_'[w] = free_[w]
        /\ free_[va] > size => free_'[va + size] = free_[va] - size
    BY <2>3, <2>4, <2>6
  <2>8. /\ \A w \in DOMAIN allocated_ : /\ w \in Nat /\ allocated_[w] \in Nat
                                         /\ Disjoint(va, size, w, allocated_[w])
        /\ \A w \in DOMAIN lost : Disjoint(va, size, w, lost[w])
    <3>1. \A w \in DOMAIN allocated_ : w \in Nat /\ allocated_[w] \in Nat
      BY DEF RangesOK
    <3>2. \A w \in DOMAIN lost : w \in Nat /\ lost[w] \in Nat
      BY DEF LostApart, RangesOK
    <3>3. \A w \in DOMAIN allocated_ : Disjoint(w, allocated_[w], va, free_[va])
      BY <2>1 DEF NoOverlap
    <3>4. \A w \in DOMAIN lost : Disjoint(w, lost[w], va, free_[va])
      BY <2>1 DEF LostApart
    <3>q. QED BY <2>1, <2>2, <3>1, <3>2, <3>3, <3>4 DEF Disjoint
  <2>9. \A w \in DOMAIN free_' : Disjoint(va, size, w, free_'[w])
    BY <2>1, <2>2, <2>3, <2>5 DEF Disjoint
  <2>10. \A w \in DOMAIN free_' : \E v \in DOMAIN free_ :
           w \in Nat /\ free_'[w] \in Nat \ {0} /\ v <= w /\ w + free_'[w] <= v + free_[v]
    <3> SUFFICES ASSUME NEW w \in DOMAIN free_'
                 PROVE  \E v \in DOMAIN free_ : /\ w \in Nat /\ free_'[w] \in Nat \ {0}
                                                /\ v <= w /\ w + free_'[w] <= v + free_[v]
      OBVIOUS
    <3>1. CASE w \in DOMAIN free_ /\ w # va /\ free_'[w] = free_[w]
      <4>1. w \in Nat /\ free_'[w] \in Nat \ {0} /\ w <= w /\ w + free_'[w] <= w + free_[w]
        BY <2>2, <3>1
      <4>q. QED BY <3>1, <4>1
    <3>2. CASE w = va + size /\ free_[va] > size /\ free_'[w] = free_[va] - size
      <4>1. /\ w \in Nat /\ free_'[w] \in Nat \ {0}
            /\ va <= w /\ w + free_'[w] <= va + free_[va]
        BY <2>1, <2>2, <3>2
      <4>q. QED BY <2>1, <4>1
    <3>q. QED BY <2>3, <3>1, <3>2
  <2>11. \A x \in Nat : Holds(free_, x) => Holds(free_', x) \/ InRange(va, size, x)
    <3> SUFFICES ASSUME NEW x \in Nat, NEW w \in DOMAIN free_, InRange(w, free_[w], x),
                        ~ InRange(va, size, x)
                 PROVE  Holds(free_', x)
      BY DEF Holds
    <3>1. CASE w # va
      BY <2>7, <3>1 DEF Holds
    <3>2. CASE w = va
      <4>1. InRange(va + size, free_[va] - size, x) /\ free_[va] > size
        BY <2>1, <2>2, <3>2 DEF InRange
      <4>q. QED BY <2>4, <2>7, <4>1 DEF Holds
    <3>q. QED BY <3>1, <3>2
  <2>12. FullyCoalesced'
    <3> SUFFICES ASSUME NEW v \in DOMAIN free_', NEW w \in DOMAIN free_' PROVE v + free_'[v] # w
      BY DEF FullyCoalesced
    <3>1. \A u, z \in DOMAIN free_ : u + free_[u] # z
      BY DEF FullyCoalesced
    <3>2. \A u \in DOMAIN free_ : u # va => u + free_[u] # va + size \/ ~ (free_[va] > size)
      BY <2>1, <2>2, <2>5 DEF Disjoint
    <3>3. CASE v \in DOMAIN free_ /\ v # va /\ free_'[v] = free_[v]
      BY <2>3, <3>1, <3>2, <3>3
    <3>4. CASE v = va + size /\ free_[va] > size /\ free_'[v] = free_[va] - size
      <4>1. v + free_'[v] = va + free_[va]
        BY <2>1, <2>2, <3>4
      <4>2. v \in Nat /\ free_'[v] \in Nat \ {0}
        BY <2>1, <2>2, <3>4
      <4>3. v + free_'[v] # v
        BY <4>2
      <4>q. QED BY <2>1, <2>3, <3>1, <3>4, <4>1, <4>3
    <3>q. QED BY <2>3, <3>3, <3>4
  <2>13. IsFiniteMap(free_')
    <3>1. DOMAIN free_' \subseteq DOMAIN free_ \union {va + size}
      BY <2>3
    <3>2. IsFiniteSet(DOMAIN free_ \union {va + size})
      BY FS_AddElement DEF Counted, IsFiniteMap
    <3>3. IsFiniteSet(DOMAIN free_')
      BY <3>1, <3>2, FS_Subset
    <3>q. QED BY <2>10, <3>3 DEF IsFiniteMap
  <2>14. va \in Nat /\ va + size <= high_water_' /\ high_water_' = high_water_
    BY <1>2, <2>1, <2>2
  <2>q. QED BY <2>8, <2>9, <2>10, <2>11, <2>12, <2>13, <2>14
<1>q. QED BY <1>1, <1>2 DEF Takes
LEMMA allocateSpace ==
  ASSUME BookInv, SpaceInv, NEW request \in Requests, allocate(request)
  PROVE  SpaceInv'
<1> DEFINE size == roundUp(request, kMinBlockAlign)
<1>1. size \in Nat \ {0}
  BY RoundUp, SizeAssumption
<1>2. PICK va : Takes(va, size) /\ Commit(va, size)
  BY DEF allocate, Takes
<1> HIDE DEF size
<1>3. /\ va \in Nat /\ va + size <= high_water_'
      /\ high_water_ <= high_water_' /\ high_water_' \in Nat
      /\ \A w \in DOMAIN allocated_ : Disjoint(va, size, w, allocated_[w])
      /\ \A w \in DOMAIN lost : Disjoint(va, size, w, lost[w])
      /\ \A w \in DOMAIN free_' : Disjoint(va, size, w, free_'[w])
      /\ \A w \in DOMAIN free_' : \E v \in DOMAIN free_ :
           w \in Nat /\ free_'[w] \in Nat \ {0} /\ v <= w /\ w + free_'[w] <= v + free_[v]
      /\ \A x \in Nat : Holds(free_, x) => Holds(free_', x) \/ InRange(va, size, x)
      /\ \A x \in Nat : x < high_water_' => x < high_water_ \/ InRange(va, size, x)
      /\ FullyCoalesced' /\ IsFiniteMap(free_')
  BY <1>1, <1>2, TakesRange
<1>4. /\ \A w \in DOMAIN allocated_ : w \in Nat /\ allocated_[w] \in Nat \ {0} /\ w # va
      /\ \A w \in DOMAIN lost : w \in Nat /\ lost[w] \in Nat \ {0} /\ w # va
  <2>1. /\ \A w \in DOMAIN allocated_ : w \in Nat /\ allocated_[w] \in Nat \ {0}
        /\ \A w \in DOMAIN lost : w \in Nat /\ lost[w] \in Nat \ {0}
    BY DEF BookInv, SpaceInv, LostApart, RangesOK
  <2>q. QED BY <1>1, <1>3, <2>1 DEF Disjoint
<1>5. \A v \in DOMAIN lost, w \in DOMAIN free_' : Disjoint(v, lost[v], w, free_'[w])
  <2> SUFFICES ASSUME NEW v \in DOMAIN lost, NEW w \in DOMAIN free_'
               PROVE  Disjoint(v, lost[v], w, free_'[w])
    OBVIOUS
  <2>1. PICK u \in DOMAIN free_ : /\ w \in Nat /\ free_'[w] \in Nat \ {0}
                                  /\ u <= w /\ w + free_'[w] <= u + free_[u]
    BY <1>3
  <2>2. Disjoint(v, lost[v], u, free_[u]) /\ u \in Nat /\ free_[u] \in Nat
    BY DEF BookInv, RangesOK, SpaceInv, LostApart
  <2>q. QED BY <1>4, <2>1, <2>2 DEF Disjoint
<1>6. /\ \A v \in DOMAIN lost : v + lost[v] <= high_water_'
      /\ \A v \in DOMAIN lost, w \in DOMAIN allocated_ : Disjoint(v, lost[v], w, allocated_[w])
      /\ \A x \in Nat : x < high_water_' =>
           \/ Holds(allocated_, x) \/ Holds(free_', x) \/ Holds(lost, x) \/ InRange(va, size, x)
  <2>1. high_water_ \in Nat
    BY DEF BookInv
  <2>2. \A v \in DOMAIN lost : v + lost[v] <= high_water_'
    BY <1>3, <1>4, <2>1 DEF SpaceInv, LostApart
  <2>q. QED BY <1>3, <2>2 DEF SpaceInv, LostApart, Covered
<1>7. CASE /\ allocated_' = AddRange(allocated_, va, size)
           /\ allocated_bytes_' = allocated_bytes_ + size
           /\ UNCHANGED lost
  <2>1. AddFacts(allocated_, allocated_', va, size)
    BY <1>7, Adds
  <2>2. va \notin DOMAIN allocated_
    BY <1>4
  <2>3. Counted'
    <3>1. IsFiniteMap(allocated_') /\ Total(allocated_') = Total(allocated_) + size
      BY <1>1, <2>1, <2>2, TotalAdd DEF AddFacts, SpaceInv, Counted
    <3>q. QED BY <1>3, <1>7, <3>1 DEF SpaceInv, Counted
  <2>4. Covered'
    BY <1>6, <1>7, <2>1, <2>2, HoldsAdds DEF Covered
  <2>5. \A v \in DOMAIN lost, w \in DOMAIN allocated_' : Disjoint(v, lost[v], w, allocated_'[w])
    BY <1>3, <1>6, <2>1 DEF AddFacts, Disjoint
  <2>6. LostApart'
    BY <1>5, <1>6, <1>7, <2>5 DEF LostApart, SpaceInv, RangesOK
  <2>q. QED BY <1>3, <2>3, <2>4, <2>6 DEF SpaceInv
<1>8. CASE lost' = AddRange(lost, va, size) /\ UNCHANGED <<allocated_, allocated_bytes_>>
  <2>1. AddFacts(lost, lost', va, size)
    BY <1>8, Adds
  <2>2. va \notin DOMAIN lost
    BY <1>4
  <2>3. Counted'
    <3>1. IsFiniteSet(DOMAIN lost')
      BY <2>1, FS_AddElement DEF AddFacts, SpaceInv, Counted
    <3>q. QED BY <1>3, <1>8, <3>1 DEF SpaceInv, Counted
  <2>4. Covered'
    BY <1>6, <1>8, <2>1, <2>2, HoldsAdds DEF Covered
  <2>5. \A v \in DOMAIN lost' : \/ v = va /\ lost'[v] = size
                                \/ v \in DOMAIN lost /\ lost'[v] = lost[v]
    BY <2>1 DEF AddFacts
  <2>6. LostApart'
    <3>1. RangesOK(lost') /\ \A v \in DOMAIN lost' : v + lost'[v] <= high_water_'
      BY <1>1, <1>3, <1>4, <1>6, <2>5 DEF RangesOK
    <3>2. \A v \in DOMAIN lost', w \in DOMAIN free_' : Disjoint(v, lost'[v], w, free_'[w])
      BY <1>3, <1>5, <2>5
    <3>3. \A v \in DOMAIN lost', w \in DOMAIN allocated_' : Disjoint(v, lost'[v], w, allocated_'[w])
      BY <1>3, <1>6, <1>8, <2>5
    <3>q. QED BY <3>1, <3>2, <3>3 DEF LostApart
  <2>q. QED BY <1>3, <2>3, <2>4, <2>6 DEF SpaceInv
<1>q. QED BY <1>2, <1>7, <1>8 DEF Commit

(* free merges the range with its neighbours: of the free ranges, it may   *)
(* replace one that ends at va and one that starts where the range ends.   *)
Merges(va, size, base, n) ==
  /\ base \in Nat /\ n \in Nat \ {0} /\ base <= va /\ va + size <= base + n
  /\ \/ base = va
     \/ base \in DOMAIN free_ /\ base + free_[base] = va
  /\ \/ base + n = va + size /\ va + size \notin DOMAIN free_
     \/ va + size \in DOMAIN free_ /\ base + n = va + size + free_[va + size]
  /\ base = va => \A w \in DOMAIN free_ : w + free_[w] # va
  /\ DOMAIN free_' = (DOMAIN free_ \ {va + size}) \union {base}
  /\ free_'[base] = n
  /\ \A w \in DOMAIN free_' : w # base => free_'[w] = free_[w]

LEMMA freeMerges ==
  ASSUME BookInv, NEW va \in DOMAIN allocated_, free(va)
  PROVE  \E base, n : Merges(va, allocated_[va], base, n)
<1> DEFINE size == allocated_[va]
           end == va + size
           right == size + (IF end \in DOMAIN free_ THEN free_[end] ELSE 0)
           rest == RemoveRange(free_, end)
<1>1. va \in Nat /\ size \in Nat \ {0} /\ end \in Nat
  BY DEF BookInv, RangesOK
<1>2. \A w \in DOMAIN free_ : w \in Nat /\ free_[w] \in Nat \ {0}
  BY DEF BookInv, RangesOK
<1>3. /\ right \in Nat \ {0} /\ right >= size
      /\ \/ right = size /\ end \notin DOMAIN free_
         \/ end \in DOMAIN free_ /\ right = size + free_[end]
  BY <1>1, <1>2
<1>4. DOMAIN rest = DOMAIN free_ \ {end} /\ \A w \in DOMAIN rest : rest[w] = free_[w]
  BY DEF RemoveRange
<1> DEFINE preds == {w \in DOMAIN free_ : w + free_[w] = va}
<1>5. \/ preds = {} /\ free_' = AddRange(rest, va, right)
      \/ \E w \in preds : free_' = AddRange(rest, w, free_[w] + right)
  BY DEF free, coalesce
<1> HIDE DEF size, right, rest
<1>6. CASE preds = {} /\ free_' = AddRange(rest, va, right)
  <2>1. AddFacts(rest, free_', va, right)
    BY <1>6, Adds
  <2>2. \A w \in DOMAIN free_ : w + free_[w] # va
    BY <1>6
  <2>3. Merges(va, size, va, right)
    BY <1>1, <1>2, <1>3, <1>4, <2>1, <2>2 DEF Merges, AddFacts
  <2>q. QED BY <2>3 DEF size
<1>7. ASSUME NEW w \in DOMAIN free_, w + free_[w] = va, free_' = AddRange(rest, w, free_[w] + right)
      PROVE  \E base, n : Merges(va, allocated_[va], base, n)
  <2>1. AddFacts(rest, free_', w, free_[w] + right)
    BY <1>7, Adds
  <2>2. w \in Nat /\ free_[w] \in Nat \ {0} /\ w # va
    BY <1>1, <1>2, <1>7
  <2>3. Merges(va, size, w, free_[w] + right)
    BY <1>1, <1>2, <1>3, <1>4, <1>7, <2>1, <2>2 DEF Merges, AddFacts
  <2>q. QED BY <2>3 DEF size
<1>q. QED BY <1>5, <1>6, <1>7
LEMMA freeSpace ==
  ASSUME BookInv, SpaceInv, NEW va \in DOMAIN allocated_, free(va)
  PROVE  SpaceInv'
<1> DEFINE size == allocated_[va]
<1>1. PICK base, n : Merges(va, size, base, n)
  BY freeMerges
<1>2. /\ va \in Nat /\ size \in Nat \ {0}
      /\ \A w \in DOMAIN free_ : w \in Nat /\ free_[w] \in Nat \ {0}
      /\ \A w \in DOMAIN lost : w \in Nat /\ lost[w] \in Nat \ {0}
  BY DEF BookInv, SpaceInv, LostApart, RangesOK
<1>3. /\ DOMAIN allocated_' = DOMAIN allocated_ \ {va}
      /\ \A w \in DOMAIN allocated_' : allocated_'[w] = allocated_[w]
      /\ allocated_bytes_' = allocated_bytes_ - size
      /\ UNCHANGED <<high_water_, lost>>
  BY DEF free, RemoveRange
<1> HIDE DEF size
<1>4. base \in Nat /\ n \in Nat \ {0} /\ base <= va /\ va + size <= base + n
  BY <1>1 DEF Merges
<1>5. /\ base \in DOMAIN free_' /\ free_'[base] = n
      /\ \A w \in DOMAIN free_' : w # base => w \in DOMAIN free_ /\ w # va + size /\ free_'[w] = free_[w]
      /\ \A w \in DOMAIN free_ : w # va + size => w \in DOMAIN free_'
  BY <1>1 DEF Merges
<1>6. Counted'
  <2>1. IsFiniteMap(allocated_') /\ Total(allocated_) = Total(allocated_') + size
    BY <1>3, TotalRemove DEF SpaceInv, Counted, size
  <2>2. Total(allocated_') \in Nat
    BY <2>1, TotalNat
  <2>3. allocated_bytes_' = Total(allocated_')
    BY <1>2, <1>3, <2>1, <2>2 DEF SpaceInv, Counted
  <2>4. IsFiniteSet(DOMAIN free_')
    <3>1. IsFiniteSet(DOMAIN free_)
      BY DEF SpaceInv, Counted, IsFiniteMap
    <3>2. IsFiniteSet(DOMAIN free_ \ {va + size})
      BY <3>1, FS_RemoveElement
    <3>3. IsFiniteSet((DOMAIN free_ \ {va + size}) \union {base})
      BY <3>2, FS_AddElement
    <3>q. QED BY <1>1, <3>3 DEF Merges
  <2>5. \A w \in DOMAIN free_' : free_'[w] \in Nat
    BY <1>2, <1>4, <1>5
  <2>q. QED BY <1>3, <2>1, <2>3, <2>4, <2>5 DEF SpaceInv, Counted, IsFiniteMap
<1>7. FullyCoalesced'
  <2> SUFFICES ASSUME NEW v \in DOMAIN free_', NEW w \in DOMAIN free_' PROVE v + free_'[v] # w
    BY DEF FullyCoalesced
  <2>1. \A u, z \in DOMAIN free_ : u + free_[u] # z
    BY DEF SpaceInv, FullyCoalesced
  <2>2. \A u \in DOMAIN free_ : u + free_[u] # base
    BY <1>1, <2>1 DEF Merges
  <2>3. \A u \in DOMAIN free_ : u # va + size => base + n # u
    BY <1>1, <2>1 DEF Merges
  <2>4. base + n # base
    BY <1>4
  <2>q. QED BY <1>5, <2>1, <2>2, <2>3, <2>4
<1>8. \A v \in DOMAIN lost : Disjoint(v, lost[v], base, n)
  <2> SUFFICES ASSUME NEW v \in DOMAIN lost PROVE Disjoint(v, lost[v], base, n)
    OBVIOUS
  <2>1. Disjoint(v, lost[v], va, size) /\ v \in Nat /\ lost[v] \in Nat \ {0}
    BY <1>2 DEF SpaceInv, LostApart, size
  <2>2. \A w \in DOMAIN free_ : Disjoint(v, lost[v], w, free_[w])
    BY DEF SpaceInv, LostApart
  <2>3. \/ v + lost[v] <= base
        \/ va <= v
    BY <1>1, <1>2, <2>1, <2>2 DEF Merges, Disjoint
  <2>4. \/ base + n <= v
        \/ v + lost[v] <= va + size
    BY <1>1, <1>2, <2>1, <2>2 DEF Merges, Disjoint
  <2>q. QED BY <1>2, <1>4, <2>1, <2>3, <2>4 DEF Disjoint
<1>9. LostApart'
  <2>1. \A v \in DOMAIN lost, w \in DOMAIN free_' : Disjoint(v, lost[v], w, free_'[w])
    BY <1>5, <1>8 DEF SpaceInv, LostApart
  <2>q. QED BY <1>3, <2>1 DEF SpaceInv, LostApart, RangesOK
<1>10. Covered'
  <2> SUFFICES ASSUME NEW x \in Nat, x < high_water_
               PROVE  Holds(allocated_', x) \/ Holds(free_', x) \/ Holds(lost, x)
    BY <1>3 DEF Covered
  <2>1. CASE Holds(allocated_, x)
    <3>1. PICK w \in DOMAIN allocated_ : InRange(w, allocated_[w], x)
      BY <2>1 DEF Holds
    <3>2. CASE w = va
      <4>1. InRange(base, n, x)
        BY <1>2, <1>4, <3>1, <3>2 DEF InRange, size
      <4>q. QED BY <1>5, <4>1 DEF Holds
    <3>q. QED BY <1>3, <3>1, <3>2 DEF Holds
  <2>2. CASE Holds(free_, x)
    <3>1. PICK w \in DOMAIN free_ : InRange(w, free_[w], x)
      BY <2>2 DEF Holds
    <3>2. CASE w = va + size
      <4>1. base + n = va + size + free_[va + size]
        BY <1>1, <3>2 DEF Merges
      <4>2. InRange(base, n, x)
        BY <1>2, <1>4, <3>1, <3>2, <4>1 DEF InRange
      <4>q. QED BY <1>5, <4>2 DEF Holds
    <3>3. CASE w = base /\ w # va + size
      <4>1. InRange(base, n, x)
        <5>1. base + free_[base] = va \/ base = va
          BY <1>1 DEF Merges
        <5>2. CASE base + free_[base] = va
          BY <1>2, <1>4, <3>1, <3>3, <5>2 DEF InRange
        <5>3. CASE base = va
          <6>1. Disjoint(va, size, base, free_[base])
            BY <3>3 DEF BookInv, NoOverlap, size
          <6>q. QED BY <1>2, <3>3, <5>3, <6>1 DEF Disjoint
        <5>q. QED BY <5>1, <5>2, <5>3
      <4>q. QED BY <1>5, <4>1 DEF Holds
    <3>4. CASE w # base /\ w # va + size
      BY <1>5, <3>1, <3>4 DEF Holds
    <3>q. QED BY <3>2, <3>3, <3>4
  <2>3. CASE Holds(lost, x)
    BY <2>3
  <2>q. QED BY <2>1, <2>2, <2>3 DEF SpaceInv, Covered
<1>q. QED BY <1>6, <1>7, <1>9, <1>10 DEF SpaceInv

LEMMA InitSpace == Init => SpaceInv
<1> SUFFICES ASSUME Init PROVE SpaceInv OBVIOUS
<1> USE DEF Init, NoRange
<1>1. DOMAIN free_ = {} /\ DOMAIN allocated_ = {} /\ DOMAIN lost = {}
  OBVIOUS
<1>2. Counted
  BY <1>1, TotalEmpty, FS_EmptySet DEF Counted
<1>3. Covered
  BY DEF Covered
<1>q. QED BY <1>1, <1>2, <1>3 DEF SpaceInv, LostApart, RangesOK, FullyCoalesced

LEMMA NextSpace == BookInv /\ SpaceInv /\ [Next]_vars => SpaceInv'
<1> SUFFICES ASSUME BookInv, SpaceInv, [Next]_vars PROVE SpaceInv' OBVIOUS
<1>1. ASSUME NEW request \in Requests, allocate(request) PROVE SpaceInv'
  BY <1>1, allocateSpace
<1>2. ASSUME NEW va \in DOMAIN allocated_, free(va) PROVE SpaceInv'
  BY <1>2, freeSpace
<1>3. CASE UNCHANGED book
  BY <1>3 DEF book, SpaceInv, LostApart, Covered, Counted, FullyCoalesced, Holds
<1>4. CASE emptyCache
  BY <1>3, <1>4 DEF emptyCache
<1>5. ASSUME NEW peer \in Peers, addPeerDevice(peer) PROVE SpaceInv'
  BY <1>3, <1>5 DEF addPeerDevice
<1>6. CASE UNCHANGED vars
  BY <1>3, <1>6 DEF vars
<1>q. QED BY <1>1, <1>2, <1>4, <1>5, <1>6 DEF Next

LEMMA SpaceHolds == Spec => [](BookInv /\ SpaceInv)
<1>1. BookInv /\ SpaceInv /\ [Next]_vars => (BookInv /\ SpaceInv)'
  BY NextBook, NextSpace
<1>q. QED BY <1>1, InitBook, InitSpace, PTL DEF Spec

(* Best fit, the split of a range, the merges of free and the calls that   *)
(* throw lose no byte below the bump pointer, and allocated_bytes_ is what *)
(* the live ranges add up to.                                              *)
THEOREM SpaceConservedHolds == Spec => []SpaceConserved
<1>1. BookInv /\ SpaceInv => SpaceConserved
  <2> SUFFICES ASSUME BookInv, SpaceInv PROVE SpaceConserved OBVIOUS
  <2>1. ASSUME NEW x \in 0..(high_water_ - 1)
        PROVE  \E f \in {allocated_, free_, lost} : \E va \in DOMAIN f : va <= x /\ x < va + f[va]
    <3>1. x \in Nat /\ x < high_water_
      BY DEF BookInv
    <3>2. Holds(allocated_, x) \/ Holds(free_, x) \/ Holds(lost, x)
      BY <3>1 DEF SpaceInv, Covered
    <3>q. QED BY <3>2 DEF Holds, InRange
  <2>q. QED BY <2>1 DEF SpaceInv, Counted, SpaceConserved
<1>q. QED BY <1>1, SpaceHolds, PTL

(* No two free ranges are adjacent, so best fit sees every run of free     *)
(* bytes as one range; a run that ends at high_water_ is not joined to the *)
(* bytes above it.                                                         *)
THEOREM FullyCoalescedHolds == Spec => []FullyCoalesced
<1>1. BookInv /\ SpaceInv => FullyCoalesced
  BY DEF SpaceInv
<1>q. QED BY <1>1, SpaceHolds, PTL
-----------------------------------------------------------------------------
(* ScanExact *)

LEMMA MinMax ==
  ASSUME NEW a \in Int, NEW b \in Int
  PROVE  /\ Max({a, b}) = (IF a >= b THEN a ELSE b)
         /\ Min({a, b}) = (IF a <= b THEN a ELSE b)
<1>1. /\ \E x \in {a, b} : \A y \in {a, b} : x >= y
      /\ \E x \in {a, b} : \A y \in {a, b} : x <= y
  <2>1. CASE a >= b
    BY <2>1
  <2>2. CASE ~ (a >= b)
    BY <2>2
  <2>q. QED BY <2>1, <2>2
<1>2. /\ Max({a, b}) \in {a, b} /\ \A y \in {a, b} : Max({a, b}) >= y
      /\ Min({a, b}) \in {a, b} /\ \A y \in {a, b} : Min({a, b}) <= y
  BY <1>1 DEF Max, Min
<1>q. QED BY <1>2

(* Free ranges do not overlap, so what the scan adds up range by range is  *)
(* the number of free bytes of the page.                                   *)
LEMMA PageCount ==
  ASSUME BookInv, IsFiniteMap(free_), NEW p \in Pages
  PROVE  /\ IsFiniteSet({x \in (p * kSmallBlockSize)..((p + 1) * kSmallBlockSize - 1) : Holds(free_, x)})
         /\ PageFreeBytes(p) = Cardinality(
              {x \in (p * kSmallBlockSize)..((p + 1) * kSmallBlockSize - 1) : Holds(free_, x)})
<1> DEFINE start == p * kSmallBlockSize
           end == start + kSmallBlockSize
           lo(va) == IF start >= va THEN start ELSE va
           hi(va) == IF end <= va + free_[va] THEN end ELSE va + free_[va]
           overlap(va) == Min({end, va + free_[va]}) - Max({start, va})
           counted == {va \in DOMAIN free_ : overlap(va) > 0}
           f == [va \in counted |-> overlap(va)]
           U == Units(f, DOMAIN f)
           F == {x \in start..(end - 1) : Holds(free_, x)}
           m == [u \in U |-> lo(u[1]) + u[2] - 1]
<1>1. p \in Nat /\ start \in Nat /\ end \in Nat /\ end = (p + 1) * kSmallBlockSize
  <2>1. p \in Nat
    BY SizeAssumption DEF Pages
  <2>q. QED BY <2>1, SizeAssumption
<1>2. \A va \in DOMAIN free_ : va \in Nat /\ free_[va] \in Nat \ {0} /\ va + free_[va] \in Nat
  BY DEF BookInv, RangesOK
<1> HIDE DEF start, end
<1>3. \A va \in DOMAIN free_ : overlap(va) = hi(va) - lo(va)
  <2> SUFFICES ASSUME NEW va \in DOMAIN free_ PROVE overlap(va) = hi(va) - lo(va)
    OBVIOUS
  <2>1. end \in Int /\ start \in Int /\ va \in Int /\ va + free_[va] \in Int
    BY <1>1, <1>2
  <2>2. Max({start, va}) = lo(va)
    BY <2>1, MinMax
  <2>3. Min({end, va + free_[va]}) = hi(va)
    BY <2>1, MinMax
  <2>q. QED BY <2>2, <2>3
<1>4. \A va \in DOMAIN free_ : lo(va) \in Nat /\ hi(va) \in Nat
  BY <1>1, <1>2
<1>5. PageFreeBytes(p) = Total(f)
  BY DEF PageFreeBytes, start, end
<1> HIDE DEF overlap
<1>6. /\ DOMAIN f = counted /\ counted \subseteq DOMAIN free_
      /\ \A va \in counted : f[va] = hi(va) - lo(va) /\ f[va] \in Nat \ {0}
  <2>1. \A va \in counted : va \in DOMAIN free_ /\ overlap(va) > 0 /\ f[va] = overlap(va)
    OBVIOUS
  <2>q. QED BY <1>3, <1>4, <2>1
<1>7. IsFiniteSet(DOMAIN f)
  BY <1>6, FS_Subset DEF IsFiniteMap
<1>8. \A va \in DOMAIN free_ : hi(va) - lo(va) > 0 => va \in counted
  BY <1>3
<1> HIDE DEF counted, f
<1>9. IsFiniteSet(U) /\ Total(f) = Cardinality(U)
  BY <1>6, <1>7, TotalIsCardinality
<1>10. /\ \A u \in U : /\ u[1] \in counted /\ u[2] \in 1..(hi(u[1]) - lo(u[1])) /\ u = <<u[1], u[2]>>
       /\ \A va \in counted : \A i \in 1..(hi(va) - lo(va)) : <<va, i>> \in U
  BY <1>6 DEF Units
<1> HIDE DEF U
<1>11. \A va \in counted : \A i \in 1..(hi(va) - lo(va)) :
         /\ lo(va) + i - 1 \in start..(end - 1) /\ InRange(va, free_[va], lo(va) + i - 1)
  <2> SUFFICES ASSUME NEW va \in counted, NEW i \in 1..(hi(va) - lo(va))
               PROVE  /\ lo(va) + i - 1 \in start..(end - 1)
                      /\ InRange(va, free_[va], lo(va) + i - 1)
    OBVIOUS
  <2>1. /\ lo(va) \in Nat /\ hi(va) \in Nat /\ start <= lo(va) /\ hi(va) <= end
        /\ va <= lo(va) /\ hi(va) <= va + free_[va] /\ va \in Nat /\ free_[va] \in Nat
    BY <1>1, <1>2, <1>6
  <2> HIDE DEF lo, hi
  <2>2. i \in Nat /\ 1 <= i /\ i <= hi(va) - lo(va)
    BY <2>1
  <2>3. lo(va) + i - 1 \in Nat /\ lo(va) <= lo(va) + i - 1 /\ lo(va) + i - 1 < hi(va)
    BY <2>1, <2>2
  <2>q. QED BY <1>1, <2>1, <2>3 DEF InRange
<1>12. \A x \in start..(end - 1) : \A va \in DOMAIN free_ : InRange(va, free_[va], x) =>
         /\ va \in counted /\ x - lo(va) + 1 \in 1..(hi(va) - lo(va))
         /\ lo(va) + (x - lo(va) + 1) - 1 = x
  <2> SUFFICES ASSUME NEW x \in start..(end - 1), NEW va \in DOMAIN free_, InRange(va, free_[va], x)
               PROVE  /\ va \in counted /\ x - lo(va) + 1 \in 1..(hi(va) - lo(va))
                      /\ lo(va) + (x - lo(va) + 1) - 1 = x
    OBVIOUS
  <2>1. x \in Nat /\ lo(va) <= x /\ x < hi(va)
    BY <1>1, <1>2 DEF InRange
  <2>2. lo(va) \in Nat /\ hi(va) \in Nat
    BY <1>4
  <2> HIDE DEF lo, hi
  <2>q. QED BY <1>8, <2>1, <2>2
<1>13. \A u \in U : m[u] \in F
  <2> SUFFICES ASSUME NEW u \in U PROVE m[u] \in F
    OBVIOUS
  <2>1. u[1] \in DOMAIN free_ /\ m[u] = lo(u[1]) + u[2] - 1
    BY <1>6, <1>10
  <2>2. m[u] \in start..(end - 1) /\ InRange(u[1], free_[u[1]], m[u])
    BY <1>10, <1>11, <2>1
  <2>q. QED BY <2>1, <2>2 DEF Holds
<1>14. \A u, v \in U : m[u] = m[v] => u = v
  <2> SUFFICES ASSUME NEW u \in U, NEW v \in U, m[u] = m[v] PROVE u = v
    OBVIOUS
  <2> DEFINE y == m[u]
  <2>1. /\ u[1] \in counted /\ v[1] \in counted
        /\ y = lo(u[1]) + u[2] - 1 /\ y = lo(v[1]) + v[2] - 1
        /\ u[2] \in 1..(hi(u[1]) - lo(u[1])) /\ v[2] \in 1..(hi(v[1]) - lo(v[1]))
    BY <1>10
  <2> HIDE DEF y
  <2>2. InRange(u[1], free_[u[1]], y) /\ InRange(v[1], free_[v[1]], y)
    BY <1>11, <2>1
  <2>3. /\ u[1] \in DOMAIN free_ /\ v[1] \in DOMAIN free_
        /\ u[1] \in Nat /\ v[1] \in Nat /\ free_[u[1]] \in Nat /\ free_[v[1]] \in Nat
    BY <1>2, <1>6, <2>1
  <2>4. u[1] = v[1]
    <3>1. SUFFICES ASSUME u[1] # v[1] PROVE FALSE
      OBVIOUS
    <3>2. Disjoint(u[1], free_[u[1]], v[1], free_[v[1]])
      BY <2>3, <3>1 DEF BookInv, NoOverlap, PairwiseDisjoint
    <3>3. y \in Int
      BY <1>4, <2>1, <2>3
    <3>q. QED BY <2>2, <2>3, <3>2, <3>3 DEF Disjoint, InRange
  <2>5. u[2] = v[2]
    <3>1. lo(u[1]) \in Nat /\ u[2] \in Int /\ v[2] \in Int
      BY <1>4, <2>1, <2>3
    <3>q. QED BY <2>1, <2>4, <3>1
  <2>q. QED BY <1>10, <2>4, <2>5
<1>15. \A x \in F : \E u \in U : m[u] = x
  <2> SUFFICES ASSUME NEW x \in F PROVE \E u \in U : m[u] = x
    OBVIOUS
  <2>1. PICK va \in DOMAIN free_ : InRange(va, free_[va], x)
    BY DEF Holds
  <2>2. <<va, x - lo(va) + 1>> \in U
    BY <1>10, <1>12, <2>1
  <2>3. m[<<va, x - lo(va) + 1>>] = x
    BY <1>12, <2>1, <2>2
  <2>q. QED BY <2>2, <2>3
<1>16. m \in [U -> F]
  BY <1>13
<1> HIDE DEF m
<1>17. m \in Bijection(U, F)
  BY <1>14, <1>15, <1>16 DEF Bijection, Injection, Surjection, IsInjective
<1>18. IsFiniteSet(F) /\ Cardinality(F) = Cardinality(U)
  BY <1>9, <1>17, FS_Bijection DEF ExistsBijection
<1>q. QED BY <1>1, <1>5, <1>9, <1>18 DEF start, F

LEMMA ScanIsExact == ASSUME BookInv, IsFiniteMap(free_) PROVE ScanExact
<1> SUFFICES ASSUME NEW p \in Pages
             PROVE  PageFreeBytes(p) = kSmallBlockSize <=> EntirelyFree(p)
  BY DEF ScanExact
<1> DEFINE first == p * kSmallBlockSize
           last == (p + 1) * kSmallBlockSize - 1
           F == {x \in first..last : Holds(free_, x)}
<1>1. IsFiniteSet(F) /\ PageFreeBytes(p) = Cardinality(F)
  BY PageCount
<1>2. first \in Nat /\ last \in Nat /\ last - first + 1 = kSmallBlockSize
  <2>1. p \in Nat
    BY SizeAssumption DEF Pages
  <2>q. QED BY <2>1, SizeAssumption
<1>3. EntirelyFree(p) <=> F = first..last
  BY DEF EntirelyFree, Holds, InRange
<1>4. F \subseteq first..last
  OBVIOUS
<1> HIDE DEF F, first, last
<1>5. IsFiniteSet(first..last) /\ Cardinality(first..last) = kSmallBlockSize
  <2>1. kSmallBlockSize \in Nat \ {0}
    BY SizeAssumption
  <2>2. IsFiniteSet(first..last)
        /\ Cardinality(first..last) = IF first > last THEN 0 ELSE last - first + 1
    BY <1>2, FS_Interval
  <2>q. QED BY <1>2, <2>1, <2>2
<1>6. Cardinality(F) = kSmallBlockSize <=> F = first..last
  BY <1>4, <1>5, FS_Subset
<1>q. QED BY <1>1, <1>3, <1>6

(* The count of the scan of emptyCache is that of the page's free bytes:   *)
(* no byte is counted for two ranges and no range beyond the page's ends,  *)
(* so it reaches the page size exactly on the pages that may go.           *)
THEOREM ScanExactHolds == Spec => []ScanExact
<1>1. BookInv /\ SpaceInv => ScanExact
  BY ScanIsExact DEF SpaceInv, Counted
<1>q. QED BY <1>1, SpaceHolds, PTL
-----------------------------------------------------------------------------
(* NoBlockLost, CacheEmptied and PeersSeeAll *)

(* The blocks are counted, and no page beyond the bump pointer is mapped. *)
BlockInv ==
  /\ blocks_out \in Nat /\ NoBlockLost
  /\ \A p \in page_mapped_ : p * kSmallBlockSize < high_water_

LEMMA PagesFinite ==
  ASSUME NEW s, s \subseteq Pages
  PROVE  IsFiniteSet(s) /\ Cardinality(s) \in Nat /\ \A p \in s : p \in Nat
<1>1. num_pages_ - 1 \in Int
  BY SizeAssumption
<1>2. IsFiniteSet(Pages)
  BY <1>1, FS_Interval DEF Pages
<1>3. \A p \in Pages : p \in Nat
  BY <1>1 DEF Pages
<1>q. QED BY <1>2, <1>3, FS_Subset, FS_CardinalityType

LEMMA MapPagesBlocks ==
  ASSUME PagesOK, page_mapped_ \subseteq backed, BlockInv, NEW done, done \subseteq Pages,
         NEW leaked \in {0, 1}, NEW dangling, MapPages(done, leaked, dangling)
  PROVE  \E n \in Nat :
           /\ Cardinality(page_mapped_') = Cardinality(page_mapped_) + n
           /\ mapped_bytes_' = kSmallBlockSize * Cardinality(page_mapped_')
           /\ blocks_out' = blocks_out + n + leaked /\ blocks_out' \in Nat
           /\ page_mapped_' = page_mapped_ \union done
<1>1. /\ done \intersect page_mapped_ = {} /\ page_mapped_' = page_mapped_ \union done
      /\ mapped_bytes_' = mapped_bytes_ + kSmallBlockSize * Cardinality(done)
      /\ blocks_out' = blocks_out + Cardinality(done) + leaked
  BY DEF MapPages
<1>2. /\ IsFiniteSet(done) /\ Cardinality(done) \in Nat
      /\ IsFiniteSet(page_mapped_) /\ Cardinality(page_mapped_) \in Nat
  BY PagesFinite DEF PagesOK
<1>3. Cardinality(page_mapped_ \union done)
        = Cardinality(page_mapped_) + Cardinality(done) - Cardinality(page_mapped_ \intersect done)
  BY <1>2, FS_Union
<1>4. Cardinality(page_mapped_ \intersect done) = 0
  BY <1>1, FS_EmptySet
<1> DEFINE n == Cardinality(done)
           k == Cardinality(page_mapped_)
<1>5. Cardinality(page_mapped_') = k + n /\ k \in Nat /\ n \in Nat
  BY <1>1, <1>2, <1>3, <1>4
<1>6. mapped_bytes_ = kSmallBlockSize * k /\ blocks_out \in Nat
  BY DEF BlockInv, NoBlockLost
<1>7. /\ mapped_bytes_' = mapped_bytes_ + kSmallBlockSize * n
      /\ blocks_out' = blocks_out + n + leaked
  BY <1>1
<1> HIDE DEF n, k
<1>8. mapped_bytes_' = kSmallBlockSize * (k + n)
  BY <1>5, <1>6, <1>7, SizeAssumption
<1>9. blocks_out' \in Nat
  BY <1>5, <1>6, <1>7
<1>q. QED BY <1>1, <1>5, <1>7, <1>8, <1>9 DEF k

LEMMA ensureBlocks ==
  ASSUME PagesOK, page_mapped_ \subseteq backed, BlockInv,
         NEW va, NEW size, NEW ok \in BOOLEAN, ensurePagesMapped(va, size, ok)
  PROVE  \E n \in Nat, leaked \in {0, 1} :
           /\ ok => leaked = 0
           /\ Cardinality(page_mapped_') = Cardinality(page_mapped_) + n
           /\ mapped_bytes_' = kSmallBlockSize * Cardinality(page_mapped_')
           /\ blocks_out' = blocks_out + n + leaked /\ blocks_out' \in Nat
           /\ page_mapped_' \subseteq page_mapped_ \union TouchedPages(va, size)
<1> DEFINE missing == TouchedPages(va, size) \ page_mapped_
<1>1. missing \subseteq Pages /\ missing \subseteq TouchedPages(va, size)
  BY DEF TouchedPages
<1>2. PICK leaked \in {0, 1} : /\ ok => leaked = 0
                               /\ \E done \in SUBSET missing : \E dangling : MapPages(done, leaked, dangling)
  BY DEF ensurePagesMapped
<1>3. PICK done \in SUBSET missing : \E dangling : MapPages(done, leaked, dangling)
  BY <1>2
<1>4. PICK dangling : MapPages(done, leaked, dangling)
  BY <1>3
<1>5. done \subseteq Pages /\ done \subseteq TouchedPages(va, size)
  BY <1>1, <1>3
<1>6. PICK n \in Nat :
        /\ Cardinality(page_mapped_') = Cardinality(page_mapped_) + n
        /\ mapped_bytes_' = kSmallBlockSize * Cardinality(page_mapped_')
        /\ blocks_out' = blocks_out + n + leaked /\ blocks_out' \in Nat
        /\ page_mapped_' = page_mapped_ \union done
  BY <1>4, <1>5, MapPagesBlocks
<1>q. QED BY <1>2, <1>5, <1>6

(* A call that throws loses at most one block, and leaves its range lost:  *)
(* a new address, since what allocate takes lies apart from lost ranges.   *)
LEMMA allocateBlocks ==
  ASSUME MapInv, SpaceInv, BlockInv, NEW request \in Requests, allocate(request)
  PROVE  BlockInv'
<1> DEFINE size == roundUp(request, kMinBlockAlign)
<1>1. size \in Nat \ {0}
  BY RoundUp, SizeAssumption
<1>2. PICK va : Takes(va, size) /\ Commit(va, size)
  BY DEF allocate, Takes
<1> HIDE DEF size
<1>3. /\ va \in Nat /\ va + size <= high_water_' /\ high_water_ <= high_water_' /\ high_water_' \in Nat
      /\ \A w \in DOMAIN lost : Disjoint(va, size, w, lost[w])
  BY <1>1, <1>2, TakesRange DEF MapInv
<1>4. va \notin DOMAIN lost
  <2>1. \A w \in DOMAIN lost : w \in Nat /\ lost[w] \in Nat \ {0}
    BY DEF SpaceInv, LostApart, RangesOK
  <2>q. QED BY <1>1, <1>3, <2>1 DEF Disjoint
<1>5. PICK ok \in BOOLEAN :
        /\ ensurePagesMapped(va, size, ok)
        /\ IF ok THEN UNCHANGED lost ELSE lost' = AddRange(lost, va, size)
  BY <1>2 DEF Commit
<1>6. PICK n \in Nat, leaked \in {0, 1} :
        /\ ok => leaked = 0
        /\ Cardinality(page_mapped_') = Cardinality(page_mapped_) + n
        /\ mapped_bytes_' = kSmallBlockSize * Cardinality(page_mapped_')
        /\ blocks_out' = blocks_out + n + leaked /\ blocks_out' \in Nat
        /\ page_mapped_' \subseteq page_mapped_ \union TouchedPages(va, size)
  BY <1>5, ensureBlocks DEF MapInv, MappedWhileLive
<1>7. IsFiniteSet(DOMAIN lost) /\ Cardinality(DOMAIN lost) \in Nat
  BY FS_CardinalityType DEF SpaceInv, Counted
<1>8. Cardinality(DOMAIN lost') = Cardinality(DOMAIN lost) + (IF ok THEN 0 ELSE 1)
  <2>1. CASE ok
    BY <1>5, <1>7, <2>1
  <2>2. CASE ~ ok
    <3>1. DOMAIN lost' = DOMAIN lost \union {va}
      BY <1>5, <2>2 DEF AddRange
    <3>2. Cardinality(DOMAIN lost') = Cardinality(DOMAIN lost) + 1
      BY <1>4, <1>7, <3>1, FS_AddElement
    <3>q. QED BY <2>2, <3>2
  <2>q. QED BY <2>1, <2>2
<1>9. Cardinality(page_mapped_) \in Nat
  BY PagesFinite DEF MapInv, PagesOK
<1>10. Cardinality(page_mapped_') <= blocks_out'
       /\ blocks_out' <= Cardinality(page_mapped_') + Cardinality(DOMAIN lost')
  <2>1. /\ Cardinality(page_mapped_) <= blocks_out /\ blocks_out \in Nat
        /\ blocks_out <= Cardinality(page_mapped_) + Cardinality(DOMAIN lost)
    BY DEF BlockInv, NoBlockLost
  <2>2. leaked \in Nat /\ leaked <= (IF ok THEN 0 ELSE 1)
    BY <1>6
  <2>q. QED BY <1>6, <1>7, <1>8, <1>9, <2>1, <2>2
<1>11. \A p \in page_mapped_' : p * kSmallBlockSize < high_water_'
  <2> SUFFICES ASSUME NEW p \in page_mapped_' PROVE p * kSmallBlockSize < high_water_'
    OBVIOUS
  <2>1. p \in Pages /\ p \in Nat
    BY <1>6, PagesFinite DEF MapInv, PagesOK, TouchedPages
  <2>2. p * kSmallBlockSize \in Nat /\ high_water_ \in Nat
    BY <2>1, SizeAssumption DEF MapInv, BookInv
  <2>3. CASE p \in page_mapped_
    BY <1>3, <2>2, <2>3 DEF BlockInv
  <2>4. CASE p \in TouchedPages(va, size)
    BY <1>1, <1>3, <2>2, <2>4 DEF TouchedPages, Touches
  <2>q. QED BY <1>6, <2>3, <2>4
<1>q. QED BY <1>6, <1>10, <1>11 DEF BlockInv, NoBlockLost

LEMMA emptyCacheBlocks ==
  ASSUME MapInv, SpaceInv, BlockInv, emptyCache
  PROVE  BlockInv'
<1> DEFINE unmapped == {p \in page_mapped_ : EntirelyFree(p)}
           n == Cardinality(unmapped)
           k == Cardinality(page_mapped_)
<1>1. /\ page_mapped_' = page_mapped_ \ unmapped
      /\ mapped_bytes_' = mapped_bytes_ - kSmallBlockSize * n
      /\ blocks_out' = blocks_out - n
      /\ UNCHANGED <<high_water_, lost>>
  BY DEF emptyCache, book
<1>2. unmapped \subseteq page_mapped_ /\ page_mapped_ \intersect unmapped = unmapped
  OBVIOUS
<1> HIDE DEF unmapped
<1>3. IsFiniteSet(page_mapped_) /\ k \in Nat /\ n \in Nat
  BY <1>2, PagesFinite DEF MapInv, PagesOK
<1>4. Cardinality(page_mapped_') = k - n /\ k - n \in Nat
  <2>1. Cardinality(page_mapped_ \ unmapped) = k - n
    BY <1>2, <1>3, FS_Difference
  <2>2. n <= k
    BY <1>2, <1>3, FS_Subset
  <2>q. QED BY <1>1, <1>3, <2>1, <2>2
<1>5. /\ mapped_bytes_ = kSmallBlockSize * k /\ blocks_out \in Nat /\ k <= blocks_out
      /\ blocks_out <= k + Cardinality(DOMAIN lost)
      /\ \A p \in page_mapped_ : p * kSmallBlockSize < high_water_
  BY DEF BlockInv, NoBlockLost
<1> HIDE DEF n, k
<1>6. mapped_bytes_' = kSmallBlockSize * (k - n)
  BY <1>1, <1>3, <1>5, SizeAssumption
<1>7. blocks_out' \in Nat /\ k - n <= blocks_out'
  BY <1>1, <1>3, <1>4, <1>5
<1>8. Cardinality(DOMAIN lost) \in Nat
  BY FS_CardinalityType DEF SpaceInv, Counted
<1>9. blocks_out' <= (k - n) + Cardinality(DOMAIN lost)
  BY <1>1, <1>3, <1>5, <1>8
<1>q. QED BY <1>1, <1>4, <1>5, <1>6, <1>7, <1>9 DEF BlockInv, NoBlockLost

LEMMA InitBlocks == Init => BlockInv
<1> SUFFICES ASSUME Init PROVE BlockInv OBVIOUS
<1> USE DEF Init, NoRange
<1>1. DOMAIN lost = {} /\ page_mapped_ = {} /\ mapped_bytes_ = 0 /\ blocks_out = 0
  OBVIOUS
<1>2. Cardinality(DOMAIN lost) = 0 /\ Cardinality(page_mapped_) = 0
  BY <1>1, FS_EmptySet
<1>3. kSmallBlockSize * 0 = 0
  BY SizeAssumption
<1>q. QED BY <1>1, <1>2, <1>3 DEF BlockInv, NoBlockLost

LEMMA NextBlocks == MapInv /\ SpaceInv /\ BlockInv /\ [Next]_vars => BlockInv'
<1> SUFFICES ASSUME MapInv, SpaceInv, BlockInv, [Next]_vars PROVE BlockInv' OBVIOUS
<1>1. ASSUME NEW request \in Requests, allocate(request) PROVE BlockInv'
  BY <1>1, allocateBlocks
<1>2. CASE UNCHANGED <<high_water_, lost, page_mapped_, mapped_bytes_, blocks_out>>
  BY <1>2 DEF BlockInv, NoBlockLost
<1>3. ASSUME NEW va \in DOMAIN allocated_, free(va) PROVE BlockInv'
  BY <1>2, <1>3 DEF free, pages
<1>4. CASE emptyCache
  BY <1>4, emptyCacheBlocks
<1>5. ASSUME NEW peer \in Peers, addPeerDevice(peer) PROVE BlockInv'
  BY <1>2, <1>5 DEF addPeerDevice, book
<1>6. CASE UNCHANGED vars
  BY <1>2, <1>6 DEF vars, book, pages
<1>q. QED BY <1>1, <1>3, <1>4, <1>5, <1>6 DEF Next

PageInv == MapInv /\ SpaceInv /\ BlockInv

LEMMA PagesHold == Spec => []PageInv
<1>1. Init => PageInv
  BY InitMap, InitSpace, InitBlocks DEF PageInv
<1>2. PageInv /\ [Next]_vars => PageInv'
  BY NextMap, NextSpace, NextBlocks DEF PageInv, MapInv
<1>q. QED BY <1>1, <1>2, PTL DEF Spec

(* Every block taken from the PhysicalMemoryManager backs a page that      *)
(* emptyCache can release, but for one for each allocation that threw.     *)
THEOREM NoBlockLostHolds == Spec => []NoBlockLost
<1>1. PageInv => NoBlockLost
  BY DEF PageInv, BlockInv
<1>q. QED BY <1>1, PagesHold, PTL

(* A mapped page that is not entirely free has a live byte, a byte of a    *)
(* lost range, or the bump pointer.                                        *)
LEMMA PagesNotFree ==
  ASSUME PageInv, NEW p \in page_mapped_, ~ HasByteOf(allocated_, p), ~ HasByteOf(lost, p),
         ~ HoldsHighWater(p)
  PROVE  EntirelyFree(p)
<1> USE DEF PageInv
<1> DEFINE start == p * kSmallBlockSize
           end == (p + 1) * kSmallBlockSize
<1>1. p \in Nat /\ start \in Nat /\ end \in Nat
  BY PagesFinite, PageIsNotEmpty DEF MapInv, PagesOK
<1>2. start < high_water_ /\ high_water_ \in Nat
  BY DEF BlockInv, MapInv, BookInv
<1>3. ~ (start < high_water_ + 1 /\ high_water_ < end)
  BY DEF HoldsHighWater, Touches
<1>4. \A f : ~ HasByteOf(f, p) => \A va \in DOMAIN f : ~ (start < va + f[va] /\ va < end)
  BY DEF HasByteOf, Touches
<1> HIDE DEF start, end
<1>5. \A va \in DOMAIN allocated_ : /\ va \in Nat /\ allocated_[va] \in Nat
                                    /\ ~ (start < va + allocated_[va] /\ va < end)
  BY <1>4 DEF MapInv, BookInv, RangesOK
<1>6. \A va \in DOMAIN lost : /\ va \in Nat /\ lost[va] \in Nat
                              /\ ~ (start < va + lost[va] /\ va < end)
  BY <1>4 DEF SpaceInv, LostApart, RangesOK
<1>7. ASSUME NEW x \in start..(end - 1)
      PROVE  \E va \in DOMAIN free_ : va <= x /\ x < va + free_[va]
  <2>1. x \in Nat /\ start <= x /\ x < end /\ x < high_water_
    BY <1>1, <1>2, <1>3
  <2>2. ~ Holds(allocated_, x) /\ ~ Holds(lost, x)
    BY <1>1, <1>5, <1>6, <2>1 DEF Holds, InRange
  <2>3. Holds(free_, x)
    BY <2>1, <2>2 DEF SpaceInv, Covered
  <2>q. QED BY <2>3 DEF Holds, InRange
<1>q. QED BY <1>7 DEF EntirelyFree, start, end

InUse(p) == HasByteOf(allocated_, p) \/ HasByteOf(lost, p) \/ HoldsHighWater(p)

(* allocate keeps a page in use: a range bumped from the page of           *)
(* high_water_ has its first byte there.  The pages it maps are under its  *)
(* range.                                                                  *)
LEMMA allocateInUse ==
  ASSUME PageInv, NEW request \in Requests, allocate(request)
  PROVE  \A p \in page_mapped_' : p \notin page_mapped_ \/ InUse(p) => InUse(p)'
<1> USE DEF PageInv, MapInv
<1> DEFINE size == roundUp(request, kMinBlockAlign)
<1>1. size \in Nat \ {0}
  BY RoundUp, SizeAssumption
<1>2. PICK va : Takes(va, size) /\ Commit(va, size)
  BY DEF allocate, Takes
<1> HIDE DEF size
<1>3. /\ \A w \in DOMAIN lost : Disjoint(va, size, w, lost[w])
      /\ \A w \in DOMAIN allocated_ : Disjoint(va, size, w, allocated_[w])
      /\ va \in Nat
  BY <1>1, <1>2, TakesRange
<1>4. va \notin DOMAIN lost /\ va \notin DOMAIN allocated_
  <2>1. \A w \in DOMAIN lost : w \in Nat /\ lost[w] \in Nat \ {0}
    BY DEF SpaceInv, LostApart, RangesOK
  <2>2. \A w \in DOMAIN allocated_ : w \in Nat /\ allocated_[w] \in Nat \ {0}
    BY DEF BookInv, RangesOK
  <2>q. QED BY <1>1, <1>3, <2>1, <2>2 DEF Disjoint
<1>5. PICK ok \in BOOLEAN :
        /\ ensurePagesMapped(va, size, ok)
        /\ IF ok THEN allocated_' = AddRange(allocated_, va, size) /\ UNCHANGED lost
           ELSE lost' = AddRange(lost, va, size) /\ UNCHANGED allocated_
  BY <1>2 DEF Commit
<1>6. page_mapped_' \subseteq page_mapped_ \union TouchedPages(va, size)
  BY <1>5, ensureBlocks DEF MappedWhileLive
<1>7. ASSUME NEW p, Touches(va, size, p, kSmallBlockSize)
      PROVE  HasByteOf(allocated_, p)' \/ HasByteOf(lost, p)'
  <2>1. CASE ok
    BY <1>5, <1>7, <2>1 DEF HasByteOf, AddRange
  <2>2. CASE ~ ok
    BY <1>5, <1>7, <2>2 DEF HasByteOf, AddRange
  <2>q. QED BY <2>1, <2>2
<1>8. ASSUME NEW p
      PROVE  /\ HasByteOf(allocated_, p) => HasByteOf(allocated_, p)'
             /\ HasByteOf(lost, p) => HasByteOf(lost, p)'
  <2>1. \A w \in DOMAIN allocated_ : w \in DOMAIN allocated_' /\ allocated_'[w] = allocated_[w]
    BY <1>4, <1>5 DEF AddRange
  <2>2. \A w \in DOMAIN lost : w \in DOMAIN lost' /\ lost'[w] = lost[w]
    BY <1>4, <1>5 DEF AddRange
  <2>q. QED BY <2>1, <2>2 DEF HasByteOf
<1>9. ASSUME NEW p \in page_mapped_, HoldsHighWater(p) PROVE InUse(p)'
  <2>1. CASE UNCHANGED high_water_
    BY <1>9, <2>1 DEF InUse, HoldsHighWater
  <2>2. CASE va = high_water_
    <3>1. Touches(va, size, p, kSmallBlockSize)
      <4> DEFINE start == p * kSmallBlockSize
                 end == (p + 1) * kSmallBlockSize
      <4>1. start < va + 1 /\ va < end
        BY <1>9, <2>2 DEF HoldsHighWater, Touches
      <4>2. start \in Nat
        BY PagesFinite, PageIsNotEmpty DEF PagesOK
      <4> HIDE DEF start, end
      <4>3. start < va + size
        BY <1>1, <1>3, <4>1, <4>2
      <4>q. QED BY <4>1, <4>3 DEF Touches, start, end
    <3>q. QED BY <1>7, <3>1 DEF InUse
  <2>q. QED BY <1>2, <2>1, <2>2 DEF Takes
<1>q. QED BY <1>6, <1>7, <1>8, <1>9 DEF InUse, TouchedPages

(* After emptyCache and until the next free, every mapped page has a live  *)
(* byte, a byte of a range lost to an exception, or the bump pointer:      *)
(* emptyCache misses no page it could release.                             *)
THEOREM CacheEmptiedHolds == Spec => []CacheEmptied
<1>1. Init => CacheEmptied
  BY DEF Init, CacheEmptied
<1>2. PageInv /\ CacheEmptied /\ [Next]_vars => CacheEmptied'
  <2> SUFFICES ASSUME PageInv, CacheEmptied, [Next]_vars PROVE CacheEmptied'
    OBVIOUS
  <2> USE DEF CacheEmptied
  <2>1. ASSUME NEW request \in Requests, allocate(request) PROVE CacheEmptied'
    <3>1. UNCHANGED flushed
      BY <2>1 DEF allocate
    <3>2. \A p \in page_mapped_' : p \notin page_mapped_ \/ InUse(p) => InUse(p)'
      BY <2>1, allocateInUse
    <3>q. QED BY <3>1, <3>2 DEF InUse
  <2>2. ASSUME NEW va \in DOMAIN allocated_, free(va) PROVE CacheEmptied'
    BY <2>2 DEF free
  <2>3. CASE emptyCache
    <3>1. /\ page_mapped_' = page_mapped_ \ {p \in page_mapped_ : EntirelyFree(p)}
          /\ UNCHANGED <<allocated_, lost, high_water_>>
      BY <2>3 DEF emptyCache, book
    <3>2. \A p \in page_mapped_' : InUse(p)
      BY <3>1, PagesNotFree DEF InUse
    <3>q. QED BY <3>1, <3>2 DEF InUse, HasByteOf, HoldsHighWater
  <2>4. CASE UNCHANGED <<book, page_mapped_, flushed>>
    BY <2>4 DEF book, HasByteOf, HoldsHighWater
  <2>5. ASSUME NEW peer \in Peers, addPeerDevice(peer) PROVE CacheEmptied'
    BY <2>4, <2>5 DEF addPeerDevice
  <2>6. CASE UNCHANGED vars
    BY <2>4, <2>6 DEF vars, pages
  <2>q. QED BY <2>1, <2>2, <2>3, <2>5, <2>6 DEF Next
<1>q. QED BY <1>1, <1>2, PagesHold, PTL DEF Spec

(* As long as the access rights of a new peer can be set, a peer whose     *)
(* addPeerDevice has returned may use every mapped page, whichever came    *)
(* first.                                                                  *)
THEOREM PeersSeeAllHolds == "grant" \notin Faults => (Spec => []PeersSeeAll)
<1> DEFINE Granted == \A p \in page_mapped_ : peer_devices_ \subseteq access[p]
<1> SUFFICES ASSUME "grant" \notin Faults PROVE Spec => []PeersSeeAll
  OBVIOUS
<1>1. Init => Granted
  BY DEF Init
<1>2. PageInv /\ Granted /\ [Next]_vars => Granted'
  <2> SUFFICES ASSUME PageInv, Granted, [Next]_vars PROVE Granted'
    OBVIOUS
  <2>1. page_mapped_ \subseteq Pages /\ DOMAIN access = Pages
    BY DEF PageInv, MapInv, PagesOK
  <2>2. ASSUME NEW request \in Requests, allocate(request) PROVE Granted'
    <3>1. UNCHANGED peer_devices_ /\ \E va, size : Commit(va, size)
      BY <2>2 DEF allocate, peers
    <3>2. PICK va, size : Commit(va, size)
      BY <3>1
    <3>3. PICK ok \in BOOLEAN : ensurePagesMapped(va, size, ok)
      BY <3>2 DEF Commit
    <3>4. PICK done : done \subseteq Pages /\ \E leaked, dangling : MapPages(done, leaked, dangling)
      BY <3>3 DEF ensurePagesMapped, TouchedPages
    <3>5. /\ page_mapped_' = page_mapped_ \union done
          /\ access' = [p \in Pages |-> IF p \in done THEN {device_} \union peer_devices_
                                        ELSE access[p]]
      BY <3>4 DEF MapPages
    <3>q. QED BY <2>1, <3>1, <3>4, <3>5
  <2>3. ASSUME NEW va \in DOMAIN allocated_, free(va) PROVE Granted'
    BY <2>3 DEF free, pages, peers
  <2>4. CASE emptyCache
    BY <2>1, <2>4 DEF emptyCache, peers
  <2>5. ASSUME NEW peer \in Peers, addPeerDevice(peer) PROVE Granted'
    <3>1. CASE peer \in peer_devices_
      BY <2>5, <3>1 DEF addPeerDevice
    <3>2. CASE peer \notin peer_devices_
      <4>1. /\ peer_devices_' = peer_devices_ \union {peer} /\ UNCHANGED page_mapped_
            /\ access' = [p \in Pages |-> IF p \in page_mapped_ THEN access[p] \union {peer}
                                          ELSE access[p]]
        BY <2>5, <3>2 DEF addPeerDevice
      <4>q. QED BY <2>1, <4>1
    <3>q. QED BY <3>1, <3>2
  <2>6. CASE UNCHANGED vars
    BY <2>6 DEF vars, pages, peers
  <2>q. QED BY <2>2, <2>3, <2>4, <2>5, <2>6 DEF Next
<1>3. PageInv /\ Granted => PeersSeeAll
  BY DEF PageInv, MapInv, PeersOK, PeersSeeAll
<1>q. QED BY <1>1, <1>2, <1>3, PagesHold, PTL DEF Spec

=============================================================================
