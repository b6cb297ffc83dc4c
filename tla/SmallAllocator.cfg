\* Fewer blocks than pages; setAccess may fail, and with it later mappings of the page.
CONSTANTS
  gpu0 = gpu0
  gpu1 = gpu1
  gpu2 = gpu2
  device_ = gpu0
  kMinBlockAlign = 2
  kSmallBlockSize = 4
  num_pages_ = 4
  Requests = {1, 3, 5}
  Peers = {gpu1}
  PhysicalBlocks = 2
  Faults = {"access"}
SPECIFICATION Spec
INVARIANTS NoOverlap MappedWhileLive SpaceConserved FullyCoalesced
  ScanExact NoBlockLost PeersSeeAll CacheEmptied
PROPERTY ImplementsRangeAllocator
CHECK_DEADLOCK FALSE
