\* Two threads, fewer blocks than the addresses could take; mapping may fail anywhere.
CONSTANTS
  t1 = t1
  t2 = t2
  a1 = a1
  a2 = a2
  b1 = b1
  b2 = b2
  b3 = b3
  gpu0 = gpu0
  gpu1 = gpu1
  NoThread = NoThread
  Threads = {t1, t2}
  Handles = {a1, a2, b1, b2}
  kLargeBlockSizes <- MCClasses
  BlockSize <- MCBlockSize
  VASize = 12
  Addresses = {0, 4, 8}
  Requests = {1, 3, 4, 5, 7, 8, 9}
  device_ = gpu0
  Peers = {gpu1}
  Faults = {"create", "map", "access"}
SYMMETRY Symmetry
SPECIFICATION Spec
INVARIANTS BlocksOwned NoStaleMapping AddressesOwned
PROPERTIES PackedTightly ImplementsRangeAllocator
CHECK_DEADLOCK FALSE
