\* memMap may fail for a handle of the remap.
CONSTANTS
  t1 = t1
  t2 = t2
  b1 = b1
  b2 = b2
  b3 = b3
  x1 = x1
  x2 = x2
  gpu0 = gpu0
  gpu1 = gpu1
  gpu2 = gpu2
  NoThread = NoThread
  Threads = {t1, t2}
  Handles = {b1, b2, b3}
  Foreign = {x1, x2}
  kLargeBlockSizes <- MCClasses
  BlockSize <- MCBlockSize
  VASize = 8
  Addresses = {0, 4}
  Requests = {2, 3}
  device_ = gpu0
  Peers = {gpu1, gpu2}
  Faults = {"remap"}
SYMMETRY Symmetry
SPECIFICATION MASpec
INVARIANT RemapAtomic
CHECK_DEADLOCK FALSE
