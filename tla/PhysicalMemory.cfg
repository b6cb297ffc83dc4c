\* Free lists, accounting and purge with two concurrent purging threads.
CONSTANTS
  h1 = h1
  h2 = h2
  h3 = h3
  h4 = h4
  h5 = h5
  t1 = t1
  t2 = t2
  Handles <- MCHandles
  Threads <- MCThreads
  kSmallBlockSize = 1
  kLargeBlockSizes = {2, 4}
  Capacity = 9
  PurgeSizes = {0, 1, 3, 5}
  MaxPurges = 2
SYMMETRY Symmetry
SPECIFICATION Spec
INVARIANTS OneOwner PoolsIsolated AccountingExact
PROPERTY PurgeMinimal
CHECK_DEADLOCK FALSE
