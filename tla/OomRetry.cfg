\* Two threads; a large allocation needs the whole device, small ones cut it up.
CONSTANTS
  t1 = t1
  t2 = t2
  Threads = {t1, t2}
  kLargeBlockSizes <- MCClasses
  kMinBlockAlign = 1
  kSmallBlockSize = 2
  threshold_ = 4
  Requests = {1, 3, 8}
  Capacity = 8
SYMMETRY Symmetry
SPECIFICATION Spec
INVARIANT MemoryAccounted
PROPERTY OomJustified
CHECK_DEADLOCK FALSE
