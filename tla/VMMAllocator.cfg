\* Two threads, one device, recorded streams and deferred frees.
CONSTANTS
  t1 = t1
  t2 = t2
  p1 = p1
  p2 = p2
  e1 = e1
  e2 = e2
  e3 = e3
  s1 = s1
  s2 = s2
  d1 = d1
  d2 = d2
  g1 = g1
  g2 = g2
  Threads = {t1, t2}
  Devices = {d1}
  Streams = {s1, s2}
  Ptrs = {p1, p2}
  Events = {e1, e2, e3}
  Pools = {}
  NoPool = NoPool
  NoReq = NoReq
  Sizes = {1}
  Thresholds = {2}
  DefaultThreshold = 2
  EnableValues = {}
  Filters = {}
  StreamDevice <- OneDevice
  AllocStreams = {s1}
  PtrDevice <- OnDevice1
  PtrLarge <- AllSmall
  KeepPoolPtrs = FALSE
  Faults = {"create", "record"}
  MaxHeld = 3
  MaxActivePools = 0
  MaxQueue = 2
SYMMETRY Symmetry
SPECIFICATION Spec
INVARIANTS TypeOK OneOwner NothingLost EventExclusive ReuseOrdered FencedKernels NoAlias
CHECK_DEADLOCK FALSE
