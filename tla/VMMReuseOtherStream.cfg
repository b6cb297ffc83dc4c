\* Memory without recorded streams, allocated again on another stream.
CONSTANTS
  t1 = t1
  t2 = t2
  p1 = p1
  p2 = p2
  e1 = e1
  e2 = e2
  e3 = e3
  s1 = s1
  s2 = s2
  d1 = d1
  d2 = d2
  g1 = g1
  g2 = g2
  Threads = {t1}
  Devices = {d1}
  Streams = {s1, s2}
  Ptrs = {p1, p2}
  Events = {e1, e2, e3}
  Pools = {}
  NoPool = NoPool
  NoReq = NoReq
  Sizes = {1}
  Thresholds = {2}
  DefaultThreshold = 2
  EnableValues = {}
  Filters = {}
  StreamDevice <- OneDevice
  AllocStreams = {s1, s2}
  PtrDevice <- OnDevice1
  PtrLarge <- AllSmall
  KeepPoolPtrs = FALSE
  Faults = {}
  MaxHeld = 1
  MaxActivePools = 0
  MaxQueue = 1
SYMMETRY Symmetry
SPECIFICATION Spec
INVARIANT ReuseOrdered
CHECK_DEADLOCK FALSE
