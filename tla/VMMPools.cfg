\* Pools released while in use, on two devices that share the EventPool, under fairness.
CONSTANTS
  t1 = t1
  t2 = t2
  p1 = p1
  p2 = p2
  e1 = e1
  e2 = e2
  e3 = e3
  s1 = s1
  s2 = s2
  d1 = d1
  d2 = d2
  g1 = g1
  g2 = g2
  Threads = {t1, t2}
  Devices = {d1, d2}
  Streams = {s1, s2}
  Ptrs = {p1}
  Events = {e1, e2}
  Pools = {g1}
  NoPool = NoPool
  NoReq = NoReq
  Sizes = {1}
  Thresholds = {2}
  DefaultThreshold = 2
  EnableValues = {}
  Filters <- EveryStream
  StreamDevice <- StreamPerDevice
  AllocStreams = {s1}
  PtrDevice <- OnDevice1
  PtrLarge <- AllSmall
  KeepPoolPtrs = TRUE
  Faults = {"create"}
  MaxHeld = 2
  MaxActivePools = 1
  MaxQueue = 0
SPECIFICATION FairSpec
INVARIANTS PoolTracking OneOwner NothingLost
PROPERTY OperationsEnd
CHECK_DEADLOCK FALSE
