\* One thread: routing under a moving threshold, captures of one of two streams, failing CUDA events, and running out of memory.
CONSTANTS
  t1 = t1
  t2 = t2
  p1 = p1
  p2 = p2
  e1 = e1
  e2 = e2
  e3 = e3
  s1 = s1
  s2 = s2
  d1 = d1
  d2 = d2
  g1 = g1
  g2 = g2
  Threads = {t1}
  Devices = {d1}
  Streams = {s1, s2}
  Ptrs = {p1, p2}
  Events = {e1, e2}
  Pools = {g1}
  NoPool = NoPool
  NoReq = NoReq
  Sizes = {2}
  Thresholds = {2, 3}
  DefaultThreshold = 2
  EnableValues = {TRUE, FALSE}
  Filters <- OnlyFirst
  StreamDevice <- OneDevice
  AllocStreams = {s1, s2}
  PtrDevice <- OnDevice1
  PtrLarge <- FirstLarge
  KeepPoolPtrs = FALSE
  Faults = {"create", "record"}
  MaxHeld = 3
  MaxActivePools = 1
  MaxQueue = 0
SYMMETRY ThreadEventSymmetry
SPECIFICATION Spec
INVARIANTS RoutedHome StatsAgree
PROPERTY OomOnlyWhenLive
CHECK_DEADLOCK FALSE
