\* Three threads allocate and free at once, and reset the counters meanwhile.
CONSTANTS
  t1 = t1
  t2 = t2
  t3 = t3
  Threads = {t1, t2, t3}
  Sizes = {1, 2}
  MaxCalls = 4
SYMMETRY Symmetry
SPECIFICATION Spec
INVARIANTS PeakExact CountersExact AggregatePeakCovers
CHECK_DEADLOCK FALSE
