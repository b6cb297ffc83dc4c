\* One thread; violated: the failed attempts of a small request keep their pages.
CONSTANTS
  t1 = t1
  t2 = t2
  Threads = {t1}
  kLargeBlockSizes <- MCClasses
  kMinBlockAlign = 1
  kSmallBlockSize = 1
  threshold_ = 3
  Requests = {1, 2}
  Capacity = 2
SPECIFICATION Spec
PROPERTY OomUnrecoverable
CHECK_DEADLOCK FALSE
