CONSTANTS
  t1 = t1
  t2 = t2
  Threads = {t1, t2}
  Programs <- MCBlocking
  RPC_TAG_COUNT = 4
SPECIFICATION Spec
INVARIANT ReturnsTheCode
CHECK_DEADLOCK FALSE
