CONSTANTS
  t1 = t1
  t2 = t2
  Threads = {t1, t2}
  Programs <- MCPrograms
  RPC_TAG_COUNT = 4
SPECIFICATION FairSpec
INVARIANTS ResultsDelivered UsedAlive
PROPERTY EventuallySettled
\* The program ends; that it ends nowhere else is EventuallySettled.
CHECK_DEADLOCK FALSE
