CONSTANTS
  t1 = t1
  t2 = t2
  p1 = p1
  p2 = p2
  Threads = {t1, t2}
  Processes = {p1, p2}
  Scenarios <- MCScenarios
  MaxCalls = 2
  EagerLimit = 1
  GIVEN = GIVEN
  NULL = NULL
  ZOIDFS_PATH_MAX = 4
  PIPELINE_SIZE = 2
  max_buffer_size = 2
  UNEXPECTED_SIZE = 1
  BATCH_SIZE = 1
  ZOIDFS_BMI_MINTAG = 0
  ZOIDFS_BMI_MAXTAG = 4
  ZOIDFS_PROTO_MAX = 16
  MaxReceives = 6
SPECIFICATION FairSpec
INVARIANT TransfersExact
PROPERTIES ImplementsCalls EventuallyReturned
