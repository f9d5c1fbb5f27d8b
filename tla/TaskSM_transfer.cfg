CONSTANTS
  MaxSegments = 3
  Sizes = {1, 2, 3, 4, 5}
  Requests <- MCRequests
  PipelineSizes = {1, 2, 3, 4, 6}
  Writers = {w1}
  Readers = {r1}
  MaxOps = 2
  max_buffer_size = 2
  Transfers <- MixedTransfers
  Allocs <- MCAllocs
  NoAlloc = NoAlloc
  numTokens_ = 2
  memAmount_ = 3
SPECIFICATION MCSpec
INVARIANTS
  SegmentsExact
  ReplyComplete
  TransferInOrder
  MemoryInUse
  BarrierArmed
  LimitsKept
PROPERTIES
  CutTerminates
  EventuallyReplied
