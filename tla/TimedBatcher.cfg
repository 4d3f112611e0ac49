SPECIFICATION TimedSpec
CONSTANTS
  Items = {i1, i2, i3, i4}
  MaxBatchSize = 3
  InCap = 2
  OutCap = 1
  MaxWait = 2
INVARIANTS TimedTypeOK NothingStranded FlushDueInTime
PROPERTIES PipeSpec NoEarlyFlush EveryItemLeavesInTime
CHECK_DEADLOCK FALSE
