SPECIFICATION FairSpec
CONSTANTS
  leafA = leafA
  leafB = leafB
  leafC = leafC
  Malformed = Malformed
  Zero = Zero
  None = None
  Requests = {r1, r2, r3}
  Calls <- PlainCalls
  Leaves = {leafA, leafB, leafC}
  MaxBatchSize = 2
  InCap = 1
  OutCap = 1
  LastSeq = 1
  OverflowChecks = TRUE
  ReadFaults = TRUE
  CounterFaults = FALSE
  WriteFaults = TRUE
  StoredAtStart <- FreshOrFull
  MaxCrashes = 0
PROPERTIES EveryCallAnswered
CHECK_DEADLOCK FALSE
