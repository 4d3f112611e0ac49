SPECIFICATION Spec
CONSTANTS
  leafA = leafA
  leafB = leafB
  leafC = leafC
  Malformed = Malformed
  Zero = Zero
  None = None
  Requests = {r1, r2, r3}
  Calls <- PlainCalls
  Leaves = {leafA, leafB, leafC}
  MaxBatchSize = 2
  InCap = 2
  OutCap = 1
  LastSeq = 3
  OverflowChecks = TRUE
  ReadFaults = FALSE
  CounterFaults = FALSE
  WriteFaults = FALSE
  StoredAtStart <- Fresh
  MaxCrashes = 0
INVARIANTS StoredRootIsCurrent
CHECK_DEADLOCK FALSE
