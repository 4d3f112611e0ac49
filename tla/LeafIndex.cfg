SPECIFICATION IndexSpec
CONSTANTS
  leafA = leafA
  leafB = leafB
  leafC = leafC
  rootR = rootR
  None = None
  Leaves <- MCLeaves
  Roots <- MCRoots
  Batches <- MCBatches
  Changes <- MCChanges
  LastSeq = 3
  OverflowChecks = TRUE
  ReadFaults = TRUE
  CounterFaults = FALSE
  WriteFaults = TRUE
INVARIANTS TypeOK NumbersAligned IndexSound SingleLeavesFound LookupNeverDangles
PROPERTIES PromiseSpec
CHECK_DEADLOCK FALSE
