SPECIFICATION Spec
CONSTANTS
  leafA = leafA
  leafB = leafB
  leafC = leafC
  Malformed = Malformed
  Zero = Zero
  None = None
  Requests = {r1, r2, r3}
  Calls <- AllCalls
  Leaves = {leafA, leafB, leafC}
  MaxBatchSize = 2
  InCap = 1
  OutCap = 1
  LastSeq = 3
  OverflowChecks = TRUE
  ReadFaults = TRUE
  CounterFaults = FALSE
  WriteFaults = TRUE
  StoredAtStart <- Used
  MaxCrashes = 1
SYMMETRY Symmetry
INVARIANTS
  TypeOK AcceptedMeansCommitted ErrorMeansNoEffect CommittedOnce
  NoInnocentFailure LoadedCurrent TreeHasLeaf StoreSound
PROPERTIES OnlyRequestedChanges
CHECK_DEADLOCK FALSE
