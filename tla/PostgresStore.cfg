SPECIFICATION FairSpec
CONSTANTS
  leafA = leafA
  leafB = leafB
  leafC = leafC
  rootR = rootR
  None = None
  Sessions = {c1, c2}
  Leaves <- MCLeaves
  Roots <- MCRoots
  Batches <- MCBatches
  Changes <- MCChanges
  LastSerial = 3
  StatementFaults = TRUE
INVARIANTS TypeOK ReturnedNumbersLoad LookupsRight
PROPERTIES PromiseSpec CallsEnd
CHECK_DEADLOCK FALSE
