SPECIFICATION DemoSpec
CONSTANTS
  old1 = old1
  old2 = old2
  old3 = old3
  old4 = old4
  new1 = new1
  new2 = new2
  new3 = new3
  new4 = new4
  s1 = s1
  s2 = s2
  s3 = s3
  s4 = s4
  u1 = u1
  u2 = u2
  u3 = u3
  u4 = u4
  Malformed = Malformed
  Zero = Zero
  None = None
  Issuers = 4
  MaxUpdates = 2
  submitOf <- Submissions
  updateOf <- Updates
  rootOfIssuer <- OldRoots
  newRootOfIssuer <- NewRoots
  Requests = {s1, s2, s3, s4, u1, u2, u3, u4}
  Calls <- DemoCalls
  Leaves = {old1, old2, old3, old4, new1, new2, new3, new4}
  MaxBatchSize = 2
  InCap = 2
  OutCap = 1
  LastSeq = 3
  OverflowChecks = TRUE
  ReadFaults = FALSE
  CounterFaults = FALSE
  WriteFaults = FALSE
  StoredAtStart <- Fresh
  MaxCrashes = 0
INVARIANTS SignedPair
CHECK_DEADLOCK FALSE
