SPECIFICATION GuestSpec
CONSTANTS
  a = a
  b = b
  c = c
  d = d
  e = e
  v = v
  x = x
  y = y
  z = z
  Zero = Zero
  Raw = Raw
  OldLeaf <- Before
  NewLeaf <- After
  Sizes <- UpToFive
  MixUps <- UpToFour
INVARIANTS TypeOK OwnProofAccepted OnlyItsLeavesAccepted ProofsAgree LayerHoldsUpdatedRoots OnlyZeroUpdatesProven OnlyUnhashedInsertsProven
CHECK_DEADLOCK FALSE
