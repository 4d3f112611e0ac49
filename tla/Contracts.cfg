SPECIFICATION ContractsSpec
CONSTANTS
  rootA = rootA
  rootB = rootB
  rootC = rootC
  imageOld = imageOld
  imageNew = imageNew
  RootValues <- MCRootValues
  Images = {imageOld, imageNew}
  Receipts <- MCReceipts
  MaxEvents = 3
  Addresses = {zero, i1, i2, i3}
  ZeroAddress = zero
  Names <- MCNames
  Limits = {0, 1, 2, 4}
  MaxWord = 4
INVARIANTS EventsTellRoots ListIsMapping PagesComplete
PROPERTIES IssuersKeep
CHECK_DEADLOCK FALSE
