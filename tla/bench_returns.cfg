SPECIFICATION FairSpec
CONSTANTS
  NrThread = 2
  NrOpType = 1
  NrOp <- TwoOne
  MaxProgress = 3
  LatencyFile = TRUE
PROPERTIES
  RunReturns
