SPECIFICATION Spec
CONSTANTS
  NrClient = 2
  NrWarmupOp = 1
  NrOp = 2
  NrEntry = 3
  ScanLengths <- ZeroAndTwo
  LoadedSets <- WithGap
  Types <- FourTypes
  Missing = Missing
  Loaded = Loaded
INVARIANTS
  SessionsBalanced
  ScanReadsRun
PROPERTIES
  ImplementsSession
