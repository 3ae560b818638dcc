SPECIFICATION Spec
CONSTANTS
  NrClient = 1
  NrWarmupOp = 0
  NrOp = 2
  NrEntry = 3
  ScanLengths <- OnlyTwo
  LoadedSets <- AllLoaded
  Types <- YcsbE
  Missing = Missing
  Loaded = Loaded
INVARIANTS
  ScansReachTheirLength
