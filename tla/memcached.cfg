SPECIFICATION Spec
CONSTANTS
  NrClient = 2
  NrWarmupOp = 1
  NrOp = 3
  NrEntry = 2
  Types <- ThreeTypes
  Missing = Missing
  Loaded = Loaded
INVARIANTS
  HandlesBalanced
  RepliesOwned
  BufferNotFreed
PROPERTIES
  ImplementsSession
