SPECIFICATION Spec
CONSTANTS
  NrOp = 2
  NrEntry = 3
  Proportions <- OnlyYcsbB
  Draws <- Boundaries
  RandMax = 3
  Hashes <- TwoHashes
  Lines <- AllTraceLines
INVARIANTS
  EveryDrawIsAnOperation
