SPECIFICATION Spec
CONSTANTS
  NrOp = 4
  NrEntry = 2
  Proportions <- AllShipped
  Draws <- Boundaries
  RandMax = 3
  Hashes <- TwoHashes
  Lines <- AllTraceLines
INVARIANTS
  TypeOK
  LastOpFlagged
  LatestHitsOwnInserts
  DrawsAsConfigured
  KeysOfDatabase
  TraceReplayed
