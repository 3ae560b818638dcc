SPECIFICATION FairSpec
CONSTANTS
  NrClient = 2
  NrEntry = 2
  Configs <- SixConfigs
  Types <- AllKinds
  Hash <- TwoKeys
  Missing = Missing
  OK = OK
  Refused = Refused
INVARIANTS
  HandlesBalanced
  RepliesOwned
  BatchCountsOutstanding
  BatchBounded
  SingleReadDelivers
  LatestReadsHit
PROPERTIES
  ImplementsSession
  WorkersExit
