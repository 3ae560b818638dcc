SPECIFICATION FairSpec
CONSTANTS
  NrThread = 3
  NrOpType = 2
  NrOp <- OneOneNone
  MaxProgress = 2
  LatencyFile = TRUE
INVARIANTS
  TypeOK
  ReportIsComplete
  CountsMatchSamples
  RtCountsConserved
  ProgressBounded
  LifecycleInv
  StartWindow
  StartIffEnd
  OwnersOutlive
PROPERTIES
  WindowWrittenOnce
  OverlapReturns
  ImplementsMeasuredRun
