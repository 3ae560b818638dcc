SPECIFICATION PacingSpec
CONSTANTS
  NrOp = 5
  Intervals <- ZeroAndTwo
  NextOpTimes <- Quick
  Latencies <- OneToFive
INVARIANTS
  ServedOnSchedule
