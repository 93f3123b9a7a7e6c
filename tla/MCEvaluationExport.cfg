SPECIFICATION Spec
CONSTANTS
  None = None
  NoResult = NoResult
  Absent = Absent
  Malformed = Malformed
  Capacity = 2
  PoseEnabled = TRUE
  Returns <- MCReturns
  MaxFrames = 3
  MaxRows = 1
CONSTRAINT TrajectoryOnce
INVARIANTS
  SummaryExact
  MarkerCertifiesFigures
  PublishedComplete
CHECK_DEADLOCK FALSE
