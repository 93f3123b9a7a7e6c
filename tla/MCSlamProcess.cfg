SPECIFICATION FairProcessSpec
CONSTANTS
  None = None
  MaxFailures = 1
  MaxCancelFailures = 2
  ViewerEnabled = TRUE
INVARIANTS
  QuiescentTeardown
  ExitCodeTruthful
  UpstreamShutDownOnce
PROPERTY
  StopEndsProcess
CHECK_DEADLOCK FALSE
