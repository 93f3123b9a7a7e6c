SPECIFICATION ProcessSpec
CONSTANTS
  None = None
  MaxFailures = 1
  MaxCancelFailures = 0
  ViewerEnabled = TRUE
INVARIANT
  CapturedActionsValid
CHECK_DEADLOCK FALSE
