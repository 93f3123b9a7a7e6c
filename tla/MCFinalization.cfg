SPECIFICATION Spec
CONSTANTS
  None = None
  MaxFailures = 3
INVARIANTS
  StepPreconditions
  MarkerCertifiesExports
  FailuresAreEvidence
  OneFailureIsOneFailure
CHECK_DEADLOCK FALSE
