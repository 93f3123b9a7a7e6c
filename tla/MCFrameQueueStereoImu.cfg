SPECIFICATION Spec
CONSTANTS
  None = None
  Samples = Samples
  Mode = "StereoImu"
  Capacity = 2
  Times <- MCTimes
  Batches <- MCBatches
INVARIANTS
  AccountingValid
  CapacityRespected
  FramesInOrder
  StartupPairShape
PROPERTIES
  ReservationsAreKept
CHECK_DEADLOCK FALSE
