SPECIFICATION WaitSpec
CONSTANTS
  None = None
  Invalid = Invalid
  Mode = "StereoImu"
  Capacity = 2
  LastTime = 4
  Times <- MCTimes
  FrameTimes <- MCFrameTimes
  Stamps <- MCStamps
  Seconds <- MCSeconds
  Batches <- MCBatches
  ImuInputs <- MCImuInputs
  BufferCapacity = 2
  MaxGap = 2
  MaxReceived = 4
  ImuWaitTimeout = 2
INVARIANT
  TimeoutIsContinuousWait
CHECK_DEADLOCK FALSE
