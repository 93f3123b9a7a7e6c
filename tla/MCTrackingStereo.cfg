SPECIFICATION Spec
CONSTANTS
  None = None
  Invalid = Invalid
  Mode = "Stereo"
  Capacity = 1
  LastTime = 5
  Times <- MCTimes
  FrameTimes <- MCFrameTimes
  Stamps <- MCStamps
  Seconds <- MCSeconds
  Batches <- MCBatches
  ImuInputs <- MCImuInputs
  BufferCapacity = 2
  MaxGap = 2
  MaxReceived = 0
  ImuWaitTimeout = 1
PROPERTIES
  ImplementsFrameQueue
CHECK_DEADLOCK FALSE
