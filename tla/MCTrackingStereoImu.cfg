SPECIFICATION FairSpec
CONSTANTS
  None = None
  Invalid = Invalid
  Mode = "StereoImu"
  Capacity = 2
  LastTime = 5
  Times <- MCTimes
  FrameTimes <- MCThreeFrameTimes
  Stamps <- MCStamps
  Seconds <- MCSeconds
  Batches <- MCBatches
  ImuInputs <- MCImuInputs
  BufferCapacity = 3
  MaxGap = 2
  MaxReceived = 4
  ImuWaitTimeout = 1
INVARIANTS
  NoInternalError
  PermitsMatchCalls
  SamplesConserved
  BoundaryIsLastSampledFrame
  FailuresStopTheProcess
  WaitsBelongToWork
PROPERTIES
  ImplementsFrameQueue
  StopQuiesces
  ReservedWorkProgresses
CHECK_DEADLOCK FALSE
