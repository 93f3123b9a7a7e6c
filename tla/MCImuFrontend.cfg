SPECIFICATION Spec
CONSTANTS
  None = None
  Stamps <- MCStamps
  Times <- MCTimes
  Seconds <- MCSeconds
  BufferCapacity = 3
  MaxGap = 2
  MaxReceived = 5
INVARIANTS
  ExactlyOnceDelivery
  BufferIsRecentHistory
  LostHistoryClassified
PROPERTIES
  ImplementsDelivery
  AnswersAreFinal
