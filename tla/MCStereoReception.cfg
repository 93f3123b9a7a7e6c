SPECIFICATION ReceptionSpec
CONSTANTS
  None = None
  Reasons = {"InputIdle", "CallbackError", "CancelError", "ViewerStop"}
  OtherReasons = {"ViewerStop"}
  MaxBackendStarts = 1
  Stamps <- MCStamps
  MaxGap = 1
  TraceCapacity = 3
  Timeouts = {0, 2}
  MaxImages <- MCMaxImages
INVARIANTS
  CausesConsistent
  FiguresAgree
  OneReportPerSilence
PROPERTIES
  GateOnlyCloses
  SilenceIsReported
CHECK_DEADLOCK FALSE
