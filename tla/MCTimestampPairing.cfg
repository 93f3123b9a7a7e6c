SPECIFICATION Spec
CONSTANTS
  None = None
  Stamps <- MCStamps
  Tolerance = 1
  Window = 2
  MaxMessages <- MCMaxMessages
INVARIANTS
  Accounting
  PairingExact
CHECK_DEADLOCK FALSE
