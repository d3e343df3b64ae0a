SPECIFICATION Spec
CONSTANTS
  None = None
  ChunkBytes = 2
  CancelMayFail = TRUE
  MaxBytes = 6
  MaxSessions = 2
  MaxFailures = 2
CHECK_DEADLOCK FALSE
INVARIANTS
  TypeOK
  BufferOwnership
  ErrorsJustified
PROPERTIES
  Contract
  CloseReturns
