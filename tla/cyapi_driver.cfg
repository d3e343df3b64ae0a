\* Two bytes to a request, three sessions, two failures.
SPECIFICATION Spec
CONSTANTS
    ChunkBytes = 2
    MaxBytes = 4
    MaxSessions = 3
    MaxFailures = 2
INVARIANTS TypeOK BufferOwnership ErrorsJustified
PROPERTIES Contract CloseReturns
CHECK_DEADLOCK FALSE
