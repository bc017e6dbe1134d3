SPECIFICATION Spec
CONSTANTS
    a = a
    b = b
    None = None
    Start <- MCOneStart
    Producer <- MCOnePeer
    Owner <- MCOwner
    Source <- MCSource
    MaxAttempts = 2
    PortMin = 1
    PortMax = 6
CHECK_DEADLOCK FALSE
CONSTRAINT TwoTakes
INVARIANTS
    TypeOK
    PortsExclusive
    NoPortLeaks
    RowsMatchFiles
    ClosedSessionsLeave
    StoppedMeansStored
    FailedStartLeavesNothing
