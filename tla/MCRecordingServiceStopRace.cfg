SPECIFICATION Spec
CONSTANTS
    a = a
    b = b
    None = None
    Start <- MCOneStart
    Producer <- MCOneWebcam
    Owner <- MCOwner
    Source <- MCSource
    MaxAttempts = 1
    PortMin = 2
    PortMax = 5
INVARIANT StopFinalizesEverything
CHECK_DEADLOCK FALSE
