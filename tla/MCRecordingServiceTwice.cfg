SPECIFICATION Spec
CONSTANTS
    a = a
    b = b
    None = None
    Start <- MCStart
    Producer <- MCOneWebcam
    Owner <- MCOwner
    Source <- MCSource
    MaxAttempts = 1
    PortMin = 2
    PortMax = 5
INVARIANT OneSession
CHECK_DEADLOCK FALSE
