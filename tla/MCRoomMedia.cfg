SPECIFICATION Spec
CONSTANTS
    None = None
    Socket <- MCSocket
    Producer <- MCProducer
    Owner <- MCOwner
    Source <- MCSource
    MaxJoins <- MCMaxJoins
    MaxTransports <- MCMaxTransports
    MaxToggles = 1
CONSTRAINT OneStreamTwoRepeats
CHECK_DEADLOCK FALSE
INVARIANTS
    NoStreamMissing
    NoOrphanStream
    KeyframeFollows
