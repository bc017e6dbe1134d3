SPECIFICATION FairSpec
CONSTANTS
    None = None
    Room <- MCRoom
    Socket <- MCSocket
    Worker <- MCWorker
    Router <- MCRouter
    MaxClosings = 1
    Producer <- MCProducer
    Owner <- MCOwner
    Source <- MCSource
    Start <- MCStart
    MaxAttempts = 1
    PortMin = 2
    PortMax = 3
    Dropping <- MCDropping
CHECK_DEADLOCK FALSE
INVARIANTS
    RecordingStopsWithRoom
PROPERTIES
    RouterOutlivesFinalization
    JoinSettles
    EmptiedRoomReleased
    EveryStartSettles
    EveryStopSettles
