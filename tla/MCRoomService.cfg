SPECIFICATION Spec
CONSTANTS
    r1 = r1
    r2 = r2
    s1 = s1
    s2 = s2
    None = None
    Room <- MCRoom
    Socket <- MCTwoSockets
    Worker <- MCWorker
    Router <- MCRouter
    MaxClosings = 1
SYMMETRY MCSymmetry
INVARIANTS
    TypeOK
    SlotLoadCountsRooms
    NoLeakedRouter
    OwnWorkersPorts
PROPERTIES
    RouterNotClosedUnderPeer
    ImplementsHosting
CHECK_DEADLOCK FALSE
