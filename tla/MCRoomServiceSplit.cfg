SPECIFICATION Spec
CONSTANTS
    r1 = r1
    r2 = r2
    s1 = s1
    s2 = s2
    None = None
    Room <- MCOneRoom
    Socket <- MCTwoSockets
    Worker <- MCWorker
    Router <- MCRouter
    MaxClosings = 1
INVARIANT PeersShareRouter
CHECK_DEADLOCK FALSE
