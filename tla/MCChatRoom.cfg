SPECIFICATION Spec
CONSTANTS
    None = None
    ann = ann
    up = up
    down = down
    heart = heart
    tap1 = tap1
    tap2 = tap2
    MaxInFlight = 2
    Cap = 1
    PageSize = 1
    MaxTime = 1
    User <- MCUser
    Message <- MCMessage
    Emoji <- MCEmoji
    Client <- MCClient
    Call <- MCCall
    Liked <- MCLiked
SYMMETRY Symmetry
CONSTRAINTS Concurrency OneTopic
CHECK_DEADLOCK FALSE
INVARIANTS
    TypeOK
    MissedOnlyIfUnsavedOrTied
    DeletionReachesEveryone
    DivergesOnlyIfOvertaken
    CapOverrunBounded
    DecorationLostOnlyIfThrown
