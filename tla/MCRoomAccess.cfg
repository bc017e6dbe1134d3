SPECIFICATION Spec
CONSTANTS
    None = None
    ann = ann
    bob = bob
    MaxInFlight = 2
    User <- MCUser
    Module <- MCModule
    Private <- MCModule
    Led <- MCModule
    Untitled <- MCModule
    Invitation <- MCInvitation
    Click <- MCClick
SYMMETRY Symmetry
CONSTRAINT Concurrency
CHECK_DEADLOCK FALSE
INVARIANTS
    OneOwner
    OneCreation
    RevokedGrantsNothing
PROPERTIES
    PrivateUnlessOvertaken
    NoDemotionUnlessOvertaken
