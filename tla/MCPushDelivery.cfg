SPECIFICATION Spec
CONSTANTS
    None = None
    i1 = i1
    i2 = i2
    i3 = i3
    i4 = i4
    Device <- MCDevice
    Native <- MCNative
    Platform <- MCPlatform
    Id <- MCId
    FanOut <- MCFanOut
    MaxAddress = 2
    Window = 2
    MaxTime = 3
SYMMETRY Symmetry
CHECK_DEADLOCK FALSE
INVARIANTS
    NoSecondBuzz
PROPERTIES
    LostOnlyIfReplaced
    AnnouncedAfterQuiet
