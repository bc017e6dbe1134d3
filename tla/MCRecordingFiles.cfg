SPECIFICATION Spec
CONSTANTS
    GcsBucket = TRUE
    None = None
CHECK_DEADLOCK FALSE
INVARIANTS
    CaptureSurvives
    LinkPlaysUnlessUnrecorded
    PageIsCurrent
PROPERTY FinalThumbnailStays
