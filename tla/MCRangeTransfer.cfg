SPECIFICATION Spec
CONSTANTS
    Null = Null
    BadDate = BadDate
    TicksPerSecond = 2
    Infinity = Infinity
    MaxVersion = 3
    SizeOf <- Sizes
    TagOf <- OwnTag
    MaxClock = 5
    ResumeBy = {"tag", "date"}
    WeakTags = FALSE
INVARIANTS
    CompleteFile
CHECK_DEADLOCK FALSE
