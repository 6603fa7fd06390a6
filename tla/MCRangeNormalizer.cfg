SPECIFICATION Spec
CONSTANTS
    Null = Null
    BadDate = BadDate
    TicksPerSecond = 2
    Infinity = Infinity
    MaxSize = 3
    MaxRanges = 3
    MaxPosition = 4
INVARIANTS
    ExactCoverage
    Separated
CHECK_DEADLOCK FALSE
