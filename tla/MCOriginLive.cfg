SPECIFICATION FairSpec
CONSTANTS
    Null = Null
    BadDate = BadDate
    TicksPerSecond = 2
    Client = {c1, c2}
    Deleter = {}
    WriteBy = {"tag", "date"}
    RevalidateBy = {"tag", "date", "both"}
    WeakTags = FALSE
    Hash <- PerfectHash
    MaxClock = 3
    MaxLosses = 1
PROPERTIES
    EveryEditLands
    LossWithinOneSecond
CHECK_DEADLOCK FALSE
