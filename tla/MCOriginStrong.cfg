SPECIFICATION Spec
CONSTANTS
    Null = Null
    BadDate = BadDate
    TicksPerSecond = 2
    Client = {c1, c2, c3}
    Deleter = {c3}
    WriteBy = {"tag"}
    RevalidateBy = {"tag", "both"}
    WeakTags = FALSE
    Hash <- PerfectHash
    MaxClock = 3
    MaxLosses = 1
INVARIANTS
    TypeOK
    NoLostUpdate
    CopyMatchesTag
PROPERTIES
    NoResurrection
    ImplementsAtomicEdits
CHECK_DEADLOCK FALSE
