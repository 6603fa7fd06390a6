SPECIFICATION Spec
CONSTANTS
    Char = {"a", "b", "*", "$"}
    PathChar = {"a", "b"}
    MaxPattern = 4
    MaxValue = 4
INVARIANTS
    AnswerIsExact
    WorkBound
PROPERTIES
    Returns
CHECK_DEADLOCK FALSE
