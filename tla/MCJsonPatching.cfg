SPECIFICATION Spec
CONSTANTS
    Token <- MCToken
    IndexToken <- MCIndexToken
    Path <- MCPath
    BadPointer <- MCBadPointer
    BadValue <- MCBadValue
    PercentEncoded <- MCPercentEncoded
    NotJson = NotJson
    CallerHeap <- MCCallerHeap
    x = x
    Null = Null
    Target = {14}
    OperationValue = {1, x}
    MergeTarget <- MCMergeTarget
    MergeValue <- MCMergeValue
    Missing = Missing
    MaxDepth = 2
    MaxOperations = 2
    MaxParsed = 1
INVARIANTS
    CallerUntouched
    WorkingIsATree
PROPERTIES
    ImplementsMeaning
CHECK_DEADLOCK FALSE
