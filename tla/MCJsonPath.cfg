SPECIFICATION Spec
CONSTANTS
    Null = Null
    Absent = Absent
    FunctionName <- MCFunctionName
    MaxExpressionDepth = 3
    StringLength <- MCStringLength
    Regex <- MCRegex
    DefaultLimits <- MCDefaultLimits
    Sentences <- MCSentences
    Documents <- MCDocuments
    Heap <- MCHeap
    Options <- MCOptions
    DamagedOn <- MCDamagedOn
    Entries <- MCEntries
    Letters <- MCLetters
    Controls <- MCControls
    HighSurrogates = {"high"}
    LowSurrogates = {"low"}
    Hex <- MCHex
    Words <- MCWords
    OtherString = 11
    Number <- MCNumber
    MaxInteger = 99
CHECK_DEADLOCK FALSE
INVARIANTS
    SelectsExactly
    PathsLeadBack
    RefusedOverLimit
    ReadsWhatIsWritten
