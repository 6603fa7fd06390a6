SPECIFICATION Spec
CONSTANTS
    Null = Null
    LowerWords <- MCLowerWords
    UpperWords <- MCUpperWords
    Lower <- MCLower
    Invisible = {}
    Base64 = {}
    Hex <- MCHex
    MaxDigits = 5
    Object <- MCObject
    Alphabet <- MCAlphabet
    DefaultLimit = 2
    MaxLimit = 3
    Infinity = 1000
    AllowedFields <- MCAllowedFields
    Worth <- MCWorth
    Meaning <- MCMeaning
    IsScenario <- MCScenario
CHECK_DEADLOCK FALSE
INVARIANTS
    WalkIsWhole
    AnswerIsPreferred
