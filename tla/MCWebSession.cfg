SPECIFICATION Spec
CONSTANTS
    Null = Null
    Invalid = Invalid
    LowerWords <- MCLowerWords
    UpperWords <- MCUpperWords
    Lower <- MCLower
    Invisible <- MCInvisible
    Base64 <- MCBase64
    Hex <- MCHex
    MaxDigits = 5
    Counters = {"k1", "k2", "k3"}
    Encoded <- MCEncoded
    Hash <- MCHash
    VerifierSize = 1
    MonthNames <- MCMonthNames
    MonthOf <- MCMonthOf
    WeekdayOf <- MCWeekdayOf
    Moment <- MCMoment
    IsScenario <- MCScenario
CHECK_DEADLOCK FALSE
INVARIANTS
    ChallengesAreRead
    OnlyTheSecretIsAccepted
    AnswerIsProven
    NoCookieStrays
    CookiesComeBack
