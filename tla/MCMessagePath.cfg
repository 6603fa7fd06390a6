SPECIFICATION Spec
CONSTANTS
    Null = Null
    LowerWords <- MCLowerWords
    UpperWords <- MCUpperWords
    Lower <- MCLower
    Upper <- MCUpper
    Invisible <- MCInvisible
    Base64 = {"s1", "s2", "d1", "d2", "e1", "e2", "by"}
    Hex <- MCHex
    MaxDigits = 5
    Decode <- MCDecode
    Wrap <- MCWrap
    Hash <- MCHash
    Width <- MCWidth
    HexSymbols = {"00", "01", "02", "03", "ff", "cc", "t0", "t1", "t2", "p0", "p1", "p2"}
    Zeros = {"t0", "p0"}
    FlagBytes <- MCFlagBytes
    KeyLetters = {"a", "k", "v", "w", "y"}
    KeyDigits = {"1"}
    KeyPunctuation = {"_", "-", "*", "/"}
    ValueCharacters = {"1", "a"}
    MAX_TRACESTATE_MEMBERS = 3
    MAX_TRACESTATE_LENGTH = 16
    MAX_TENANT_LENGTH = 2
    MAX_SYSTEM_LENGTH = 2
    MAX_KEY_LENGTH = 5
    InheritedNames = {}
    Bytes <- MCBytes
    BytesText <- MCBytesText
    IsScenario <- MCScenario
    MaxHops = 2
CHECK_DEADLOCK FALSE
INVARIANTS
    SignedIsVerified
    AcceptedIsWhatWasSigned
    AcceptedBodyIsTheSignedBody
    TraceIsHandedOn
    ChainIsWhole
