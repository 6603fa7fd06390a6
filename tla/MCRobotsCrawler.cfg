SPECIFICATION Spec
CONSTANTS
    Agent <- MCAgent
    Star = "*"
    TokenLength <- MCTokenLength
    Visitor <- MCVisitor
    TokensIn <- MCTokensIn
    Pattern <- MCPattern
    PatternLength <- MCPatternLength
    Path <- MCPath
    PathsOf <- MCPathsOf
    Delay = {5}
    Url = {"u"}
    Empty = Empty
    Null = Null
    MaxLines = 4
    MaxRules = 2
INVARIANTS
    RulesReachTheirAgents
    RoundTripWithRules
    AnswersFollowRules
CHECK_DEADLOCK FALSE
