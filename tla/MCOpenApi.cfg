SPECIFICATION Spec
CONSTANTS
    Null = Null
    Invalid = Invalid
    Collation <- MCCollation
    FoldCase <- MCFold
    IsScenario <- MCScenario
CHECK_DEADLOCK FALSE
INVARIANTS
    LintedRoutesHome
    LintedParametersAreBound
    ParameterComesBack
    MoreCredentialsNeverDeny
    CallbackUrlIsWhole
