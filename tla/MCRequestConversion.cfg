SPECIFICATION Spec
CONSTANTS
    Fields <- MCFields
    TrailerFields <- MCTrailerFields
    Tails <- MCTails
    Targets <- MCTargets
    MaxFields = 4
    MaxTrailers = 1
    MaxCuts = 1
INVARIANTS
    TypeOK
    ValuesKept
    ConvertedExactly
    UpgradeNeverPlain
    SwitchFindsRequest
CHECK_DEADLOCK FALSE
