\* Three requests: two that compete for a token and one that comes later.
SPECIFICATION FairSpec
CONSTANTS
    Unset = Unset
    BadValue = BadValue
    NumReqs = 3
    Raws <- MCRaws
    Second = 2
    Drain = 2
    MaxTime = 5
    DefaultWriteTimeout = 2
    DefaultRequestTimeout = 3
    DefaultRPS = 1
    DefaultBurst = 1
INVARIANTS
    AdmittedWithinBudget
    RefusedTakeNothing
    OnlyDueCuts
PROPERTY
    StopsWhenAsked
CHECK_DEADLOCK FALSE
