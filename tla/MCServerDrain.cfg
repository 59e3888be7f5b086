\* One request in flight is enough to see it cut off.
SPECIFICATION FairSpec
CONSTANTS
    Unset = Unset
    BadValue = BadValue
    NumReqs = 2
    Raws <- MCRaws
    Second = 2
    Drain = 2
    MaxTime = 5
    DefaultWriteTimeout = 2
    DefaultRequestTimeout = 3
    DefaultRPS = 1
    DefaultBurst = 1
PROPERTY
    GracefulDrain
CHECK_DEADLOCK FALSE
