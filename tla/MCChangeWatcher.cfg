\* Two watches one after the other, one descriptor used elsewhere.
SPECIFICATION FairSpec
CONSTANTS
    Watches = {w1, w2}
    Fds = {3, 4, 5}
    Free = Free
    Other = Other
    ChanCap = 1
    PipeCap = 2
    BufLen = 2
    MaxChanges = 2
    MaxOthers = 1
INVARIANTS
    TypeOK
    SignalUnderWay
    RunningOwnsPipe
    DoneGivesBack
PROPERTIES
    CancelCloses
    ChangesAreSeen
CHECK_DEADLOCK FALSE
