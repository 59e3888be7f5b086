\* A watch is stopped and another started before the collector runs.
SPECIFICATION Spec
CONSTANTS
    Watches = {w1, w2}
    Fds = {3, 4, 5}
    Free = Free
    Other = Other
    ChanCap = 1
    PipeCap = 2
    BufLen = 2
    MaxChanges = 0
    MaxOthers = 0
INVARIANTS
    NoDoubleClose
CHECK_DEADLOCK FALSE
