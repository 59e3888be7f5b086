\* Three keys for two places, a window of two ticks: entries expire, are
\* refreshed in place and are pushed out.
SPECIFICATION Spec
CONSTANTS
    Keys = {k1, k2, k3}
    Values = {v1}
    Cap = 2
    Window = 2
    MaxTime = 5
INVARIANTS
    CacheConsistent
PROPERTIES
    LeavesOnlyWhenDue
