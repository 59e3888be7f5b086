\* Two IDs, two sources: enough for an entry of the target, of another target,
\* and for several entries of the same one in either order.
SPECIFICATION ResolveSpec
CONSTANTS
    None = None
    i1 = i1
    i2 = i2
    s1 = s1
    s2 = s2
    MaxEntries = 3
    Ids <- MCIds
    Sources <- MCSources
    Policies <- MCPolicies
INVARIANTS
    TypeOK
    ReturnsTheDecision
CHECK_DEADLOCK FALSE
