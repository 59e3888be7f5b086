\* One request, any method; two foreign edits and one policy reload around it.
SPECIFICATION Spec
CONSTANTS
    c1 = c1
    c2 = c2
    e1 = e1
    e2 = e2
    h = h
    tA = tA
    ta = ta
    aA = aA
    aa = aa
    None = None
    Unborn = Unborn
    Gone = Gone
    Calendars <- MCCalendars
    Events <- MCEvents
    Handles <- MCHandles
    Titles <- MCTitles
    Accounts <- MCAccounts
    SourceOf <- MCSourceOf
    Immutable <- MCImmutable
    Lower <- MCLower
    PrefixOf <- MCPrefixOf
    Policies <- MCPolicies
    Calls <- MCCalls
    Requests = {r1}
    MaxEdits = 2
    MaxSwaps = 1
    ReadCalls = TRUE
    WriteCalls = TRUE
    BatchCalls = TRUE
INVARIANTS
    TypeOK
    NoSilentMisplacement
    QuietWritesGuarded
    ReadsInScope
    RefusedMeansUntouched
    BatchReportsTruth
CHECK_DEADLOCK FALSE
