\* One request, any method; foreign edits and policy reloads around it.
SPECIFICATION Spec
CONSTANTS
    l1 = l1
    l2 = l2
    m1 = m1
    m2 = m2
    h = h
    tA = tA
    ta = ta
    aA = aA
    aa = aa
    None = None
    Unborn = Unborn
    Gone = Gone
    Lists <- MCLists
    Reminders <- MCReminders
    Handles <- MCHandles
    Titles <- MCTitles
    Accounts <- MCAccounts
    SourceOf <- MCSourceOf
    Immutable <- MCImmutable
    Lower <- MCLower
    PrefixOf <- MCPrefixOf
    Policies <- MCPolicies
    Calls <- MCCalls
    Requests = {r1}
    MaxChanges = 2
INVARIANTS
    TypeOK
    NoSilentMisplacement
    QuietExactWritesGuarded
    ReadsInScope
    RefusedMeansUntouched
    BatchReportsTruth
CHECK_DEADLOCK FALSE
