CONSTANTS
    Null = Null
    NoDate = NoDate
    Zones <- MCZones
    Ids <- MCIds
    Calls <- MCCalls
    FollowUps <- MCFollowUps
    Starts <- MCStarts
    Waits <- MCWaits
    MaxTries = 2
    Existing <- MCExisting
SPECIFICATION Spec
INVARIANTS
    DatesMeanWhatTheySay
    FieldsAreAsLastSaid
    RetriesAgree
CHECK_DEADLOCK FALSE
