\* Two edits and two signals: enough for a signal during a reload, an edit
\* between open and read, and a bad file between two good ones.
SPECIFICATION FairSpec
CONSTANTS
    None = None
    Gone = Gone
    Garbled = Garbled
    t1 = t1
    t2 = t2
    s1 = s1
    Ids <- MCIds
    Sources <- MCSources
    Docs <- MCDocs
    MaxEdits = 2
    MaxHups = 2
INVARIANTS
    SettlesOnTheFile
    GrantsAreWritten
PROPERTY
    ReloadTakesEffect
CHECK_DEADLOCK FALSE
