\* Two requests and room for one key: they share it or push each other out, and
\* entries expire.  Symmetry is left out because it is not sound for liveness.
SPECIFICATION FairSpec
CONSTANTS
    Requests = {r1, r2}
    Keys = {k1, k2}
    Cap = 1
    Window = 1
    MaxTime = 2
    NoKey = NoKey
    Nobody = Nobody
INVARIANTS
    TypeOK
    OneExecutionUnlessExcused
    SuccessIsTruthful
    SuccessIsReplayable
    EffectIsAudited
    NoEmptyAnswer
PROPERTIES
    ImplementsCache
    EveryRequestAnswered
CHECK_DEADLOCK FALSE
