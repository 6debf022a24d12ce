CONSTANTS
    r1 = r1
    r2 = r2
    k1 = k1
    k2 = k2
    Requests = {r1, r2}
    ToolCalls = {r1}
    Kids = {k1, k2}
    MaxRotations = 1
SPECIFICATION FairSpec
INVARIANTS
    AuthTypeOK
    AcceptedByItsIssuer
    CacheIsNeverEmptied
    SoundTokenRefusedOnlyByRace
PROPERTIES
    EveryCheckIsDecided
CHECK_DEADLOCK FALSE
