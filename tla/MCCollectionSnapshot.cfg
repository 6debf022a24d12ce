CONSTANTS
    c1 = c1
    c2 = c2
    k1 = k1
    NoCall = NoCall
    Calls = {c1, c2}
    Listers = {c1}
    Kinds = {k1}
    Selection = k1
    MaxInstalls = 2
    Names = 3
    PageSize = 2
    MaxPages = 2
    MaxTargets = 2
    MaxRevision = 2
SPECIFICATION FairSpec
INVARIANTS
    ReadsTypeOK
    UnknownKindIsUnknown
    SnapshotIsOneState
    PageRefusalIsReal
PROPERTIES
    ResolvesEnd
CHECK_DEADLOCK FALSE
