CONSTANTS
    Limit = 1
    WatchMaxEvents = 2
    MaxWritten = 3
SPECIFICATION FairSpec
INVARIANTS
    StreamTypeOK
    CutIsSaid
    ExitCodeIsTheCommands
    FailureHasACause
    AttachLastsItsWindow
PROPERTIES
    StreamsEnd
CHECK_DEADLOCK FALSE
