CONSTANTS
    Limit = 1
    WatchMaxEvents = 2
    MaxWritten = 2
SPECIFICATION Spec
INVARIANTS
    ProxyCutIsSaid
CHECK_DEADLOCK FALSE
