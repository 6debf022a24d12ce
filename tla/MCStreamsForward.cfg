CONSTANTS
    Limit = 1
    WatchMaxEvents = 2
    MaxWritten = 2
SPECIFICATION FairSpec
PROPERTIES
    ForwardEndsWithItsWindow
CHECK_DEADLOCK FALSE
