CONSTANTS
    c1 = c1
    c2 = c2
    o1 = o1
    Calls = {c1, c2}
    Objects = {o1}
    Tools = {"get", "getSecret", "watchSecret", "update", "patch", "delete", "exec", "proxy", "reset"}
    MaxRevision = 3
SPECIFICATION Spec
INVARIANTS
    GatedTypeOK
    WritesHitApprovedState
    UncheckedWindowStartsAtRead
    RecordTellsTheVerdict
PROPERTIES
    ImplementsApprovedExecution
CHECK_DEADLOCK FALSE
