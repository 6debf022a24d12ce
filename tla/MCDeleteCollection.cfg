CONSTANTS
    c1 = c1
    c2 = c2
    o1 = o1
    o2 = o2
    Calls = {c1, c2}
    Objects = {o1, o2}
    MaxRevision = 3
SPECIFICATION Spec
INVARIANTS
    CollectionTypeOK
    DeletesOnlyWhatWasShown
    RecordTellsTheVerdict
PROPERTIES
    ImplementsApprovedExecution
CHECK_DEADLOCK FALSE
