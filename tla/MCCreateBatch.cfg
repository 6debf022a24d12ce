CONSTANTS
    n1 = n1
    n2 = n2
    r1 = r1
    r2 = r2
    r3 = r3
    N = 3
    Calls = {1, 2, 3}
    Names = {n1, n2}
    RequestIds = {r1, r2, r3}
SPECIFICATION Spec
INVARIANTS
    CreateTypeOK
    CreatedOnlyWhenAllApproved
    ReportIsTruthful
PROPERTIES
    ImplementsApprovedExecution
CHECK_DEADLOCK FALSE
