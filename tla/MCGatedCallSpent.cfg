CONSTANTS
    c1 = c1
    o1 = o1
    Calls = {c1}
    Objects = {o1}
    Tools = {"update"}
    MaxRevision = 3
SPECIFICATION Spec
INVARIANT NoApprovalSpentOnRefusedArguments
CHECK_DEADLOCK FALSE
