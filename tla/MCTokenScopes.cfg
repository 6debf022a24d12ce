CONSTANTS
    Nil = Nil
    Own = Own
    Other = Other
    Repos <- MCRepos
    Perms <- MCPerms
    MaxLevel = 2
    Excluded = {"statuses"}
    Configs <- MCConfigs
    Callers <- MCCallers
SPECIFICATION Spec
INVARIANTS
    ScopeTypeOK
    CapsAreKept
    TokensAreAccountedFor
    StatusReportIsTrue
CHECK_DEADLOCK FALSE
