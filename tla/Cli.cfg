SPECIFICATION FairSpec
CONSTANTS
    Isols <- MCIsols
    MaxFiles = 3
    Builds <- MCBuilds
INVARIANTS HandlesResolve RcCheck SingleExit
CHECK_DEADLOCK FALSE
