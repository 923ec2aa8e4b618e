SPECIFICATION Spec
CONSTANTS
    Isols <- MCIsols
    MaxInFlight = 1
INVARIANT IsolExists
CHECK_DEADLOCK FALSE
