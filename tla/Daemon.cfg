SPECIFICATION FairSpec
CONSTANTS
    Isols <- MCIsols
    MaxInFlight = 3
INVARIANTS NoUseAfterDrop
PROPERTY RequestsEnd
CHECK_DEADLOCK FALSE
