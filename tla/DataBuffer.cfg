SPECIFICATION Spec
CONSTANTS
    Plans <- MCPlans
    MaxU32 = 9
    Empty = 100
    Bad = 101
    Symbol = 0
    MaxRuns = 2
    MaxFile = 8
INVARIANTS Handover OneOwner   
CHECK_DEADLOCK FALSE
