SPECIFICATION Spec
CONSTANTS
    g1 = g1
    g2 = g2
    g3 = g3
    Guests = {g1, g2, g3}
    Plans <- MCPlans
    None = None
    Garbage = Garbage
    Zero = 0
    Dot = 1
    DotDot = 2
    NameLen <- MCNameLen
    Canonical <- MCCanonical
    Header = 2
    FdMax = 8
    FileCap = 2
    BlockSize = 4
    SuperBlock = 1
INVARIANTS FdPaths ListedOnce ArgsOwn  
 
CHECK_DEADLOCK FALSE
