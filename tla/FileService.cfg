SPECIFICATION Spec
CONSTANTS
    c1 = c1
    c2 = c2
    Clients = {c1, c2}
    None = None
    Plans <- MCPlans
    Byte = {0, 1, 2, 3}
    BlockSize = 4
    SuperBlock = 1
    FileCap = 3
    UnpackMax = 2
    FdMax = 6
    Chunk = 2
    DiskSize = 14
    StaleFd = 9
INVARIANTS OwnHandles ImageServed  RoundTrip
PROPERTIES ImplementsFd CallsReturn
CHECK_DEADLOCK FALSE
