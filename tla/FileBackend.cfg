SPECIFICATION FairSpec
CONSTANTS
    Clients = {"c1", "c2"}
    Regions = {"r1", "r2", "r3"}
    Owner <- MCOwner
    Pages = 1
    MaxMaps = 2
    Handler = "handler"
    Nobody = "nobody"
INVARIANTS  NestedReadSafe
PROPERTIES IndexStable 
CHECK_DEADLOCK FALSE
