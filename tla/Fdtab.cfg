SPECIFICATION FairSpec
CONSTANTS
    Threads = {"t1", "t2"}
    Nobody = "nobody"
    RxCap = 2
    TxCap = 2
    MaxSocks = 3
    MaxPos = 2
    MaxFds = 2
    Programs <- MCPrograms
INVARIANTS  NoFileLeak StreamExact
 
CHECK_DEADLOCK FALSE
