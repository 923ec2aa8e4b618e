SPECIFICATION FairSpec
CONSTANTS
    Names <- MCNames
    Libc = "libc"
    Configs <- MCConfigs
INVARIANTS StageBarrier 
PROPERTIES Terminates 
CHECK_DEADLOCK FALSE
