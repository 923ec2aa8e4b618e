SPECIFICATION FairSpec
CONSTANTS
    Threads = {"t1", "t2", "t3"}
    Apps <- MCApps
    Services <- MCServices
    Contextless = {"stdio"}
    Broken = {"ghost"}
    Calls <- MCCalls
    Owner <- MCOwner
    SpawnCalls = {"spawn"}
    Issues <- MCIssues
    Entry <- MCEntry
    Visor = "visor"
    Nobody = "nobody"
    MaxCalls = 2
INVARIANTS LoadOnce InitBeforeUse
PROPERTY AllReturn
CHECK_DEADLOCK FALSE
