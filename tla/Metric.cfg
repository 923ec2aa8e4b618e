SPECIFICATION Spec
CONSTANTS
    Runs <- MCRuns
    Milli = 2
    Wrap = 1000000
    MaxTime = 4
INVARIANTS DurationsNonneg AverageExact WithinIsolation
CHECK_DEADLOCK FALSE
