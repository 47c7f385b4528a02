\* A worker and an outside thread, two runtimes, two guards each.
SPECIFICATION Spec
CONSTANTS
    m = m
    w = w
    rtA = rtA
    rtB = rtB
    None = none
    Threads <- TwoThreads
    Runtimes <- TwoRuntimes
    Home <- HomeOfThreads
    MaxGuards = 2
INVARIANTS
    TypeOK
    ContextFollowsGuards
CHECK_DEADLOCK FALSE
