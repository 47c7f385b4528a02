\* Three threads, one of them with a context, share one task.
SPECIFICATION Spec
CONSTANTS
    worker = worker
    local = local
    outsider = outsider
    Threads <- AllThreads
    Context <- OnlyWorker
    MaxClones = 2
INVARIANTS
    TypeOK
    RefcountLaw
    PolledAtMostTwice
    JoinOutcome
    OwnerIsTold
    FreedWithRest
CHECK_DEADLOCK FALSE
