\* A task woken while it is polled.
SPECIFICATION Spec
CONSTANTS
    worker = worker
    local = local
    outsider = outsider
    Threads <- AllThreads
    Context <- OnlyWorker
    MaxClones = 1
INVARIANT OnePollAtATime
CHECK_DEADLOCK FALSE
