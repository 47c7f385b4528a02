\* A wake that arrives while block_on goes to sleep.
SPECIFICATION FairSpec
CONSTANTS
    r1 = r1
    t1 = t1
    t2 = t2
    h1 = h1
    Owner = owner
    NoTask = NoTask
    Awaited = t1
    Remotes <- OneRemote
    LocalTasks <- TwoLocal
    HandleTasks <- OneHandleTask
    MaxWakeups = 0
PROPERTY BlockOnReturns
CHECK_DEADLOCK FALSE
