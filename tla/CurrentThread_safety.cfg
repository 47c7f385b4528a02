\* Two local tasks, one handle task, one remote thread, one early wakeup.
SPECIFICATION FairSpec
CONSTANTS
    r1 = r1
    t1 = t1
    t2 = t2
    h1 = h1
    Owner = owner
    NoTask = NoTask
    Awaited = t1
    Remotes <- OneRemote
    LocalTasks <- TwoLocal
    HandleTasks <- OneHandleTask
    MaxWakeups = 1
INVARIANTS
    TypeOK
    RootWakeRecorded
PROPERTIES
    ImplementsExecutor
    KeepsPermit
    LocalTasksAreRun
CHECK_DEADLOCK FALSE
