\* Fair scheduling, no task spawns from inside a task, no Retry.
SPECIFICATION FairSpec
CONSTANTS
    w1 = w1
    w2 = w2
    s1 = s1
    main = main
    t1 = t1
    t2 = t2
    t3 = t3
    NoTask = NoTask
    NoThread = NoThread
    Main = main
    Awaited = t1
    Workers <- TwoWorkers
    Spawners <- OneSpawner
    Outer <- TwoTasks
    Inner <- NoTasks
    Upsets <- OnlyPanic
    MaxUpsets = 1
PROPERTIES
    WorkIsTaken
    BlockOnReturns
    ShutdownCompletes
CHECK_DEADLOCK FALSE
