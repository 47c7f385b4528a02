\* A task that spawns while the runtime shuts down.
SPECIFICATION FairSpec
CONSTANTS
    w1 = w1
    w2 = w2
    s1 = s1
    main = main
    t1 = t1
    t2 = t2
    t3 = t3
    NoTask = NoTask
    NoThread = NoThread
    Main = main
    Awaited = t1
    Workers <- TwoWorkers
    Spawners <- OneSpawner
    Outer <- OneTask
    Inner <- InnerTask
    Upsets <- NoUpsets
    MaxUpsets = 0
PROPERTY ShutdownCompletes
CHECK_DEADLOCK FALSE
