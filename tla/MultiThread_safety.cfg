\* Two workers, one spawner, the owner; two outer tasks and one inner task.
SPECIFICATION Spec
CONSTANTS
    w1 = w1
    w2 = w2
    s1 = s1
    main = main
    t1 = t1
    t2 = t2
    t3 = t3
    NoTask = NoTask
    NoThread = NoThread
    Main = main
    Awaited = t1
    Workers <- TwoWorkers
    Spawners <- OneSpawner
    Outer <- TwoTasks
    Inner <- InnerTask
    Upsets <- AllUpsets
    MaxUpsets = 1
SYMMETRY WorkerSymmetry
INVARIANTS
    TypeOK
    ActiveCount
    OnePlace
    NoSleepThroughWork
    NoSleeperAfterShutdown
    RootWakeNotLost
    QuietAfterShutdown
PROPERTY ImplementsExecutor
CHECK_DEADLOCK FALSE
