\* Three wakers, two tasks between polls, three tasks in the queue.
SPECIFICATION FairSpec
CONSTANTS
    rtA = rtA
    rtB = rtB
    none = none
    Target = rtA
    Other = rtB
    None = none
    MaxClones = 3
    Batch = 2
    MaxQueue = 3
INVARIANTS
    TypeOK
    RefsLaw
PROPERTIES
    CondemnedForGood
    ReadyIsReturned
CHECK_DEADLOCK FALSE
