\* Two timers, four instants, timeouts shorter and longer than the deadlines.
SPECIFICATION Spec
CONSTANTS
    o = o
    h = h
    Owner = o
    Helpers <- OneHelper
    t1 = t1
    t2 = t2
    Timers <- TwoTimers
    Horizon = 3
    Year = 9
    Timeouts <- ShortAndLong
    MaxSpurious = 1
INVARIANTS
    TypeOK
    NeverEarly
    SleepsToDeadline
PROPERTIES
    KeepsPromise
    ProcessLeavesNoneExpired
