CONSTANTS
    Lanes = {main, probe}
    ProbeLanes = {probe}
    Waiters = {w1}
    MaxJobs = 3
    Limits <- MCLimits
    MaxGeneration = 1
    TimedChoices = {TRUE}
    main = main
    probe = probe
    w1 = w1
SPECIFICATION Spec
INVARIANTS
    TypeOK
    NoIdleSlotWhileQueued
    ActiveSlotsExact
    NoLostCommand
    StartedInOrder
    CalledOffNeverRuns
    WaiterHasPendingTask
    DrainedIsEarned
PROPERTIES
    LimitRespectedOnStart
CHECK_DEADLOCK FALSE
