CONSTANTS
    Lanes = {main, probe}
    ProbeLanes = {probe}
    Waiters = {}
    MaxJobs = 3
    Limits = {0, 1}
    MaxGeneration = 1
    TimedChoices = {TRUE}
    main = main
    probe = probe
SPECIFICATION FairSpec
PROPERTIES
    TimedLaneNeverBlocks
    ContractHonoured
CHECK_DEADLOCK FALSE
