CONSTANTS
    s1 = s1
    s2 = s2
    Sessions <- MCSessions
    NoSession = NoSession
    MaxCalls = 3
    MaxStops = 2
SPECIFICATION FairSpec
INVARIANTS
    TypeOK
    NoStrandedTask
    LoopsBounded
PROPERTIES
    StopIsFinal
    ContractHonoured
    TalkingEnds
CHECK_DEADLOCK FALSE
