CONSTANTS
    s1 = s1
    s2 = s2
    Sessions <- MCSessions
    NoSession = NoSession
    MaxCalls = 3
    MaxStops = 2
SPECIFICATION FairSpec
INVARIANTS
    OneLoop
CHECK_DEADLOCK FALSE
