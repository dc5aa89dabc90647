CONSTANTS
    MaxMessages = 1
    MaxRetries = 2
    MaxNoticeTries = 2
    MaxCrashes = 2
    Kinds = {"live", "notice"}
SPECIFICATION Spec
INVARIANTS
    TypeOK
    NeverLost
    OneSenderAtPlatform
    ReplaysBounded
PROPERTIES
    NoReplayAfterAck
    LiveNeverReplayed
    ContractHonoured
CHECK_DEADLOCK FALSE
