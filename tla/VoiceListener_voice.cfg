CONSTANTS
    Requests = {r1, r2}
    UiCalls = {k1, k2, k3}
    Texts = {t1}
    NoText = NoText
    OverlapChoices = {TRUE}
    TimeoutChoices = {TRUE, FALSE}
    FailureChoices = {TRUE, FALSE}
    AckChoices = {TRUE, FALSE}
SPECIFICATION FairSpec
INVARIANTS
    TypeOK
    StatusNeverSilencesReply
    ListensWhenQuiet
PROPERTIES
    ListensAgain
CHECK_DEADLOCK FALSE
