CONSTANTS
    Requests = {r1, r2}
    UiCalls = {}
    Texts = {t1}
    NoText = NoText
    OverlapChoices = {TRUE}
    TimeoutChoices = {TRUE}
    FailureChoices = {TRUE, FALSE}
    EnabledChoices = {TRUE}
SPECIFICATION FairSpec
PROPERTIES
    RequestAnswered
    CallAnswered
CHECK_DEADLOCK FALSE
