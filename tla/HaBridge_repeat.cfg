CONSTANTS
    Requests = {r1, r2}
    UiCalls = {}
    Texts = {t1}
    NoText = NoText
    OverlapChoices = {FALSE}
    TimeoutChoices = {FALSE}
    FailureChoices = {FALSE}
    EnabledChoices = {TRUE}
SPECIFICATION Spec
INVARIANTS
    TalkReplySpoken
CHECK_DEADLOCK FALSE
