CONSTANTS
    Requests = {r1, r2}
    UiCalls = {ui}
    Texts = {t1, t2}
    NoText = NoText
    OverlapChoices = {TRUE, FALSE}
    TimeoutChoices = {FALSE}
    FailureChoices = {TRUE, FALSE}
    EnabledChoices = {TRUE, FALSE}
SPECIFICATION Spec
INVARIANTS
    TypeOK
    OperatedBeforeSpoken
    
    OnlyOwnReply
    NewTalkReplySpoken
CHECK_DEADLOCK FALSE
