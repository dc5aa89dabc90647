CONSTANTS
    Requests = {r1}
    UiCalls = {}
    Texts = {t1}
    NoText = NoText
    OverlapChoices = {FALSE}
    TimeoutChoices = {TRUE}
    FailureChoices = {FALSE}
    EnabledChoices = {TRUE}
SPECIFICATION Spec
INVARIANTS
    NoDoubleSpeech
CHECK_DEADLOCK FALSE
