SPECIFICATION Spec
CONSTANTS
    w1 = w1
    w2 = w2
    p1 = p1
    m1 = m1
    NoRun = NoRun
    NoMarker = NoMarker
    NoDraft = NoDraft
    NoHeader = NoHeader
    MaxHead = 2
    MaxReviews = 1
    Workflows <- MCWorkflows
    Prompts <- MCOnePrompt
    Quoted <- MCFirstHead
    PageSize = 4
    LateAccepts = FALSE
    ManualRuns <- MCNoManualRun
    MaxTasks = 2
    MaxEvents = 2
    Faults = TRUE
    Reverts = FALSE
    MaxSize = 2
    MaxRegistered = 4
    Concurrency = 1
PROPERTIES
    ImplementsLedger
CHECK_DEADLOCK FALSE
