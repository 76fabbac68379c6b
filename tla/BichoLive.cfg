SPECIFICATION FairSpec
CONSTANTS
    w1 = w1
    w2 = w2
    p1 = p1
    m1 = m1
    NoRun = NoRun
    NoMarker = NoMarker
    NoDraft = NoDraft
    NoHeader = NoHeader
    MaxHead = 2
    MaxReviews = 0
    Workflows <- MCOneWorkflow
    Prompts <- MCOnePrompt
    Quoted <- MCNoMarkers
    PageSize = 4
    LateAccepts = FALSE
    ManualRuns <- MCOneManualRun
    MaxTasks = 2
    MaxEvents = 2
    Faults = FALSE
    Reverts = FALSE
    MaxSize = 2
    MaxRegistered = 4
    Concurrency = 1
PROPERTIES
    FinalHeadReviewed
CHECK_DEADLOCK FALSE
