SPECIFICATION Spec
CONSTANTS
    w1 = w1
    w2 = w2
    p1 = p1
    m1 = m1
    NoRun = NoRun
    NoMarker = NoMarker
    NoDraft = NoDraft
    NoHeader = NoHeader
    MaxHead = 1
    MaxReviews = 1
    Workflows <- MCOneWorkflow
    Prompts <- MCOnePrompt
    Quoted <- MCNoMarkers
    PageSize = 1
    LateAccepts = FALSE
    ManualRuns <- MCNoManualRun
    MaxTasks = 2
    MaxEvents = 2
    Faults = FALSE
    Reverts = FALSE
    MaxSize = 2
    MaxRegistered = 4
    Concurrency = 1
INVARIANTS
    NoDuplicateReview
CHECK_DEADLOCK FALSE
