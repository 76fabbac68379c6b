SPECIFICATION FairSpec
CONSTANTS
    r1 = r1
    r2 = r2
    Reviews <- MCReviews
    Roles <- MCRoles
    Scanners <- MCScanners
    Calls <- MCCalls
    Scans <- MCScans
    Commands <- MCCommands
    Concurrency = 1
    MaxAttempts = 2
CHECK_DEADLOCK FALSE
INVARIANTS
    TypeOK
    SlotsSurviveCancellation
    ReviewLeavesNothing
PROPERTIES
    EveryAnalysisEnds
