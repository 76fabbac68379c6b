SPECIFICATION FairSpec
CONSTANTS
    PullRequests <- MCPullRequests
    Available <- MCAvailable
    ModelReports <- MCModelReports
    SemgrepReports <- MCSemgrepReports
    Audits <- MCAudits
    VerifierEnabled = TRUE
CHECK_DEADLOCK FALSE
INVARIANTS
    TypeOK
    DedupIgnoresOrder
    EventFollowsReports
    DegradedIsNoted
    EveryFindingAccounted
    DuplicatesShareDefinition
PROPERTIES
    ComposedUnlessTimeout
