SPECIFICATION Spec
CONSTANTS
    r1 = r1
    r2 = r2
    w1 = w1
    w2 = w2
    p1 = p1
    NoRun = NoRun
    NoMarker = NoMarker
    NoDraft = NoDraft
    Runs <- MCRuns
    Workflows <- MCWorkflows
    Prompts <- MCOnePrompt
    Quoted <- MCQuoted
    MaxHead = 2
    MaxReviews = 1
    PageSize = 1
    Reverts = TRUE
    LateAccepts = TRUE
SYMMETRY MCSymmetry
INVARIANTS
    TypeOK
    ReviewedDiffIsPublishedHead
    DuplicateOnlyWhenUnseen
    ResultMatchesLedger
