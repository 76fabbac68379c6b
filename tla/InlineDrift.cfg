SPECIFICATION SpecReview
CONSTANTS
    Patches <- MCPatches
    Ranges <- MCRanges
    MaxFindings = 2
    NoHeader = NoHeader
    NoNumber = NoNumber
    NoLine = NoLine
    NoDraft = NoDraft
INVARIANTS
    AnchoredPrecisely
CHECK_DEADLOCK FALSE
