SPECIFICATION SpecReview
CONSTANTS
    Patches <- MCPatches
    Ranges <- MCRanges
    MaxFindings = 2
    NoHeader = NoHeader
    NoNumber = NoNumber
    NoLine = NoLine
    NoDraft = NoDraft
INVARIANTS
    TypeOK
    ParsedAsWritten
    StraysStayInHunk
    EveryLineOnce
    PrevalidatedLikeGitHub
CHECK_DEADLOCK FALSE
