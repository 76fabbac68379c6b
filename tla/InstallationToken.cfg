SPECIFICATION Spec
CONSTANTS
    c1 = c1
    c2 = c2
    Calls <- MCCalls
    Margin = 3
    JwtLifetime = 5
    MaxJwtAhead = 6
    TokenLifetime = 8
    Latency = 2
    MaxDrift = 1
    MaxTime = 14
INVARIANTS
    TypeOK
    TokensAreFresh
    JwtsAreAccepted
PROPERTIES
    NoEarlyRefresh
