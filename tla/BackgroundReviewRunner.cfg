SPECIFICATION FairSpec
CONSTANTS
    d1 = d1
    d2 = d2
    d3 = d3
    d4 = d4
    NoHeader = NoHeader
    Events <- MCEvents
    Deliveries <- MCDeliveries
    MaxSize = 2
    MaxRegistered = 5
    Concurrency = 2
    MaxTasks = 5
INVARIANTS
    TypeOK
    MemoryTypeOK
    SeenIsWindow
    NoRepeatWithinWindow
    SlotsConserved
    NoSleeperLeftBehind
    FirstAcceptedFirst
    DrainLeavesNothing
PROPERTIES
    EveryReviewEnds
    DrainReturns
