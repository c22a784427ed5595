SPECIFICATION Spec
CONSTANTS
    Payload <- OnePayload
    SeedRows <- Pair
    MaxId = 4
    TempBase = 10
    MaxTemp = 2
INVARIANTS
    CreationFollowsWalk
PROPERTIES
    AtomicSpec
    EveryCallReturns
    EachStepLeavesLess
