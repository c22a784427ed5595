SPECIFICATION Spec
CONSTANTS
    Payload <- TwoPayloads
    SeedRows <- Pair
    MaxId = 4
    TempBase = 10
    MaxTemp = 1
INVARIANTS
    UnchangedMatchesDatabase
PROPERTIES
    ApplyPersistsEverything
    RepeatedApplyIsIdle
    StoreSpec
    WorkingCopySpec
