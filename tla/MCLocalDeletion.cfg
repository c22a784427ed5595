SPECIFICATION Spec
CONSTANTS
    Payload <- OnePayload
    SeedRows <- Pair
    MaxId = 2
    TempBase = 10
    MaxTemp = 0
INVARIANTS
    LocalDeletionCascades
