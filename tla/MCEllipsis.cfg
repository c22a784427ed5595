SPECIFICATION Spec
CONSTANTS
    Payload <- OnePayload
    SeedRows <- Branch
    MaxId = 5
    TempBase = 10
    MaxTemp = 0
INVARIANTS
    EllipsisIsComplete
