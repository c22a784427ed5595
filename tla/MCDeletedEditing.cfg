SPECIFICATION Spec
CONSTANTS
    Payload <- OnePayload
    SeedRows <- Chain
    MaxId = 3
    TempBase = 10
    MaxTemp = 0
INVARIANTS
    DeletedIsNotEditable
