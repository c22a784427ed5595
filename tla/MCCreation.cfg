SPECIFICATION Spec
CONSTANTS
    Payload <- OnePayload
    SeedRows <- Single
    MaxId = 4
    TempBase = 10
    MaxTemp = 3
INVARIANTS
    TypeOK
    IndexIsExact
    IdsAgreeWithStatus
    ParentsArePersisted
PROPERTIES
    ApplyPersistsEverything
    WorkingCopySpec
