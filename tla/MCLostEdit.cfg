SPECIFICATION Spec
CONSTANTS
    Payload <- TwoPayloads
    SeedRows <- Chain
    MaxId = 3
    TempBase = 10
    MaxTemp = 0
PROPERTIES
    EveryEditReachesDatabase
