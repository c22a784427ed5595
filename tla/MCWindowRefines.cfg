SPECIFICATION WindowSpec
CONSTANTS
    Payload <- SeedOrEmpty
    EmptyText = ""
    SeedRows <- Single
    MaxId = 2
    TempBase = 10
    MaxTemp = 1
PROPERTIES
    CacheSpec
