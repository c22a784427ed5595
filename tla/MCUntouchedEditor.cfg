SPECIFICATION WindowSpec
CONSTANTS
    Payload <- SeedOrEmpty
    EmptyText = ""
    SeedRows <- Single
    MaxId = 1
    TempBase = 10
    MaxTemp = 0
PROPERTIES
    UntouchedEditorChangesNothing
