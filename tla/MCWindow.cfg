SPECIFICATION WindowSpec
CONSTANTS
    Payload <- SeedOrEmpty
    EmptyText = ""
    SeedRows <- Pair
    MaxId = 3
    TempBase = 10
    MaxTemp = 1
INVARIANTS
    LeftViewIsUpToDate
    ItemsAreLive
    ButtonsAreHonest
    PicturesAreTrue
PROPERTIES
    DeletedStaysFrozen
