SPECIFICATION Spec
CONSTANTS
    Payload <- OnePayload
    SeedRows <- Branch
    MaxId = 5
    TempBase = 10
    MaxTemp = 1
INVARIANTS
    ForestIsSound
    HierarchyMatchesDatabase
    EllipsisIsTruthful
    DeletionCascades
    DeletionsAreRemembered
