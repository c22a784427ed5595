SPECIFICATION Spec
CONSTANTS
    Payload <- OnePayload
    SeedRows <- Fork
    MaxId = 4
    TempBase = 10
    MaxTemp = 1
INVARIANTS
    OwnedOnce
    IndexNeverDangles
    RowsFitTogether
    SearchFollowsIndex
    EveryRecordHasItsRow
    WalkVisitsEachNodeOnce
    MarkingCoversSubtree
