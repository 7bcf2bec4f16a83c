\* Lists that grow and shrink, a HAL that fails, rows the bus refuses.
CONSTANTS
    Table <- AllTables
    Rows <- RowLimit
    Answered <- AnswerLimit
    MaxEntries = 3
    MaxGen = 2
SPECIFICATION Spec
INVARIANTS
    TypeOK
    FlagsMatchBus
    CountIsBacked
    RowFromThisRefresh
    UnshadowedReadTheirField
CHECK_DEADLOCK FALSE
