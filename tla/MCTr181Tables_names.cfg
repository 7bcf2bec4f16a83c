\* The parameters the statistics handler answers with another one's field.
CONSTANTS
    Table <- AllTables
    Rows <- RowLimit
    Answered <- AnswerLimit
    MaxEntries = 1
    MaxGen = 0
SPECIFICATION Spec
INVARIANTS EveryParamReadsItsField
CHECK_DEADLOCK FALSE
