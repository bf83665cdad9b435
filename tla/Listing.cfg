SPECIFICATION Spec
CONSTANTS
    Rows = {1, 2, 3}
    Keys = {1, 2}
    Null = Null
    PageSizes = {1, 2}
CHECK_DEADLOCK FALSE
INVARIANTS
    TypeOK
    CompleteWhenStill
    NoSkipUnderInserts
    NoRepeatUnderRemovals
    TotalHonest
