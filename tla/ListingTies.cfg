SPECIFICATION Spec
CONSTANTS
    Rows = {1, 2, 3}
    Keys = {1, 2}
    Null = Null
    PageSizes = {1}
CHECK_DEADLOCK FALSE
INVARIANT PagesCorrect
