SPECIFICATION Spec
CONSTANTS
    Course = {"c", "d"}
    Room = {"r", "q"}
    Name = {"x", "y"}
    Slot = {"am", "pm"}
    Empty = "none"
    Count = {1, 2}
    Files <- MCFiles
    MaxImports = 2
INVARIANTS
    NothingDropped
    EveryDisagreementReported
    OverflowNoticed
PROPERTIES
    FirstValuesKept
CHECK_DEADLOCK FALSE
