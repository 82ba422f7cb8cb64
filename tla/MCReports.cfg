SPECIFICATION Spec
CONSTANTS
    Loads <- MCLoads
    OvertakenLoads <- MCOvertakenLoads
    Strategies = {"sequential", "constraint"}
    LateAllocation = 2
    MaxGenerations = 2
    MaxImports = 2
    MaxEvents = 3
    MaxResets = 1
INVARIANTS
    EveryAssignmentPrintedOnce
    RangesBoundRooms
    VanishedOnlyIfBlockedLater
    OnlyResetBreaksReports
CHECK_DEADLOCK FALSE
