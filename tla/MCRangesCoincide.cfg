SPECIFICATION Spec
CONSTANTS
    Loads <- MCLoads
    OvertakenLoads <- MCOvertakenLoads
    Strategies = {"sequential"}
    LateAllocation = 2
    MaxGenerations = 1
    MaxImports = 0
    MaxEvents = 1
    MaxResets = 0
INVARIANT
    RangesCoincide
CHECK_DEADLOCK FALSE
