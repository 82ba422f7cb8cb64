SPECIFICATION Spec
CONSTANTS
    Code = {"a", "b"}
    NoCode = "none"
    Files <- MCFiles
    MaxImports = 3
INVARIANTS
    RoomsWellFormed
    EveryDisagreementReported
    SecondPassChangesNothing
PROPERTIES
    FirstValuesKept
CHECK_DEADLOCK FALSE
