SPECIFICATION Spec
CONSTANTS
    Student = {"s1", "s2"}
    Course = {"c1", "c2"}
    Name = {"x", "y"}
    Empty = "none"
    Files <- MCFiles
    MaxImports = 2
    MaxResets = 1
INVARIANTS
    EveryDisagreementReported
PROPERTIES
    CommitAddsTheFile
    FirstValuesKept
CHECK_DEADLOCK FALSE
