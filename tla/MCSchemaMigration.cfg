SPECIFICATION FairMigration
CONSTANTS
    PastDatabases <- MCPastDatabases
    MaxStops = 3
    MaxGenerations = 3
INVARIANTS
    NothingForgotten
    ServedSchemaCurrent
    HiddenOnlyByInterruption
PROPERTIES
    EventuallyServed
CHECK_DEADLOCK FALSE
