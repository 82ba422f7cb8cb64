SPECIFICATION MigrationSpec
CONSTANTS
    PastDatabases <- MCPastDatabases
    MaxStops = 3
    MaxGenerations = 3
INVARIANT
    GenerationsUntouched
CHECK_DEADLOCK FALSE
