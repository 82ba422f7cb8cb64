SPECIFICATION Spec
CONSTANTS
    Student <- MCStudent
    Course <- MCCourse
    RoomId <- MCRoomId
    Slot = {"am", "pm"}
    Capacity <- MCCapacity
    Request = {r1, r2}
    NoRequest = none
    ExamArgs <- MCExamArgs
    RegistrationFiles <- MCRegistrationFiles
    ScheduleFiles <- MCScheduleFiles
    RoomFiles <- MCRoomFiles
    StartStates <- MCStart
    MaxRequests = 3
    MaxImports = 2
    MaxResets = 2
    MaxEvents = 4
SYMMETRY ThreadsAlike
INVARIANTS
    GenerationsNeverCollide
    CountsMatchRows
    SharedAllocationsHonoured
    ReferencesResolve
PROPERTIES
    HistoryAppendOnly
    RostersFresh
    AcceptedSessionsGenerate
    OnlyResetsBreakRequests
