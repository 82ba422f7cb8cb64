SPECIFICATION FairSpec
CONSTANTS
    Student <- MCStudent
    Course <- MCCourse
    RoomId <- MCRoomId
    Slot = {"am", "pm"}
    Capacity <- MCCapacity
    Request = {r1, r2}
    NoRequest = none
    ExamArgs <- MCFewExamArgs
    RegistrationFiles = {}
    ScheduleFiles <- MCFewScheduleFiles
    RoomFiles = {}
    StartStates <- MCStart
    MaxRequests = 2
    MaxImports = 1
    MaxResets = 1
    MaxEvents = 3
PROPERTIES
    EveryRequestAnswered
