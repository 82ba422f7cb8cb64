SPECIFICATION Spec
CONSTANTS
    Student <- MCStudent
    RoomId <- MCRoomId
    CourseId <- MCCourseId
    Calls <- MCCalls
INVARIANTS
    EveryoneAccountedFor
    LeftOutForGoodReason
    HardConstraintsHold
    SingleCourseSeatedInOrder
PROPERTIES
    LevelCoursesStayLevel
    ImplementsContract
CHECK_DEADLOCK FALSE
