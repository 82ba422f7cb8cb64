SPECIFICATION Spec
CONSTANTS
    Student <- MCStudent
    RoomId <- MCRoomId
    CourseId <- MCCourseId
    Calls <- CrowdedCalls
INVARIANT
    FewestOrthogonalNeighbours
CHECK_DEADLOCK FALSE
