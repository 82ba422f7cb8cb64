SPECIFICATION Spec
CONSTANTS
    Student <- MCStudent
    RoomId <- MCRoomId
    Calls <- MCCalls
INVARIANTS
    NoDoubleSeating
    SeatsWithinLimits
    SeatedInStudentOrder
    NoSeatWasted
    ShortageExplained
PROPERTIES
    ImplementsContract
CHECK_DEADLOCK FALSE
