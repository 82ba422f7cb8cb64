-------------------------- MODULE SequentialSeating -------------------------
(***************************************************************************)
(* SequentialSeatingStrategy.generate (backend/app/seating/strategies/     *)
(* sequential.py): fill each room's first usable seats, room after room,   *)
(* with the students in the order they are given.                          *)
(*                                                                         *)
(* One behaviour is one call.  The arguments are the variables students,   *)
(* allocations and layout, fixed when the call starts; each iteration of   *)
(* the assignment loop is one step.                                        *)
(***************************************************************************)
EXTENDS SeatingPlan

CONSTANTS Student,  \* student ids
          RoomId,   \* room ids
          Calls     \* the argument records a call may be made with

CallsAssumption ==
    \A call \in Calls :
        /\ call.students \in Seq(Student)
        /\ \A i, j \in DOMAIN call.students :
               call.students[i] = call.students[j] => i = j
        /\ call.layout \in [RoomId -> RoomRecord]
        /\ \A r \in RoomId : WellFormedRoom(call.layout[r])
        /\ call.allocations \in Seq([room : RoomId, allocated : Nat])

ASSUME CallsAreTyped == CallsAssumption

VARIABLES students, allocations, layout,  \* the arguments
          phase,        \* "called", "placing", "returned", "value_error"
          open,         \* usable_targets not yet filled
          cursor,       \* students[1..cursor] are seated
          assignments,  \* the SeatAssignmentRecords, in creation order
          result        \* the SeatingResult, once returned

arguments == <<students, allocations, layout>>
vars == <<students, allocations, layout, phase, open, cursor, assignments, result>>

NoResult == [status |-> "none"]

Init ==
    /\ \E call \in Calls :
          /\ students = call.students
          /\ allocations = call.allocations
          /\ layout = call.layout
    /\ phase = "called"
    /\ open = {}
    /\ cursor = 0
    /\ assignments = <<>>
    /\ result = NoResult

\* A room listed twice: ValueError before anything is computed.
RejectDuplicateRooms ==
    /\ phase = "called"
    /\ ~RoomsDistinct(allocations)
    /\ phase' = "value_error"
    /\ UNCHANGED <<arguments, open, cursor, assignments, result>>

\* The loop over room_allocations that builds usable_targets.
CollectTargets ==
    /\ phase = "called"
    /\ RoomsDistinct(allocations)
    /\ open' = Candidates(allocations, layout)
    /\ phase' = "placing"
    /\ UNCHANGED <<arguments, cursor, assignments, result>>

\* Faulty variant: the seat just filled stays on the list.
SeatNextKeepingSeat ==
    /\ phase = "placing"
    /\ cursor < Len(students)
    /\ open # {}
    /\ assignments' = Append(assignments, SeatRecord(students[cursor + 1], FirstOf(open)))
    /\ cursor' = cursor + 1
    /\ UNCHANGED <<arguments, phase, open, result>>

\* One turn of the assignment loop.
SeatNext ==
    /\ phase = "placing"
    /\ cursor < Len(students)
    /\ open # {}
    /\ LET p == FirstOf(open)
       IN  /\ assignments' = Append(assignments, SeatRecord(students[cursor + 1], p))
           /\ open' = open \ {p}
    /\ cursor' = cursor + 1
    /\ UNCHANGED <<arguments, phase, result>>

\* The loop is exhausted: count, flag and return.
Return ==
    /\ phase = "placing"
    /\ cursor >= Len(students) \/ open = {}
    /\ result' = Summary(Len(students), Len(assignments), Len(students) - cursor,
                         allocations, layout)
    /\ phase' = "returned"
    /\ UNCHANGED <<arguments, open, cursor, assignments>>

Next == RejectDuplicateRooms \/ CollectTargets \/ SeatNext \/ Return

Spec == Init /\ [][Next]_vars
-----------------------------------------------------------------------------
Phases == {"called", "placing", "returned", "value_error"}

Assignment == [student : Student, room : RoomId, seat : Nat]

TypeOK ==
    /\ students \in Seq(Student)
    /\ allocations \in Seq([room : RoomId, allocated : Nat])
    /\ layout \in [RoomId -> RoomRecord]
    /\ phase \in Phases
    /\ open \subseteq [order : Nat, room : RoomId, seat : Nat]
    /\ cursor \in 0..Len(students)
    /\ assignments \in Seq(Assignment)

\* The seats the call may use, as positions.
SeatPool ==
    IF RoomsDistinct(allocations)
    THEN {[room |-> p.room, seat |-> p.seat] : p \in Candidates(allocations, layout)}
    ELSE {}

\* No seat is handed to two students and no student gets two seats: however
\* blocked seats, over-allocated rooms and several rooms combine, two records
\* of the assignment list never collide.
NoDoubleSeating == CollisionFree(assignments)

\* Every seat handed out exists and is not blocked, and no room takes more
\* students than its schedule, its capacity and its usable seats allow.
SeatsWithinLimits == WithinLimits(assignments, allocations, layout)

\* The student list is seated in order: a student with a smaller number never
\* sits after one with a larger number, in room order then seat order.  The
\* printed room lists and ID ranges rely on it.
SeatedInStudentOrder == InStudentOrder(assignments, allocations)

\* No one is left out while some room could take another student within its
\* schedule and its unblocked seats, and the reported number of unseated
\* students is the number of students without a record.
NoSeatWasted ==
    phase = "returned" =>
        /\ \/ result.unassigned = 0
           \/ RoomsFull(assignments, allocations, layout)
        /\ result.unassigned = Cardinality({i \in DOMAIN students :
               \A j \in DOMAIN assignments : assignments[j].student # students[i]})

\* When students are left out, one of the three diagnosis flags says why, except
\* where one room is allocated more than it can seat and another one less: the
\* flags compare totals, the seats are capped room by room.
ShortageExplained ==
    phase = "returned" /\ result.capacity_shortage =>
        LET usable(i) == Cardinality(UsableSeats(layout[allocations[i].room]))
        IN  \/ result.scheduled_allocation_shortage
            \/ result.physical_capacity_shortage
            \/ result.usable_capacity_shortage
            \/ \E i, j \in DOMAIN allocations :
                  /\ allocations[i].allocated > usable(i)
                  /\ allocations[j].allocated < usable(j)

\* The contract every strategy promises (module SeatingContract).
Contract == INSTANCE SeatingContract WITH
    registered <- {students[i] : i \in DOMAIN students},
    pool <- SeatPool,
    placed <- {assignments[i] : i \in DOMAIN assignments},
    outcome <- IF phase = "returned" THEN result.status ELSE "none"

\* The loop implements the contract: it only ever seats a waiting student in a
\* free seat of the pool, and its status is the contract's verdict.
ImplementsContract == Contract!Spec
=============================================================================
