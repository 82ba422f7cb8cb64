-------------------------- MODULE ConstraintSeating -------------------------
(***************************************************************************)
(* ConstraintSeatingStrategy.generate (backend/app/seating/strategies/     *)
(* constraint.py): one greedy pass that gives each student the first       *)
(* acceptable seat of least penalty.                                       *)
(*                                                                         *)
(* One behaviour is one call.  `constraints` is the explicit ConstraintSet *)
(* of the constructor or NoConstraintSet for None, the only value the API  *)
(* passes, which turns on the anti-cheating default.  Each turn of the     *)
(* interleaving loop of order_students_for_placement and each turn of the  *)
(* placement loop is one step.                                             *)
(***************************************************************************)
EXTENDS SeatingPlan, AntiCheating

CONSTANTS Student, RoomId,
          CourseId, \* integers: ties between courses go to the smallest id
          Calls     \* the argument records a call may be made with

NoConstraintSet == [apart |-> {}, together |-> FALSE, given |-> FALSE]

ConstraintSets ==
    [apart : SUBSET (SUBSET Student), together : BOOLEAN, given : BOOLEAN]

CallsAssumption ==
    \A call \in Calls :
        /\ call.students \in Seq(Student)
        /\ \A i, j \in DOMAIN call.students :
               call.students[i] = call.students[j] => i = j
        /\ call.layout \in [RoomId -> RoomRecord]
        /\ \A r \in RoomId : WellFormedRoom(call.layout[r])
        /\ call.allocations \in Seq([room : RoomId, allocated : Nat])
        /\ call.courses \in [Student -> CourseId]
        /\ call.constraints \in ConstraintSets
        /\ ~call.constraints.given => call.constraints = NoConstraintSet

ASSUME CallsAreTyped == CallsAssumption /\ CourseId \subseteq Nat

VARIABLES students, allocations, layout, courses, constraints,  \* the arguments
          phase,        \* where the call is
          order,        \* placement_order
          turn,         \* students order[1..turn] have had their turn
          remaining,    \* remaining_seats
          assignments,  \* SeatAssignmentRecords, in creation order
          unassigned,   \* unassigned_student_ids
          blocked,      \* constraint_blocked_count
          result        \* the SeatingResult, once returned

arguments == <<students, allocations, layout, courses, constraints>>
vars == <<students, allocations, layout, courses, constraints, phase, order,
          turn, remaining, assignments, unassigned, blocked, result>>

NoResult == [status |-> "none"]

Placed == {assignments[i] : i \in DOMAIN assignments}

\* Faulty variant: a single course is spread out too.
AlwaysOnByDefault == ~constraints.given

\* anti_cheating_enabled: the default constraint set, and two courses at least.
AntiCheatingEnabled ==
    /\ ~constraints.given
    /\ Cardinality(CoursesOf(students, courses)) >= 2

Init ==
    /\ \E call \in Calls :
          /\ students = call.students
          /\ allocations = call.allocations
          /\ layout = call.layout
          /\ courses = call.courses
          /\ constraints = call.constraints
    /\ phase = "called"
    /\ order = <<>>
    /\ turn = 0
    /\ remaining = {}
    /\ assignments = <<>>
    /\ unassigned = <<>>
    /\ blocked = 0
    /\ result = NoResult

RejectDuplicateRooms ==
    /\ phase = "called"
    /\ ~RoomsDistinct(allocations)
    /\ phase' = "value_error"
    /\ UNCHANGED <<arguments, order, turn, remaining, assignments, unassigned,
                   blocked, result>>

EveryRoomHasTopology ==
    \A i \in DOMAIN allocations : HasTopology(layout[allocations[i].room])

\* RoomTopologyMissingError out of the provider.
RejectMissingTopology ==
    /\ phase = "called"
    /\ RoomsDistinct(allocations)
    /\ ~EveryRoomHasTopology
    /\ phase' = "topology_error"
    /\ UNCHANGED <<arguments, order, turn, remaining, assignments, unassigned,
                   blocked, result>>

\* The loop over room_allocations; with the anti-cheating default the students
\* are interleaved next, otherwise they are placed as given.
CollectSeats ==
    /\ phase = "called"
    /\ RoomsDistinct(allocations)
    /\ EveryRoomHasTopology
    /\ remaining' = Candidates(allocations, layout)
    /\ IF AntiCheatingEnabled
       THEN phase' = "ordering" /\ UNCHANGED order
       ELSE phase' = "placing" /\ order' = students
    /\ UNCHANGED <<arguments, turn, assignments, unassigned, blocked, result>>

\* One turn of the loop of order_students_for_placement.
OrderNext ==
    /\ phase = "ordering"
    /\ Len(order) < Len(students)
    /\ order' = Append(order, students[NextInTurn(students, courses, order)])
    /\ UNCHANGED <<arguments, phase, turn, remaining, assignments, unassigned,
                   blocked, result>>

OrderDone ==
    /\ phase = "ordering"
    /\ Len(order) >= Len(students)
    /\ phase' = "placing"
    /\ UNCHANGED <<arguments, order, turn, remaining, assignments, unassigned,
                   blocked, result>>

\* Faulty variant: hard constraints are scored but not enforced.
AcceptAny(s) == remaining

\* The seats no hard constraint denies student s.
Acceptable(s) ==
    {p \in remaining :
        HardSatisfied(layout, constraints, Placed \cup {SeatRecord(s, p)})}

Score(s, p) ==
    IF AntiCheatingEnabled
    THEN SameCoursePenalty(layout, p, courses[s], Placed, courses)
    ELSE SoftViolations(layout, constraints, Placed \cup {SeatRecord(s, p)}, courses)

\* The scan keeps the first seat of strictly smallest score.
BestSeat(s) ==
    LET ok == Acceptable(s)
        score == [p \in ok |-> Score(s, p)]
    IN  FirstOf({p \in ok : \A q \in ok : score[p] <= score[q]})

\* Faulty variant: the best seat is used but the first one is popped.
SeatNextPoppingFirst ==
    /\ phase = "placing"
    /\ turn < Len(order)
    /\ LET s == order[turn + 1]
       IN  /\ Acceptable(s) # {}
           /\ assignments' = Append(assignments, SeatRecord(s, BestSeat(s)))
           /\ remaining' = remaining \ {FirstOf(remaining)}
    /\ turn' = turn + 1
    /\ UNCHANGED <<arguments, phase, order, unassigned, blocked, result>>

\* The student's turn, with at least one acceptable seat: the best one is taken
\* out of remaining_seats.
SeatNext ==
    /\ phase = "placing"
    /\ turn < Len(order)
    /\ LET s == order[turn + 1]
       IN  /\ Acceptable(s) # {}
           /\ assignments' = Append(assignments, SeatRecord(s, BestSeat(s)))
           /\ remaining' = remaining \ {BestSeat(s)}
    /\ turn' = turn + 1
    /\ UNCHANGED <<arguments, phase, order, unassigned, blocked, result>>

\* Faulty variant: a student no seat suits perfectly is left out.
LeaveOutUnlessIdeal ==
    /\ phase = "placing"
    /\ turn < Len(order)
    /\ LET s == order[turn + 1]
       IN  /\ \A p \in Acceptable(s) : Score(s, p) > 0
           /\ unassigned' = Append(unassigned, s)
           /\ blocked' = blocked + (IF remaining # {} THEN 1 ELSE 0)
    /\ turn' = turn + 1
    /\ UNCHANGED <<arguments, phase, order, remaining, assignments, result>>

\* No acceptable seat: the student is left out, and counted as blocked by a
\* constraint when seats were still free.
LeaveOut ==
    /\ phase = "placing"
    /\ turn < Len(order)
    /\ LET s == order[turn + 1]
       IN  /\ Acceptable(s) = {}
           /\ unassigned' = Append(unassigned, s)
           /\ blocked' = blocked + (IF remaining # {} THEN 1 ELSE 0)
    /\ turn' = turn + 1
    /\ UNCHANGED <<arguments, phase, order, remaining, assignments, result>>

Return ==
    /\ phase = "placing"
    /\ turn >= Len(order)
    /\ result' = Summary(Len(students), Len(assignments), Len(unassigned),
                         allocations, layout)
    /\ phase' = "returned"
    /\ UNCHANGED <<arguments, order, turn, remaining, assignments, unassigned,
                   blocked>>

Next ==
    \/ RejectDuplicateRooms \/ RejectMissingTopology \/ CollectSeats
    \/ OrderNext \/ OrderDone
    \/ SeatNext \/ LeaveOut \/ Return

Spec == Init /\ [][Next]_vars
-----------------------------------------------------------------------------
SeatPool ==
    IF RoomsDistinct(allocations) /\ EveryRoomHasTopology
    THEN {[room |-> p.room, seat |-> p.seat] : p \in Candidates(allocations, layout)}
    ELSE {}

\* Interleaving loses no one and seats no one twice: on return every student of
\* the call is either in the assignment list or in the list of students left
\* out, and in exactly one place of one of them.
EveryoneAccountedFor ==
    phase = "returned" =>
        \A i \in DOMAIN students :
            Cardinality({j \in DOMAIN assignments : assignments[j].student = students[i]})
              + Cardinality({j \in DOMAIN unassigned : unassigned[j] = students[i]}) = 1

\* Courses that have caught up with each other stay level: once two courses'
\* waiting lists differ by at most one student they do so until both are empty,
\* so from then on no course gets a run of turns of its own.
LevelCoursesStayLevel ==
    [][LET left(c, o) == Cardinality(Waiting(students, courses, o, c))
       IN  phase = "ordering" =>
             \A c, d \in CoursesOf(students, courses) :
                 left(c, order) - left(d, order) \in -1..1 =>
                     left(c, order') - left(d, order') \in -1..1]_order

\* The greedy pass ends in a state no further student could be added to: for
\* every student left out, each seat still free would break a hard constraint.
\* Without hard constraints, as in every API call, every room is full.
LeftOutForGoodReason ==
    phase = "returned" =>
        /\ \A i \in DOMAIN unassigned : Acceptable(unassigned[i]) = {}
        /\ unassigned # <<>> /\ constraints.apart = {} =>
               RoomsFull(assignments, allocations, layout)

\* Hard constraints hold of the finished seating as a whole, although each seat
\* was only ever checked against the students seated before.
HardConstraintsHold == HardSatisfied(layout, constraints, Placed)

\* With one course only, the default behaves exactly as sequential seating: the
\* anti-cheating penalties do not scatter a single course.
SingleCourseSeatedInOrder ==
    ~constraints.given /\ Cardinality(CoursesOf(students, courses)) <= 1 =>
        InStudentOrder(assignments, allocations)

\* What the comment above the weights says: a seat with fewer orthogonally
\* adjacent students of the same course always outranks one with more.
FewestOrthogonalNeighbours ==
    phase = "placing" /\ turn < Len(order) /\ AntiCheatingEnabled =>
        LET s == order[turn + 1]
            Beside(p) == Cardinality(OrthogonalNeighbours(layout, p,
                            Neighbours(p, courses[s], Placed, courses)))
        IN  \A p \in Acceptable(s) : Beside(BestSeat(s)) <= Beside(p)

\* The contract every strategy promises (module SeatingContract).
Contract == INSTANCE SeatingContract WITH
    registered <- {students[i] : i \in DOMAIN students},
    pool <- SeatPool,
    placed <- Placed,
    outcome <- IF phase = "returned" THEN result.status ELSE "none"

\* The greedy pass implements the contract: it only ever seats a waiting
\* student in a free seat of the pool, and its status is the contract's verdict.
ImplementsContract == Contract!Spec
=============================================================================
