---------------------------- MODULE AntiCheating ----------------------------
(***************************************************************************)
(* The pure functions behind constraint seating:                           *)
(*   backend/app/seating/anti_cheating.py - who is seated next, and how    *)
(*     much a seat would cluster a course;                                 *)
(*   backend/app/seating/constraints.py - hard and soft constraints.       *)
(*                                                                         *)
(* `courses` maps a student to a course id, `placed` is a set of           *)
(* assignment records [student, room, seat].                               *)
(***************************************************************************)
EXTENDS SeatTopology, Sequences

\* Faulty variant: only the student who went last is taken off the lists.
WaitingButLast(students, courses, ordered, c) ==
    {i \in DOMAIN students :
        /\ courses[students[i]] = c
        /\ ordered = <<>> \/ ordered[Len(ordered)] # students[i]}

\* Students of course c still waiting when the students in `ordered` are out.
Waiting(students, courses, ordered, c) ==
    {i \in DOMAIN students :
        /\ courses[students[i]] = c
        /\ \A j \in DOMAIN ordered : ordered[j] # students[i]}

CoursesOf(students, courses) == {courses[students[i]] : i \in DOMAIN students}

\* Faulty variant: courses take turns by id, not by how many still wait.
NextCourseById(students, courses, ordered) ==
    CHOOSE c \in CoursesOf(students, courses) :
        /\ Waiting(students, courses, ordered, c) # {}
        /\ \A d \in CoursesOf(students, courses) :
               Waiting(students, courses, ordered, d) # {} => c <= d

\* The course with the most waiting students, the smallest id on a tie.
NextCourse(students, courses, ordered) ==
    LET left(c) == Cardinality(Waiting(students, courses, ordered, c))
    IN  CHOOSE c \in CoursesOf(students, courses) :
            \A d \in CoursesOf(students, courses) :
                left(c) > left(d) \/ (left(c) = left(d) /\ c <= d)

\* One turn of order_students_for_placement: that course's first waiting
\* student, as a position of `students`.
NextInTurn(students, courses, ordered) ==
    LET w == Waiting(students, courses, ordered, NextCourse(students, courses, ordered))
    IN  CHOOSE i \in w : \A j \in w : i <= j
-----------------------------------------------------------------------------
\* The weights, doubled: the only fractional term of the sum, the proximity of
\* a diagonal neighbour (2 - sqrt 2, between 0 and 1), then becomes 1, which
\* keeps every comparison of two penalties.
OrthogonalWeight == 200
DiagonalWeight == 100
RowWeight == 10
ColumnWeight == 10
DensityWeight == 4

\* SEPARATION_TARGET - nearest_distance, doubled, or 0 from two seats on.
Proximity(layout, p, near) ==
    CASE \E o \in near : DistanceSquared(layout, p, o) = 1 -> 2
      [] /\ \A o \in near : DistanceSquared(layout, p, o) # 1
         /\ \E o \in near : DistanceSquared(layout, p, o) = 2 -> 1
      [] OTHER -> 0

InLine(layout, p, o) == SameRow(layout, p, o) \/ SameColumn(layout, p, o)

\* Students of course c already seated in p's room; those in other rooms add
\* nothing to any term.
Neighbours(p, c, placed, courses) ==
    {o \in placed : o.room = p.room /\ courses[o.student] = c}

OrthogonalNeighbours(layout, p, near) ==
    {o \in near : IsAdjacent(layout, p, o) /\ InLine(layout, p, o)}

\* same_course_penalty.
SameCoursePenalty(layout, p, c, placed, courses) ==
    LET near == Neighbours(p, c, placed, courses)
        count(S) == Cardinality(S)
    IN    OrthogonalWeight * count(OrthogonalNeighbours(layout, p, near))
        + DiagonalWeight * count({o \in near : IsAdjacent(layout, p, o)
                                                 /\ ~InLine(layout, p, o)})
        + RowWeight * count({o \in near : SameRow(layout, p, o)})
        + ColumnWeight * count({o \in near : SameColumn(layout, p, o)})
        + DensityWeight * count({o \in near : DistanceSquared(layout, p, o) <= 4})
        + Proximity(layout, p, near)
-----------------------------------------------------------------------------
\* A constraint set is a record [apart, together]: `apart` is a set of student
\* pairs, one hard StudentsNotAdjacentConstraint each; `together` tells whether
\* the soft SeparateCoursesConstraint is in it.

\* StudentsNotAdjacentConstraint.is_satisfied.
KeptApart(layout, pair, placed) ==
    \A a, b \in placed :
        {a.student, b.student} = pair /\ a # b => ~IsAdjacent(layout, a, b)

\* evaluate_constraints(...).satisfied: no hard constraint is violated.
HardSatisfied(layout, cs, placed) ==
    \A pair \in cs.apart : KeptApart(layout, pair, placed)

\* SeparateCoursesConstraint.is_satisfied.
CoursesTogether(layout, placed, courses) ==
    \A a, b \in placed :
        IsAdjacent(layout, a, b) => courses[a.student] = courses[b.student]

\* len(evaluation.soft_violations).
SoftViolations(layout, cs, placed, courses) ==
    IF cs.together /\ ~CoursesTogether(layout, placed, courses) THEN 1 ELSE 0
=============================================================================
