------------------------ MODULE MCConstraintSeating -------------------------
(***************************************************************************)
(* Default runs: three courses, up to six students, a 2x3 room with any    *)
(* one blocked seat and a second, 1x2 room.  Explicit runs: pairs to keep  *)
(* apart in rooms too narrow for it.                                       *)
(***************************************************************************)
EXTENDS ConstraintSeating

MCStudent == 1..6
MCRoomId == {1, 2}
MCCourseId == 1..3

BigRoom(b) == [capacity |-> 6, rows |-> 2, columns |-> 3, blocked |-> b]
SmallRoom == [capacity |-> 2, rows |-> 1, columns |-> 2, blocked |-> {}]
BareRoom == [capacity |-> 2, rows |-> 0, columns |-> 0, blocked |-> {}]

Call(n, allocs, rooms, cs, set) ==
    [students |-> [i \in 1..n |-> i], allocations |-> allocs, layout |-> rooms,
     courses |-> cs, constraints |-> set]

Alloc(r, n) == [room |-> r, allocated |-> n]

Default(n, a, b, cs) ==
    Call(n, <<Alloc(1, a), Alloc(2, 1)>>, <<BigRoom(b), SmallRoom>>, cs, NoConstraintSet)

\* Courses of the students 1..n; the others are registered for none of the
\* call's exams and their course does not matter.
CoursePatterns(n, m) ==
    {[s \in MCStudent |-> IF s <= n THEN f[s] ELSE 1] : f \in [1..n -> 1..m]}

DefaultCalls ==
    {Default(5, a, b, cs) : a \in {3, 7}, b \in {{2}, {1, 5}}, cs \in CoursePatterns(5, 3)}
    \cup {Default(6, 7, {}, cs) : cs \in CoursePatterns(6, 2)}
    \cup {Default(n, 0, {}, [s \in MCStudent |-> 1]) : n \in {0, 2}}

RejectedCalls ==
    {Call(3, <<Alloc(1, 2), Alloc(1, 2)>>, <<BigRoom({}), SmallRoom>>,
          [s \in MCStudent |-> 1], NoConstraintSet),
     Call(3, <<Alloc(1, 2), Alloc(2, 2)>>, <<BigRoom({}), BareRoom>>,
          [s \in MCStudent |-> 1], NoConstraintSet)}

Pairs == {{1, 2}, {1, 3}, {2, 3}, {3, 4}}

ExplicitCalls ==
    {Call(4, <<Alloc(2, m), Alloc(1, a)>>, <<BigRoom({4}), SmallRoom>>,
          [s \in MCStudent |-> IF s \in odd THEN 1 ELSE 2],
          [apart |-> ps, together |-> soft, given |-> TRUE]) :
        m \in {1, 2}, a \in {0, 2, 3}, odd \in {{1, 3}, {1, 4}, {1, 2, 3, 4}},
        ps \in SUBSET Pairs, soft \in BOOLEAN}

MCCalls == DefaultCalls \cup RejectedCalls \cup ExplicitCalls

\* A 3x3 room with its first seat blocked, nearly full of one course.
CrowdedCalls ==
    {Call(6, <<Alloc(1, 9)>>,
          <<[capacity |-> 9, rows |-> 3, columns |-> 3, blocked |-> {1}], SmallRoom>>,
          [s \in MCStudent |-> IF s = 1 THEN 1 ELSE 2], NoConstraintSet)}
=============================================================================
