----------------------------- MODULE MCReports ------------------------------
(***************************************************************************)
(* Two databases, either of which may also follow a reset.  In the first,  *)
(* two exams of one session share room 1, in which a seat is blocked, and  *)
(* the student of the first course has the larger number.  In the second,  *)
(* the same ids name other students and rooms, an exam fills room 2, which *)
(* has no layout yet, before room 1, and another exam has no room.         *)
(***************************************************************************)
EXTENDS Reports

Room(code, capacity, columns, blocked) ==
    [code |-> code, capacity |-> capacity, columns |-> columns,
     rows |-> IF columns = 0 THEN 0 ELSE capacity \div columns, blocked |-> blocked]

Line(e, r, n) == [exam |-> e, room |-> r, allocated |-> n]

MCLoads ==
    {[students |-> <<30, 10>>,
      rooms |-> <<Room("A1", 3, 3, {2}), Room("B1", 1, 0, {})>>,
      exams |-> <<[course |-> 1, students |-> {1}], [course |-> 2, students |-> {2}]>>,
      lines |-> <<Line(1, 1, 1), Line(2, 1, 1), Line(2, 2, 1)>>,
      sessions |-> <<<<1, 2>>>>],
     [students |-> <<40, 10>>,
      rooms |-> <<Room("B1", 2, 1, {}), Room("C1", 1, 0, {})>>,
      exams |-> <<[course |-> 1, students |-> {1, 2}], [course |-> 2, students |-> {1}]>>,
      lines |-> <<Line(1, 2, 1), Line(1, 1, 1)>>,
      sessions |-> <<>>]}

\* What a schedule import stores that found its course, or its exam and a room, just
\* before the reset: an exam without a course, a row for no exam.
MCOvertakenLoads ==
    {[students |-> <<30, 10>>,
      rooms |-> <<Room("A1", 1, 1, {})>>,
      exams |-> <<[course |-> 0, students |-> {}], [course |-> 2, students |-> {2}]>>,
      lines |-> <<Line(3, 1, 1), Line(2, 1, 1)>>,
      sessions |-> <<<<1, 2>>>>]}
=============================================================================
