------------------------- MODULE MCSeatingLifecycle -------------------------
(***************************************************************************)
(* Two exams in the morning that share room 1, one of which also has room  *)
(* 2, and an afternoon exam.  Room 1 holds both allocations exactly, until *)
(* a room file blocks one of its seats.                                    *)
(***************************************************************************)
EXTENDS SeatingLifecycle, TLC

\* Nothing tells one thread of the pool from another.
ThreadsAlike == Permutations(Request)

MCStudent == 1..3
MCCourse == 1..3
MCRoomId == {1, 2}

MCCapacity == <<3, 2>>

Laid(n, blocked) == [capacity |-> n, rows |-> 1, columns |-> n, blocked |-> blocked]
Bare(n) == [capacity |-> n, rows |-> 0, columns |-> 0, blocked |-> {}]

MCRooms == <<Laid(3, {}), Bare(2)>>

Reg(s, c) == [student |-> s, course |-> c]
Exam(c, slot) == [course |-> c, slot |-> slot]
Line(e, r, n) == [exam |-> e, room |-> r, allocated |-> n]

MCStart ==
    {[rooms |-> MCRooms,
      exams |-> <<Exam(1, "am"), Exam(2, "am"), Exam(3, "pm")>>,
      lines |-> <<Line(1, 1, 1), Line(2, 1, 2), Line(2, 2, 1)>>,
      registrations |-> {Reg(1, 1), Reg(3, 2), Reg(2, 1), Reg(3, 3)},
      sessions |-> <<[ids |-> <<1, 2>>, since |-> [imports |-> 0, resets |-> 0]]>>]}

MCExamArgs == {<<>>, <<1, 1>>, <<1>>, <<2, 1>>, <<1, 3>>}

MCRegistrationFiles == {{Reg(1, 1), Reg(2, 2)}}

MCScheduleFiles ==
    {[course |-> 1, slot |-> "am", lines |-> <<[room |-> 1, allocated |-> 2],
                                               [room |-> 2, allocated |-> 2]>>]}

\* Blocks a seat of room 1, and has room 2 as it is.
MCRoomFiles == {<<Laid(3, {1}), Bare(2)>>}

\* For the liveness run.
MCFewExamArgs == {<<1>>, <<2, 1>>}

MCFewScheduleFiles ==
    {[course |-> 2, slot |-> "am", lines |-> <<[room |-> 1, allocated |-> 2]>>]}
=============================================================================
