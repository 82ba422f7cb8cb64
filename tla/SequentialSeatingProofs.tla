----------------------- MODULE SequentialSeatingProofs ----------------------
(***************************************************************************)
(* Safety of sequential seating for every set of students, rooms and call  *)
(* arguments.                                                              *)
(***************************************************************************)
EXTENDS SequentialSeating, SeatingPlanProofs

StudentsDistinct ==
    \A i, j \in DOMAIN students : students[i] = students[j] => i = j

\* Each record gives the next student a candidate seat that is no longer open.
RecordsMatchSeats ==
    \A i \in DOMAIN assignments :
        /\ assignments[i].student = students[i]
        /\ \E p \in Candidates(allocations, layout) \ open :
               assignments[i].room = p.room /\ assignments[i].seat = p.seat

\* The inductive invariant.
IInv ==
    /\ TypeOK
    /\ StudentsDistinct
    /\ Len(assignments) = cursor
    /\ phase = "called" => assignments = <<>>
    /\ phase \in {"placing", "returned"} => RoomsDistinct(allocations)
    /\ open \subseteq Candidates(allocations, layout)
    /\ phase = "value_error" => assignments = <<>>
    /\ RecordsMatchSeats
    /\ NoDoubleSeating

LEMMA Arguments == TypeOK => RoomArguments(RoomId, allocations, layout)
BY DEF TypeOK, RoomArguments

LEMMA InitIInv == Init => IInv
<1> SUFFICES ASSUME Init PROVE IInv
    OBVIOUS
<1> USE DEF Init
<1>1. PICK call \in Calls :
          /\ students = call.students
          /\ allocations = call.allocations
          /\ layout = call.layout
    OBVIOUS
<1>2. TypeOK
    <2>1. /\ students \in Seq(Student)
          /\ allocations \in Seq([room : RoomId, allocated : Nat])
          /\ layout \in [RoomId -> RoomRecord]
        BY <1>1, CallsAreTyped DEF CallsAssumption
    <2>2. cursor \in 0..Len(students)
        BY <2>1, LenProperties
    <2>3. assignments \in Seq(Assignment)
        BY EmptySeq
    <2> QED
        BY <2>1, <2>2, <2>3 DEF TypeOK, Phases
<1>3. StudentsDistinct
    BY <1>1, CallsAreTyped DEF CallsAssumption, StudentsDistinct
<1>4. RecordsMatchSeats /\ NoDoubleSeating
    BY DEF RecordsMatchSeats, NoDoubleSeating, CollisionFree
<1> QED
    BY <1>2, <1>3, <1>4 DEF IInv

LEMMA CollectTargetsKeepsIInv == IInv /\ CollectTargets => IInv'
<1> SUFFICES ASSUME IInv, CollectTargets PROVE IInv'
    OBVIOUS
<1> USE DEF CollectTargets, IInv, arguments
<1>1. open' \subseteq [order : Nat, room : RoomId, seat : Nat]
    BY Arguments, CandidateSeats
<1>2. TypeOK'
    BY <1>1 DEF TypeOK, Phases
<1>3. assignments' = <<>>
    OBVIOUS
<1>4. RecordsMatchSeats' /\ NoDoubleSeating' /\ StudentsDistinct'
    BY <1>3 DEF RecordsMatchSeats, NoDoubleSeating, CollisionFree, StudentsDistinct
<1> QED
    BY <1>2, <1>4

LEMMA SeatNextKeepsIInv == IInv /\ SeatNext => IInv'
<1> SUFFICES ASSUME IInv, SeatNext PROVE IInv'
    OBVIOUS
<1> USE DEF SeatNext, IInv, arguments
<1> DEFINE p == FirstOf(open)
           record == SeatRecord(students[cursor + 1], p)
<1>1. p \in open
    BY Arguments, FirstOfIsMember
<1>2. /\ p \in Candidates(allocations, layout)
      /\ p \in [order : Nat, room : RoomId, seat : Nat]
    BY <1>1 DEF TypeOK
<1>3. /\ cursor \in Nat /\ cursor + 1 \in 1..Len(students)
      /\ students[cursor + 1] \in Student
    BY DEF TypeOK
<1>4. record \in Assignment
    BY <1>2, <1>3 DEF SeatRecord, Assignment
<1>5. /\ assignments' = Append(assignments, record)
      /\ open' = open \ {p}
    OBVIOUS
<1>6. /\ assignments \in Seq(Assignment) /\ assignments' \in Seq(Assignment)
      /\ Len(assignments') = cursor + 1
      /\ assignments'[cursor + 1] = record
      /\ \A i \in 1..cursor : assignments'[i] = assignments[i]
      /\ DOMAIN assignments = 1..cursor
      /\ DOMAIN assignments' = 1..(cursor + 1)
    BY <1>3, <1>4, <1>5 DEF TypeOK
<1>7. TypeOK'
    BY <1>3, <1>5, <1>6 DEF TypeOK
<1>8. RecordsMatchSeats'
    <2> SUFFICES ASSUME NEW i \in 1..(cursor + 1)
                 PROVE  /\ assignments'[i].student = students[i]
                        /\ \E q \in Candidates(allocations, layout) \ open' :
                               /\ assignments'[i].room = q.room
                               /\ assignments'[i].seat = q.seat
        BY <1>6 DEF RecordsMatchSeats
    <2>1. CASE i = cursor + 1
        BY <2>1, <1>2, <1>5, <1>6 DEF SeatRecord
    <2>2. CASE i \in 1..cursor
        BY <2>2, <1>5, <1>6 DEF RecordsMatchSeats
    <2> QED
        BY <2>1, <2>2, <1>3
<1>9. NoDoubleSeating'
    <2>1. ASSUME NEW i \in 1..cursor
          PROVE  /\ assignments[i].student # record.student
                 /\ assignments[i].room # record.room \/ assignments[i].seat # record.seat
        <3>1. assignments[i].student = students[i]
            BY <1>6 DEF RecordsMatchSeats
        <3>2. i \in DOMAIN students /\ cursor + 1 \in DOMAIN students /\ i # cursor + 1
            BY <1>3 DEF TypeOK
        <3>3. students[i] # students[cursor + 1]
            BY <3>2 DEF StudentsDistinct
        <3>4. PICK q \in Candidates(allocations, layout) \ open :
                  assignments[i].room = q.room /\ assignments[i].seat = q.seat
            BY <1>6 DEF RecordsMatchSeats
        <3>5. q # p
            BY <3>4, <1>1
        <3>6. q.room # p.room \/ q.seat # p.seat
            BY <3>4, <3>5, <1>2, Arguments, CandidateIdentity
        <3> QED
            BY <3>1, <3>3, <3>4, <3>6 DEF SeatRecord
    <2> SUFFICES ASSUME NEW i \in 1..(cursor + 1), NEW j \in 1..(cursor + 1), i # j
                 PROVE  /\ assignments'[i].student # assignments'[j].student
                        /\ \/ assignments'[i].room # assignments'[j].room
                           \/ assignments'[i].seat # assignments'[j].seat
        BY <1>6 DEF NoDoubleSeating, CollisionFree
    <2>2. CASE i \in 1..cursor /\ j \in 1..cursor
        BY <2>2, <1>6 DEF NoDoubleSeating, CollisionFree
    <2>3. CASE i = cursor + 1 /\ j \in 1..cursor
        BY <2>3, <2>1, <1>6
    <2>4. CASE j = cursor + 1 /\ i \in 1..cursor
        BY <2>4, <2>1, <1>6
    <2> QED
        BY <2>2, <2>3, <2>4, <1>3
<1> QED
    BY <1>5, <1>6, <1>7, <1>8, <1>9 DEF StudentsDistinct

LEMMA NextKeepsIInv == IInv /\ [Next]_vars => IInv'
<1> SUFFICES ASSUME IInv, [Next]_vars PROVE IInv'
    OBVIOUS
<1>1. CASE RejectDuplicateRooms
    BY <1>1 DEF RejectDuplicateRooms, IInv, arguments, TypeOK, Phases, StudentsDistinct,
                RecordsMatchSeats, NoDoubleSeating, CollisionFree
<1>2. CASE CollectTargets
    BY <1>2, CollectTargetsKeepsIInv
<1>3. CASE SeatNext
    BY <1>3, SeatNextKeepsIInv
<1>4. CASE Return
    BY <1>4 DEF Return, IInv, arguments, TypeOK, Phases, StudentsDistinct,
                RecordsMatchSeats, NoDoubleSeating, CollisionFree
<1>5. CASE UNCHANGED vars
    BY <1>5 DEF vars, IInv, TypeOK, StudentsDistinct, RecordsMatchSeats,
                NoDoubleSeating, CollisionFree
<1> QED
    BY <1>1, <1>2, <1>3, <1>4, <1>5 DEF Next

\* Every call keeps the inductive invariant.
THEOREM InvariantHolds == Spec => []IInv
BY InitIInv, NextKeepsIInv, PTL DEF Spec

\* The state of a call is always well typed.
THEOREM TypeCorrect == Spec => []TypeOK
<1>1. IInv => TypeOK
    BY DEF IInv
<1> QED
    BY <1>1, InvariantHolds, PTL

\* Sequential seating never gives a seat to two students or a student two seats.
THEOREM NeverDoubleSeated == Spec => []NoDoubleSeating
<1>1. IInv => NoDoubleSeating
    BY DEF IInv
<1> QED
    BY <1>1, InvariantHolds, PTL

\* An assignment never repeats a student already seated: the student list has no
\* duplicates and the records follow it.
LEMMA SeatedStudents ==
    ASSUME IInv
    PROVE  /\ Cardinality({students[i] : i \in DOMAIN students}) = Len(students)
           /\ Cardinality(Contract!Seated) = cursor
<1> USE DEF IInv
<1>1. /\ Len(students) \in Nat /\ cursor \in 0..Len(students)
      /\ DOMAIN students = 1..Len(students)
      /\ DOMAIN assignments = 1..cursor
    BY DEF TypeOK
<1>2. ASSUME NEW k \in 0..Len(students)
      PROVE  Cardinality({students[i] : i \in 1..k}) = k
    <2> DEFINE S == {students[i] : i \in 1..k}
               f == [i \in 1..k |-> students[i]]
    <2>1. /\ f \in [1..k -> S]
          /\ \A i, j \in 1..k : f[i] = f[j] => i = j
          /\ \A t \in S : \E i \in 1..k : f[i] = t
        BY <1>1 DEF StudentsDistinct
    <2> HIDE DEF f, S
    <2>2. k \in Nat /\ ExistsBijection(1..k, S)
        BY <1>1, <2>1 DEF ExistsBijection, Bijection, Injection, Surjection, IsInjective
    <2>3. Cardinality(S) = k
        BY <2>2, FS_CountingElements
    <2> QED
        BY <2>3 DEF S
<1>3. Contract!Seated = {students[i] : i \in 1..cursor}
    BY <1>1 DEF Contract!Seated, RecordsMatchSeats
<1>4. Len(students) \in 0..Len(students)
    BY <1>1
<1> HIDE DEF IInv
<1>5. Cardinality({students[i] : i \in 1..Len(students)}) = Len(students)
    BY <1>2, <1>4
<1>6. Cardinality({students[i] : i \in 1..cursor}) = cursor
    BY <1>1, <1>2
<1> QED
    BY <1>1, <1>3, <1>5, <1>6

\* The contract's Cardinality is the one of this module.
LEMMA SameCardinality == \A S : Contract!Cardinality(S) = Cardinality(S)
BY DEF Contract!Cardinality, Cardinality, Contract!IsFiniteSet, IsFiniteSet

LEMMA InitImplements == Init => Contract!Init
<1> SUFFICES ASSUME Init PROVE Contract!Init
    OBVIOUS
<1>1. IInv
    BY InitIInv
<1>2. {students[i] : i \in DOMAIN students} \subseteq Student
    BY <1>1 DEF IInv, TypeOK
<1>3. SeatPool \subseteq Contract!Seat
    BY <1>1, Arguments, CandidateSeats DEF SeatPool, Contract!Seat, IInv
<1>4. {assignments[i] : i \in DOMAIN assignments} = {}
    BY DEF Init
<1>5. (IF phase = "returned" THEN result.status ELSE "none") = "none"
    BY DEF Init
<1> QED
    BY <1>2, <1>3, <1>4, <1>5 DEF Contract!Init

\* One turn of the assignment loop is one Place of the contract.
LEMMA SeatNextImplements == IInv /\ SeatNext => Contract!Next
<1> SUFFICES ASSUME IInv, SeatNext PROVE Contract!Next
    OBVIOUS
<1> DEFINE p == FirstOf(open)
           s == students[cursor + 1]
           q == [room |-> p.room, seat |-> p.seat]
<1>1. p \in open /\ p \in Candidates(allocations, layout)
    BY Arguments, FirstOfIsMember DEF IInv, SeatNext, arguments
<1>2. /\ cursor \in Nat /\ DOMAIN assignments = 1..cursor
      /\ cursor + 1 \in DOMAIN students
      /\ 1..cursor \subseteq DOMAIN students
    BY DEF IInv, TypeOK, SeatNext
<1>3. s \in {students[i] : i \in DOMAIN students}
    BY <1>2
<1>4. s \notin Contract!Seated
    BY <1>2 DEF Contract!Seated, IInv, RecordsMatchSeats, StudentsDistinct
<1>5. q \in SeatPool
    BY <1>1 DEF SeatPool, IInv, SeatNext
<1>6. q \notin Contract!Taken
    <2> SUFFICES ASSUME NEW i \in DOMAIN assignments,
                        q = [room |-> assignments[i].room, seat |-> assignments[i].seat]
                 PROVE  FALSE
        BY DEF Contract!Taken
    <2>1. PICK c \in Candidates(allocations, layout) \ open :
              assignments[i].room = c.room /\ assignments[i].seat = c.seat
        BY DEF IInv, RecordsMatchSeats
    <2>2. c = p
        BY <1>1, <2>1, Arguments, CandidateIdentity DEF IInv, SeatNext
    <2> QED
        BY <1>1, <2>1, <2>2
<1>7. {assignments'[i] : i \in DOMAIN assignments'} =
          {assignments[i] : i \in DOMAIN assignments}
              \cup {[student |-> s, room |-> q.room, seat |-> q.seat]}
    <2>1. SeatRecord(s, p) \in Assignment
        BY <1>1, <1>2 DEF SeatRecord, Assignment, IInv, TypeOK
    <2>2. /\ assignments \in Seq(Assignment)
          /\ assignments' = Append(assignments, SeatRecord(s, p))
        BY DEF IInv, TypeOK, SeatNext
    <2>3. /\ DOMAIN assignments' = 1..(cursor + 1)
          /\ assignments'[cursor + 1] = SeatRecord(s, p)
          /\ \A i \in 1..cursor : assignments'[i] = assignments[i]
        BY <1>2, <2>1, <2>2
    <2> QED
        BY <1>2, <2>3 DEF SeatRecord
<1>8. phase # "returned" /\ phase' # "returned"
    BY DEF SeatNext
<1>9. /\ students' = students
      /\ RoomsDistinct(allocations)' = RoomsDistinct(allocations)
      /\ Candidates(allocations, layout)' = Candidates(allocations, layout)
    BY DEF SeatNext, arguments
<1>10. SeatPool' = SeatPool
    BY <1>9 DEF SeatPool
<1>11. PICK t \in {students[i] : i \in DOMAIN students}, u \in SeatPool : t = s /\ u = q
    BY <1>3, <1>5
<1>12. Contract!Place(t, u)
    BY <1>4, <1>6, <1>7, <1>8, <1>9, <1>10, <1>11 DEF Contract!Place
<1> QED
    BY <1>12 DEF Contract!Next

\* The return statement is the contract's Conclude: the status of the code is the
\* contract's verdict.
LEMMA ReturnImplements == IInv /\ Return => Contract!Next
<1> SUFFICES ASSUME IInv, Return PROVE Contract!Next
    OBVIOUS
<1>1. /\ Len(students) \in Nat /\ cursor \in 0..Len(students)
      /\ Len(assignments) = cursor
    BY DEF IInv, TypeOK
<1>2. /\ phase = "placing" /\ phase' = "returned"
      /\ students' = students /\ assignments' = assignments
      /\ allocations' = allocations /\ layout' = layout
    BY DEF Return, arguments
<1>3. result'.status = StatusOf(Len(students), cursor, Len(students) - cursor)
    BY <1>1 DEF Return, Summary
<1>4. StatusOf(Len(students), cursor, Len(students) - cursor)
        = Contract!Verdict(Cardinality({students[i] : i \in DOMAIN students}),
                           Cardinality(Contract!Seated))
    BY <1>1, SeatedStudents DEF StatusOf, Contract!Verdict
<1>5. SeatPool' = SeatPool
    BY <1>2 DEF SeatPool
<1>6. Contract!Conclude
    BY <1>2, <1>3, <1>4, <1>5, SameCardinality DEF Contract!Conclude
<1> QED
    BY <1>6 DEF Contract!Next

LEMMA StepImplements == IInv /\ [Next]_vars => [Contract!Next]_(Contract!contractVars)
<1> SUFFICES ASSUME IInv, [Next]_vars
             PROVE  Contract!Next \/ UNCHANGED Contract!contractVars
    OBVIOUS
<1>1. CASE SeatNext
    BY <1>1, SeatNextImplements
<1>2. CASE Return
    BY <1>2, ReturnImplements
<1>3. ASSUME /\ UNCHANGED <<students, allocations, layout>>
             /\ assignments' = assignments
             /\ \/ phase # "returned" /\ phase' # "returned"
                \/ phase' = phase /\ result' = result
      PROVE  UNCHANGED Contract!contractVars
    BY <1>3 DEF Contract!contractVars, SeatPool
<1>4. CASE RejectDuplicateRooms
    BY <1>3, <1>4 DEF RejectDuplicateRooms, arguments
<1>5. CASE CollectTargets
    BY <1>3, <1>5 DEF CollectTargets, arguments
<1>6. CASE UNCHANGED vars
    BY <1>3, <1>6 DEF vars
<1> QED
    BY <1>1, <1>2, <1>4, <1>5, <1>6 DEF Next

\* The assignment loop of the sequential strategy implements the contract of a
\* seating strategy: every student it seats was waiting, every seat it hands out
\* was free and in the pool, and the status it returns is the contract's verdict.
THEOREM SequentialImplementsContract == Spec => ImplementsContract
BY InvariantHolds, InitImplements, StepImplements, PTL
   DEF Spec, ImplementsContract, Contract!Spec
-----------------------------------------------------------------------------
\* Every seat handed out comes before every seat still open.
SeatsTakenInOrder ==
    \A i \in DOMAIN assignments : \A p \in open :
        \E q \in Candidates(allocations, layout) :
            /\ assignments[i].room = q.room
            /\ assignments[i].seat = q.seat
            /\ Before(q, p)

LEMMA SeatNextKeepsOrder ==
    ASSUME IInv, SeatsTakenInOrder, SeatedInStudentOrder, SeatNext
    PROVE  SeatsTakenInOrder' /\ SeatedInStudentOrder'
<1> DEFINE p == FirstOf(open)
           record == SeatRecord(students[cursor + 1], p)
<1>1. /\ p \in open /\ p \in Candidates(allocations, layout)
      /\ \A q \in open : p = q \/ Before(p, q)
    BY Arguments, FirstOfIsMember DEF IInv, SeatNext, arguments
<1>2. /\ allocations' = allocations /\ layout' = layout
      /\ Candidates(allocations, layout)' = Candidates(allocations, layout)
      /\ open' = open \ {p}
    BY DEF SeatNext, arguments
<1>3. /\ cursor \in Nat /\ DOMAIN assignments = 1..cursor
      /\ cursor + 1 \in DOMAIN students
    BY DEF IInv, TypeOK, SeatNext
<1>4. record \in Assignment
    BY <1>1, <1>3 DEF SeatRecord, Assignment, IInv, TypeOK
<1>5. /\ assignments \in Seq(Assignment)
      /\ assignments' = Append(assignments, record)
    BY DEF IInv, TypeOK, SeatNext
<1>6. /\ DOMAIN assignments' = 1..(cursor + 1)
      /\ assignments'[cursor + 1].room = p.room
      /\ assignments'[cursor + 1].seat = p.seat
      /\ \A i \in 1..cursor : assignments'[i] = assignments[i]
    BY <1>3, <1>4, <1>5 DEF SeatRecord
<1> HIDE DEF p, record
<1>7. SeatsTakenInOrder'
    <2> SUFFICES ASSUME NEW i \in 1..(cursor + 1), NEW r \in open'
                 PROVE  \E q \in Candidates(allocations, layout) :
                            /\ assignments'[i].room = q.room
                            /\ assignments'[i].seat = q.seat
                            /\ Before(q, r)
        BY <1>2, <1>6 DEF SeatsTakenInOrder
    <2>1. CASE i \in 1..cursor
        BY <1>2, <1>3, <1>6, <2>1 DEF SeatsTakenInOrder
    <2>2. CASE i = cursor + 1
        BY <1>1, <1>2, <1>6, <2>2
    <2> QED
        BY <1>3, <2>1, <2>2
<1>8. SeatedInStudentOrder'
    <2> SUFFICES ASSUME NEW i \in 1..(cursor + 1), NEW j \in 1..(cursor + 1), i < j
                 PROVE  \E k, l \in DOMAIN allocations :
                            /\ assignments'[i].room = allocations[k].room
                            /\ assignments'[j].room = allocations[l].room
                            /\ \/ k < l
                               \/ k = l /\ assignments'[i].seat < assignments'[j].seat
        BY <1>2, <1>6 DEF SeatedInStudentOrder, InStudentOrder
    <2>1. CASE j \in 1..cursor
        <3>1. i \in 1..cursor
            BY <1>3, <2>1
        <3> QED
            BY <1>3, <1>6, <2>1, <3>1 DEF SeatedInStudentOrder, InStudentOrder
    <2>2. CASE j = cursor + 1
        <3>1. i \in 1..cursor
            BY <1>3, <2>2
        <3>2. PICK q \in Candidates(allocations, layout) :
                  /\ assignments[i].room = q.room
                  /\ assignments[i].seat = q.seat
                  /\ Before(q, p)
            BY <1>1, <1>3, <3>1 DEF SeatsTakenInOrder
        <3>3. /\ q.order \in DOMAIN allocations /\ q.room = allocations[q.order].room
              /\ p.order \in DOMAIN allocations /\ p.room = allocations[p.order].room
            BY <1>1, Arguments, CandidateSeats DEF IInv
        <3> QED
            BY <1>6, <2>2, <3>1, <3>2, <3>3 DEF Before
    <2> QED
        BY <1>3, <2>1, <2>2
<1> QED
    BY <1>7, <1>8

\* Sequential seating seats the students in the order they are given, room after
\* room and seat after seat.
THEOREM AlwaysInStudentOrder == Spec => []SeatedInStudentOrder
<1> DEFINE Ordered == SeatsTakenInOrder /\ SeatedInStudentOrder
<1>1. Init => Ordered
    BY DEF Init, SeatsTakenInOrder, SeatedInStudentOrder, InStudentOrder
<1>2. IInv /\ Ordered /\ [Next]_vars => Ordered'
    <2> SUFFICES ASSUME IInv, Ordered, [Next]_vars PROVE Ordered'
        OBVIOUS
    <2>1. CASE RejectDuplicateRooms
        BY <2>1 DEF RejectDuplicateRooms, arguments, SeatsTakenInOrder,
                    SeatedInStudentOrder, InStudentOrder
    <2>2. CASE CollectTargets
        BY <2>2 DEF CollectTargets, arguments, IInv, SeatsTakenInOrder,
                    SeatedInStudentOrder, InStudentOrder
    <2>3. CASE SeatNext
        BY <2>3, SeatNextKeepsOrder
    <2>4. CASE Return
        BY <2>4 DEF Return, arguments, SeatsTakenInOrder, SeatedInStudentOrder,
                    InStudentOrder
    <2>5. CASE UNCHANGED vars
        BY <2>5 DEF vars, SeatsTakenInOrder, SeatedInStudentOrder, InStudentOrder
    <2> QED
        BY <2>1, <2>2, <2>3, <2>4, <2>5 DEF Next
<1>3. Ordered => SeatedInStudentOrder
    OBVIOUS
<1> QED
    BY <1>1, <1>2, <1>3, InvariantHolds, PTL DEF Spec

\* Records on candidate seats stay within the limits.
LEMMA LimitsFollow == IInv => SeatsWithinLimits
<1> SUFFICES ASSUME IInv PROVE SeatsWithinLimits
    OBVIOUS
<1>1. CASE assignments = <<>>
    <2>1. DOMAIN assignments = {}
        BY <1>1
    <2>2. \A k \in DOMAIN allocations :
              Cardinality(SeatedIn(assignments, allocations[k].room)) = 0
        BY <2>1, FS_EmptySet DEF SeatedIn
    <2>3. \A k \in DOMAIN allocations : allocations[k].allocated >= 0
        BY Arguments, TargetBounded DEF IInv
    <2> QED
        BY <2>1, <2>2, <2>3 DEF SeatsWithinLimits, WithinLimits
<1>2. CASE assignments # <<>>
    <2>1. RoomsDistinct(allocations) /\ CollisionFree(assignments)
        BY <1>2 DEF IInv, TypeOK, Phases, NoDoubleSeating
    <2>2. SeatedOn(assignments, Candidates(allocations, layout))
        BY DEF IInv, RecordsMatchSeats, SeatedOn
    <2> QED
        BY <2>1, <2>2, Arguments, LimitsOfCandidates DEF IInv, SeatsWithinLimits
<1> QED
    BY <1>1, <1>2

\* Every seat handed out exists and is not blocked, and no room takes more
\* students than the schedule allocates to it.
THEOREM AlwaysWithinLimits == Spec => []SeatsWithinLimits
BY LimitsFollow, InvariantHolds, PTL
-----------------------------------------------------------------------------
\* What the loop has used up: a candidate seat is open or taken, and a call only
\* returns when the students or the seats have run out.
SeatsAccounted ==
    /\ phase \in {"placing", "returned"} =>
           \A p \in Candidates(allocations, layout) \ open :
               \E i \in DOMAIN assignments :
                   assignments[i].room = p.room /\ assignments[i].seat = p.seat
    /\ phase = "returned" =>
           /\ cursor = Len(students) \/ open = {}
           /\ result.unassigned = Len(students) - cursor

LEMMA NextKeepsAccounts ==
    ASSUME IInv, SeatsAccounted, [Next]_vars
    PROVE  SeatsAccounted'
<1>1. CASE RejectDuplicateRooms
    BY <1>1 DEF RejectDuplicateRooms, SeatsAccounted
<1>2. CASE CollectTargets
    BY <1>2 DEF CollectTargets, SeatsAccounted, arguments
<1>3. CASE SeatNext
    <2> DEFINE p == FirstOf(open)
               record == SeatRecord(students[cursor + 1], p)
    <2>1. /\ phase = "placing" /\ phase' = "placing"
          /\ Candidates(allocations, layout)' = Candidates(allocations, layout)
          /\ open' = open \ {p}
          /\ assignments' = Append(assignments, record)
        BY <1>3 DEF SeatNext, arguments
    <2>2. /\ p \in open /\ p \in Candidates(allocations, layout)
        BY <1>3, Arguments, FirstOfIsMember DEF IInv, SeatNext
    <2>3. /\ cursor \in Nat /\ DOMAIN assignments = 1..cursor
          /\ cursor + 1 \in DOMAIN students
        BY <1>3 DEF IInv, TypeOK, SeatNext
    <2>4. record \in Assignment
        BY <2>2, <2>3 DEF SeatRecord, Assignment, IInv, TypeOK
    <2>5. assignments \in Seq(Assignment)
        BY DEF IInv, TypeOK
    <2>6. /\ DOMAIN assignments' = 1..(cursor + 1)
          /\ assignments'[cursor + 1].room = p.room
          /\ assignments'[cursor + 1].seat = p.seat
          /\ \A i \in 1..cursor : assignments'[i] = assignments[i]
        BY <2>1, <2>3, <2>4, <2>5 DEF SeatRecord
    <2> HIDE DEF p, record
    <2>7. ASSUME NEW r \in Candidates(allocations, layout) \ open'
          PROVE  \E i \in 1..(cursor + 1) :
                     assignments'[i].room = r.room /\ assignments'[i].seat = r.seat
        <3>1. CASE r = p
            BY <2>3, <2>6, <3>1
        <3>2. CASE r \notin open
            <4>1. PICK i \in 1..cursor :
                      assignments[i].room = r.room /\ assignments[i].seat = r.seat
                BY <2>1, <2>3, <3>2 DEF SeatsAccounted
            <4> QED
                BY <2>3, <2>6, <4>1
        <3> QED
            BY <2>1, <3>1, <3>2
    <2> DEFINE pool == Candidates(allocations, layout)
    <2>8. \A r \in pool' \ open' : \E i \in DOMAIN assignments' :
              assignments'[i].room = r.room /\ assignments'[i].seat = r.seat
        BY <2>1, <2>6, <2>7
    <2> QED
        BY <2>1, <2>8 DEF SeatsAccounted
<1>4. CASE Return
    <2>1. result'.unassigned = Len(students) - cursor
        BY <1>4 DEF Return, Summary
    <2>2. cursor = Len(students) \/ open = {}
        BY <1>4 DEF Return, IInv, TypeOK
    <2> QED
        BY <1>4, <2>1, <2>2 DEF Return, SeatsAccounted, arguments
<1>5. CASE UNCHANGED vars
    BY <1>5 DEF vars, SeatsAccounted
<1> QED
    BY <1>1, <1>2, <1>3, <1>4, <1>5 DEF Next

\* A call that returns with no seat open has filled every room.
LEMMA NoSeatOpenMeansFull ==
    ASSUME IInv, SeatsAccounted, phase = "returned", open = {}
    PROVE  RoomsFull(assignments, allocations, layout)
<1>1. RoomsDistinct(allocations) /\ RoomArguments(RoomId, allocations, layout)
    BY Arguments DEF IInv
<1>2. SeatedOn(assignments, Candidates(allocations, layout))
    BY DEF IInv, RecordsMatchSeats, SeatedOn
<1>3. AllTaken(assignments, Candidates(allocations, layout))
    BY DEF SeatsAccounted, AllTaken
<1>4. cursor \in Nat /\ DOMAIN assignments = 1..cursor
    BY DEF IInv, TypeOK
<1>5. IsFiniteSet(DOMAIN assignments)
    BY <1>4, FS_Interval
<1> QED
    BY <1>1, <1>2, <1>3, <1>5, AllTakenMeansFull

\* The students without a record are the ones after the cursor.
LEMMA UnseatedCount ==
    ASSUME IInv
    PROVE  Cardinality({i \in DOMAIN students :
               \A j \in DOMAIN assignments : assignments[j].student # students[i]})
               = Len(students) - cursor
<1> DEFINE n == Len(students)
           waiting == {i \in DOMAIN students :
               \A j \in DOMAIN assignments : assignments[j].student # students[i]}
<1>1. /\ n \in Nat /\ cursor \in 0..n
      /\ DOMAIN students = 1..n /\ DOMAIN assignments = 1..cursor
    BY DEF IInv, TypeOK
<1>2. waiting = (cursor + 1)..n
    <2>1. \A j \in 1..cursor : assignments[j].student = students[j]
        BY <1>1 DEF IInv, RecordsMatchSeats
    <2>2. \A i, j \in 1..n : students[i] = students[j] => i = j
        BY <1>1 DEF IInv, StudentsDistinct
    <2> QED
        BY <1>1, <2>1, <2>2
<1> HIDE DEF waiting, n
<1>3. Cardinality((cursor + 1)..n)
          = IF cursor + 1 > n THEN 0 ELSE n - (cursor + 1) + 1
    <2>1. cursor + 1 \in Int /\ n \in Int
        BY <1>1
    <2> QED
        BY <2>1, FS_Interval
<1>4. Cardinality(waiting) = n - cursor
    BY <1>1, <1>2, <1>3
<1> QED
    BY <1>4 DEF waiting, n

\* A returned call has left no one out whom a room could still take, and the number
\* of unseated students it reports is the true one.
THEOREM NeverWastesASeat == Spec => []NoSeatWasted
<1>1. Init => SeatsAccounted
    BY DEF Init, SeatsAccounted
<1>2. IInv /\ SeatsAccounted /\ [Next]_vars => SeatsAccounted'
    BY NextKeepsAccounts
<1>3. IInv /\ SeatsAccounted => NoSeatWasted
    <2> SUFFICES ASSUME IInv, SeatsAccounted, phase = "returned"
                 PROVE  /\ \/ result.unassigned = 0
                           \/ RoomsFull(assignments, allocations, layout)
                        /\ result.unassigned = Cardinality({i \in DOMAIN students :
                               \A j \in DOMAIN assignments :
                                   assignments[j].student # students[i]})
        BY DEF NoSeatWasted
    <2>1. result.unassigned = Len(students) - cursor /\ Len(students) \in Nat
        BY DEF SeatsAccounted, IInv, TypeOK
    <2>2. CASE cursor = Len(students)
        BY <2>1, <2>2, UnseatedCount
    <2>3. CASE open = {}
        BY <2>1, <2>3, UnseatedCount, NoSeatOpenMeansFull
    <2> QED
        BY <2>2, <2>3 DEF SeatsAccounted
<1> QED
    BY <1>1, <1>2, <1>3, InvariantHolds, PTL DEF Spec
-----------------------------------------------------------------------------
\* The flags of a returned result are the ones Summary derives from the counts.
FlagsAreSummary ==
    phase = "returned" =>
        result = Summary(Len(students), Len(assignments), Len(students) - cursor,
                         allocations, layout)

LEMMA NextKeepsFlags ==
    ASSUME FlagsAreSummary, [Next]_vars
    PROVE  FlagsAreSummary'
<1>1. CASE RejectDuplicateRooms
    BY <1>1 DEF RejectDuplicateRooms, FlagsAreSummary
<1>2. CASE CollectTargets
    BY <1>2 DEF CollectTargets, FlagsAreSummary
<1>3. CASE SeatNext
    BY <1>3 DEF SeatNext, FlagsAreSummary
<1>4. CASE Return
    BY <1>4 DEF Return, FlagsAreSummary, arguments
<1>5. CASE UNCHANGED vars
    BY <1>5 DEF vars, FlagsAreSummary
<1> QED
    BY <1>1, <1>2, <1>3, <1>4, <1>5 DEF Next

\* When no candidate seat is open any more, there are no more candidate seats than
\* students seated: every one of them is in some record.
LEMMA AllOpenSeatsUsed ==
    ASSUME IInv, SeatsAccounted, phase = "returned", open = {}
    PROVE  /\ Cardinality(Candidates(allocations, layout)) \in Nat
           /\ Cardinality(Candidates(allocations, layout)) <= cursor
<1> DEFINE all == Candidates(allocations, layout)
           places == 1..cursor
           spot == [i \in places |-> CHOOSE p \in all :
                          assignments[i].room = p.room /\ assignments[i].seat = p.seat]
           image == {spot[i] : i \in places}
<1>1. cursor \in Nat /\ DOMAIN assignments = places
    BY DEF IInv, TypeOK
<1>2. RoomsDistinct(allocations) /\ RoomArguments(RoomId, allocations, layout)
    BY Arguments DEF IInv
<1>3. \A p \in all : \E i \in places :
          assignments[i].room = p.room /\ assignments[i].seat = p.seat
    BY <1>1 DEF SeatsAccounted
<1>4. \A p, q \in all : p.room = q.room /\ p.seat = q.seat => p = q
    BY <1>2, CandidateIdentity
<1> HIDE DEF all
<1>5. ASSUME NEW p \in all PROVE p \in image
    <2>1. PICK i \in places : assignments[i].room = p.room /\ assignments[i].seat = p.seat
        BY <1>3
    <2>2. /\ spot[i] \in all
          /\ assignments[i].room = spot[i].room /\ assignments[i].seat = spot[i].seat
        BY <2>1
    <2>3. spot[i] = p
        <3> HIDE DEF spot
        <3> QED
            BY <1>4, <2>1, <2>2
    <2> QED
        BY <2>3
<1>6. IsFiniteSet(places) /\ Cardinality(places) = cursor
    BY <1>1, FS_Interval
<1>7. IsFiniteSet(image) /\ Cardinality(image) <= Cardinality(places)
    <2>1. DOMAIN spot = places
        OBVIOUS
    <2> HIDE DEF spot, places
    <2> QED
        BY <1>6, <2>1, FiniteImage
<1>8. IsFiniteSet(all) /\ Cardinality(all) <= Cardinality(image)
    <2> HIDE DEF image
    <2>1. all \in SUBSET image
        BY <1>5
    <2> QED
        BY <1>7, <2>1, FS_Subset
<1>9. /\ Cardinality(all) \in Nat /\ Cardinality(image) \in Nat
    BY <1>7, <1>8, FS_CardinalityType
<1> HIDE DEF image, places
<1> QED
    BY <1>1, <1>6, <1>7, <1>8, <1>9 DEF all

\* The schedule falls short of the students when every room can seat what is
\* allocated to it, and the usable seats do when every room is allocated at least
\* what it can seat.
LEMMA TotalsExplain ==
    ASSUME NEW rooms, NEW lines, NEW rows,
           RoomArguments(rooms, lines, rows),
           NEW n \in Nat, Cardinality(Candidates(lines, rows)) < n
    PROVE  \/ n > ScheduledTotal(lines)
           \/ n > UsableTotal(lines, rows)
           \/ \E i, j \in DOMAIN lines :
                  /\ lines[i].allocated > Cardinality(UsableSeats(rows[lines[i].room]))
                  /\ lines[j].allocated < Cardinality(UsableSeats(rows[lines[j].room]))
<1> DEFINE D == DOMAIN lines
           target == [i \in D |-> TargetOf(lines, rows, i)]
           given == [i \in D |-> lines[i].allocated]
           usable == [i \in D |-> Cardinality(UsableSeats(rows[lines[i].room]))]
<1>1. SumFunction(target) = Cardinality(Candidates(lines, rows))
    BY CandidatesCounted
<1>2. \A i \in D : /\ given[i] \in Nat /\ usable[i] \in Nat /\ target[i] \in Nat
                   /\ target[i] <= given[i] /\ target[i] <= usable[i]
                   /\ target[i] = given[i] \/ target[i] = usable[i]
    <2> TAKE i \in D
    <2>1. /\ TargetOf(lines, rows, i) \in Nat
          /\ TargetOf(lines, rows, i) <= lines[i].allocated
          /\ lines[i].allocated \in Nat
          /\ rows[lines[i].room] \in RoomRecord
        BY TargetBounded
    <2>2. Cardinality(UsableSeats(rows[lines[i].room])) \in Nat
        BY <2>1, UsableFinite
    <2> QED
        BY <2>1, <2>2, TargetIsALimit
<1>3. ScheduledTotal(lines) = SumFunction(given)
    BY DEF ScheduledTotal
<1>4. UsableTotal(lines, rows) = SumFunction(usable)
    BY DEF UsableTotal
<1>5. DOMAIN given = D /\ DOMAIN usable = D /\ DOMAIN target = D
    OBVIOUS
<1>6. target = [i \in D |-> target[i]] /\ given = [i \in D |-> given[i]]
      /\ usable = [i \in D |-> usable[i]]
    OBVIOUS
<1>7. \A i \in D : given[i] = lines[i].allocated
                   /\ usable[i] = Cardinality(UsableSeats(rows[lines[i].room]))
    OBVIOUS
<1> HIDE DEF target, given, usable
<1>8. CASE \A i \in D : given[i] <= usable[i]
    <2>1. \A i \in D : target[i] = given[i]
        BY <1>2, <1>8
    <2>2. target = given
        BY <1>6, <2>1
    <2> QED
        BY <1>1, <1>3, <2>2
<1>9. CASE \A i \in D : given[i] >= usable[i]
    <2>1. \A i \in D : target[i] = usable[i]
        BY <1>2, <1>9
    <2>2. target = usable
        BY <1>6, <2>1
    <2> QED
        BY <1>1, <1>4, <2>2
<1>10. CASE \E i, j \in D : ~(given[i] <= usable[i]) /\ ~(given[j] >= usable[j])
    <2>1. PICK i \in D, j \in D : ~(given[i] <= usable[i]) /\ ~(given[j] >= usable[j])
        BY <1>10
    <2>2. given[i] > usable[i] /\ given[j] < usable[j]
        BY <1>2, <2>1
    <2> QED
        BY <1>7, <2>2
<1> QED
    BY <1>8, <1>9, <1>10

\* What the flags of a summary say.
LEMMA SummaryFlags ==
    ASSUME NEW registered, NEW assigned, NEW unassigned, NEW lines, NEW rows, NEW summary,
           summary = Summary(registered, assigned, unassigned, lines, rows)
    PROVE  /\ summary.capacity_shortage <=> unassigned > 0
           /\ summary.scheduled_allocation_shortage <=> registered > ScheduledTotal(lines)
           /\ summary.usable_capacity_shortage <=> registered > UsableTotal(lines, rows)
<1>1. summary.capacity_shortage = (unassigned > 0)
    BY Zenon DEF Summary
<1>2. summary.scheduled_allocation_shortage = (registered > ScheduledTotal(lines))
    BY Zenon DEF Summary
<1>3. summary.usable_capacity_shortage = (registered > UsableTotal(lines, rows))
    BY Zenon DEF Summary
<1> QED
    BY <1>1, <1>2, <1>3, Zenon

\* Whenever sequential seating leaves students out, a diagnosis flag says why,
\* except where one room is allocated more than it can seat and another one less.
THEOREM ShortageAlwaysExplained == Spec => []ShortageExplained
<1> DEFINE Counts == SeatsAccounted /\ FlagsAreSummary
<1>1. Init => Counts
    BY DEF Init, SeatsAccounted, FlagsAreSummary
<1>2. IInv /\ Counts /\ [Next]_vars => Counts'
    BY NextKeepsAccounts, NextKeepsFlags
<1>3. IInv /\ Counts => ShortageExplained
    <2> SUFFICES ASSUME IInv, Counts, phase = "returned", result.capacity_shortage
                 PROVE  \/ result.scheduled_allocation_shortage
                        \/ result.usable_capacity_shortage
                        \/ \E i, j \in DOMAIN allocations :
                              /\ allocations[i].allocated
                                   > Cardinality(UsableSeats(layout[allocations[i].room]))
                              /\ allocations[j].allocated
                                   < Cardinality(UsableSeats(layout[allocations[j].room]))
        BY DEF ShortageExplained
    <2>1. /\ Len(students) \in Nat /\ cursor \in 0..Len(students)
        BY DEF IInv, TypeOK
    <2>2. /\ result.capacity_shortage <=> Len(students) - cursor > 0
          /\ result.scheduled_allocation_shortage
                <=> Len(students) > ScheduledTotal(allocations)
          /\ result.usable_capacity_shortage
                <=> Len(students) > UsableTotal(allocations, layout)
        <3>1. result = Summary(Len(students), Len(assignments), Len(students) - cursor,
                               allocations, layout)
            BY DEF FlagsAreSummary
        <3> QED
            BY <3>1, SummaryFlags
    <2>3. cursor < Len(students) /\ open = {}
        BY <2>1, <2>2 DEF SeatsAccounted
    <2>4. /\ Cardinality(Candidates(allocations, layout)) \in Nat
          /\ Cardinality(Candidates(allocations, layout)) <= cursor
        BY <2>3, AllOpenSeatsUsed
    <2>5. RoomArguments(RoomId, allocations, layout)
        BY Arguments DEF IInv
    <2>6. Cardinality(Candidates(allocations, layout)) < Len(students)
        BY <2>1, <2>3, <2>4
    <2> HIDE DEF Counts
    <2> QED
        BY <2>1, <2>2, <2>5, <2>6, TotalsExplain
<1> QED
    BY <1>1, <1>2, <1>3, InvariantHolds, PTL DEF Spec
=============================================================================
