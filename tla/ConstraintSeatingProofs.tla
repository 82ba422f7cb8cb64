----------------------- MODULE ConstraintSeatingProofs ----------------------
(***************************************************************************)
(* Safety of constraint seating for every set of students, courses, rooms  *)
(* and hard constraints.                                                   *)
(***************************************************************************)
EXTENDS ConstraintSeating, SeatingPlanProofs

Distinct(seq) == \A i, j \in DOMAIN seq : seq[i] = seq[j] => i = j

-----------------------------------------------------------------------------
(* The interleaving.                                                       *)

\* The students of a course still waiting can be counted.
LEMMA WaitingFinite ==
    ASSUME NEW S, NEW list \in Seq(S), NEW courseOf, NEW ordered, NEW c
    PROVE  /\ Waiting(list, courseOf, ordered, c) \subseteq 1..Len(list)
           /\ IsFiniteSet(Waiting(list, courseOf, ordered, c))
           /\ Cardinality(Waiting(list, courseOf, ordered, c)) \in 0..Len(list)
<1> DEFINE w == Waiting(list, courseOf, ordered, c)
           n == Len(list)
<1>1. n \in Nat /\ w \in SUBSET (1..n)
    BY DEF Waiting
<1> HIDE DEF w, n
<1>2. /\ IsFiniteSet(1..n)
      /\ Cardinality(1..n) = IF 1 > n THEN 0 ELSE n - 1 + 1
    BY <1>1, FS_Interval
<1>3. Cardinality(1..n) = n
    BY <1>1, <1>2
<1>4. IsFiniteSet(w) /\ Cardinality(w) <= n
    BY <1>1, <1>2, <1>3, FS_Subset
<1>5. Cardinality(w) \in Nat
    BY <1>4, FS_CardinalityType
<1> QED
    BY <1>1, <1>4, <1>5 DEF w, n

\* As long as fewer students are out than there are students, one waits.
LEMMA SomeoneWaits ==
    ASSUME NEW S, NEW list \in Seq(S), NEW courseOf, NEW ordered \in Seq(S),
           Distinct(list), Distinct(ordered), Len(ordered) < Len(list)
    PROVE  \E c \in CoursesOf(list, courseOf) : Waiting(list, courseOf, ordered, c) # {}
<1> DEFINE all == {list[i] : i \in DOMAIN list}
           out == {ordered[j] : j \in DOMAIN ordered}
<1>1. /\ IsFiniteSet(all) /\ Cardinality(all) = Len(list)
      /\ IsFiniteSet(out) /\ Cardinality(out) = Len(ordered)
    <2>1. IsFiniteSet(all) /\ Cardinality(all) = Len(list)
        BY DistinctMembers DEF Distinct
    <2>2. IsFiniteSet(out) /\ Cardinality(out) = Len(ordered)
        BY DistinctMembers DEF Distinct
    <2> QED
        BY <2>1, <2>2
<1>2. Len(list) \in Nat /\ Len(ordered) \in Nat
    OBVIOUS
<1>3. ~(all \subseteq out)
    <2> HIDE DEF all, out
    <2> QED
        BY <1>1, <1>2, FS_Subset
<1>4. PICK i \in DOMAIN list : \A j \in DOMAIN ordered : ordered[j] # list[i]
    BY <1>3
<1>5. i \in Waiting(list, courseOf, ordered, courseOf[list[i]])
    BY <1>4 DEF Waiting
<1> QED
    BY <1>5 DEF CoursesOf

\* The turn goes to a waiting student of a course with the longest waiting list.
LEMMA NextInTurnWaits ==
    ASSUME NEW S, NEW C \in SUBSET Nat, NEW list \in Seq(S), NEW courseOf \in [S -> C],
           NEW ordered \in Seq(S),
           Distinct(list), Distinct(ordered), Len(ordered) < Len(list)
    PROVE  LET c == NextCourse(list, courseOf, ordered)
               left(d) == Cardinality(Waiting(list, courseOf, ordered, d))
           IN  /\ c \in CoursesOf(list, courseOf)
               /\ \A d \in CoursesOf(list, courseOf) : left(d) <= left(c)
               /\ NextInTurn(list, courseOf, ordered) \in Waiting(list, courseOf, ordered, c)
<1> DEFINE all == CoursesOf(list, courseOf)
           left(d) == Cardinality(Waiting(list, courseOf, ordered, d))
           n == Len(list)
           lengths == {left(d) : d \in {e \in all : left(e) # 0}}
<1>1. /\ n \in Nat
      /\ \A d : left(d) \in 0..n
      /\ \A d : left(d) = 0 <=> Waiting(list, courseOf, ordered, d) = {}
    BY WaitingFinite, FS_EmptySet
<1>2. all \in SUBSET Nat
    <2>1. ASSUME NEW i \in DOMAIN list PROVE courseOf[list[i]] \in Nat
        <3>1. list[i] \in S
            BY ElementOfSeq
        <3>2. courseOf[list[i]] \in C
            BY <3>1
        <3> QED
            BY <3>2
    <2> QED
        BY <2>1 DEF CoursesOf
<1>3. lengths # {} /\ lengths \in SUBSET (1..n)
    <2>1. \E d \in all : left(d) # 0
        BY <1>1, SomeoneWaits
    <2>2. \A d \in all : left(d) # 0 => left(d) \in 1..n
        BY <1>1
    <2> HIDE DEF left, all
    <2> QED
        BY <2>1, <2>2
<1>4. PICK most \in lengths : \A k \in lengths : k <= most
    <2> HIDE DEF lengths, n
    <2> QED
        BY <1>1, <1>3, GreatestNatural
<1> DEFINE longest == {d \in all : left(d) = most}
<1>5. longest \in SUBSET Nat /\ longest # {}
    BY <1>2, <1>4
<1>6. PICK c \in longest : \A d \in longest : c <= d
    <2> HIDE DEF longest
    <2> QED
        BY <1>5, LeastNatural
<1>7. most \in 1..n
    BY <1>3
<1>8. ASSUME NEW d \in all
      PROVE  left(c) > left(d) \/ (left(c) = left(d) /\ c <= d)
    <2> HIDE DEF left, all, n
    <2>1. left(c) = most /\ left(d) \in 0..n
        BY <1>1, <1>6
    <2>2. CASE left(d) = most
        BY <1>6, <2>1, <2>2
    <2>3. CASE left(d) # most
        <3>1. left(d) # 0 => left(d) <= most
            BY <1>4
        <3> QED
            BY <1>1, <1>7, <2>1, <2>3, <3>1
    <2> QED
        BY <2>2, <2>3
<1> DEFINE next == NextCourse(list, courseOf, ordered)
<1>9. /\ next \in all
      /\ \A d \in all : left(next) > left(d) \/ (left(next) = left(d) /\ next <= d)
    BY <1>6, <1>8 DEF NextCourse
<1> DEFINE w == Waiting(list, courseOf, ordered, next)
<1>10. w # {} /\ w \in SUBSET Nat
    <2>1. left(next) # 0
        <3> HIDE DEF left, next, all, n
        <3> QED
            BY <1>1, <1>6, <1>7, <1>9
    <2>2. w \subseteq 1..n
        BY WaitingFinite
    <2>3. w # {}
        BY <1>1, <2>1
    <2>4. w \in SUBSET Nat
        BY <1>1, <2>2
    <2> QED
        BY <2>3, <2>4
<1>11. \E i \in w : \A j \in w : i <= j
    <2> HIDE DEF w
    <2> QED
        BY <1>10, LeastNatural
<1>12. NextInTurn(list, courseOf, ordered) \in w
    BY <1>11 DEF NextInTurn
<1>13. \A d \in all : left(d) <= left(next)
    <2> HIDE DEF left, next, all, n
    <2> QED
        BY <1>1, <1>9
<1> QED
    BY <1>9, <1>12, <1>13
-----------------------------------------------------------------------------
(* The scores.                                                             *)

\* A penalty is a natural number, whatever seats are compared.
LEMMA PenaltyNatural ==
    ASSUME NEW plan, NEW p, NEW c, NEW placed, NEW courseOf, IsFiniteSet(placed)
    PROVE  SameCoursePenalty(plan, p, c, placed, courseOf) \in Nat
<1> DEFINE near == Neighbours(p, c, placed, courseOf)
<1>1. near \subseteq placed
    BY DEF Neighbours
<1>2. ASSUME NEW T \in SUBSET near PROVE Cardinality(T) \in Nat
    <2>1. IsFiniteSet(T)
        BY <1>1, FS_Subset
    <2> QED
        BY <2>1, FS_CardinalityType
<1> DEFINE n1 == Cardinality(OrthogonalNeighbours(plan, p, near))
           n2 == Cardinality({o \in near : IsAdjacent(plan, p, o) /\ ~InLine(plan, p, o)})
           n3 == Cardinality({o \in near : SameRow(plan, p, o)})
           n4 == Cardinality({o \in near : SameColumn(plan, p, o)})
           n5 == Cardinality({o \in near : DistanceSquared(plan, p, o) <= 4})
           n6 == Proximity(plan, p, near)
<1>3. n1 \in Nat /\ n2 \in Nat /\ n3 \in Nat /\ n4 \in Nat /\ n5 \in Nat
    <2>1. n1 \in Nat
        BY <1>2 DEF OrthogonalNeighbours
    <2> HIDE DEF near
    <2> QED
        BY <1>2, <2>1
<1>4. n6 \in Nat
    BY DEF Proximity
<1>5. SameCoursePenalty(plan, p, c, placed, courseOf)
        = 200 * n1 + 100 * n2 + 10 * n3 + 10 * n4 + 4 * n5 + n6
    BY DEF SameCoursePenalty, OrthogonalWeight, DiagonalWeight, RowWeight,
           ColumnWeight, DensityWeight
<1> HIDE DEF n1, n2, n3, n4, n5, n6
<1> QED
    BY <1>3, <1>4, <1>5
-----------------------------------------------------------------------------
(* The inductive invariant.                                                *)

Phases ==
    {"called", "ordering", "placing", "returned", "value_error", "topology_error"}

Assignment == [student : Student, room : RoomId, seat : Nat]

TypeOK ==
    /\ students \in Seq(Student)
    /\ allocations \in Seq([room : RoomId, allocated : Nat])
    /\ layout \in [RoomId -> RoomRecord]
    /\ courses \in [Student -> CourseId]
    /\ phase \in Phases
    /\ order \in Seq(Student)
    /\ turn \in 0..Len(order)
    /\ assignments \in Seq(Assignment)
    /\ unassigned \in Seq(Student)

\* The arguments are as the caller built them.
ArgumentsSound ==
    /\ Distinct(students)
    /\ ~constraints.given => constraints = NoConstraintSet

\* What is known of the call in each phase.
PhaseFacts ==
    /\ phase \in {"ordering", "placing", "returned"} =>
           RoomsDistinct(allocations) /\ EveryRoomHasTopology
    /\ phase \notin {"placing", "returned"} => turn = 0
    /\ phase \in {"placing", "returned"} => Len(order) = Len(students)
    /\ phase = "returned" => turn = Len(order)

\* The placement order draws each student of the call at most once.
OrderDrawn ==
    /\ Len(order) <= Len(students)
    /\ Distinct(order)
    /\ \A k \in DOMAIN order : \E i \in DOMAIN students : order[k] = students[i]

\* The students who have had their turn are the ones seated or left out.
TurnsAccounted ==
    /\ Len(assignments) + Len(unassigned) = turn
    /\ \A i \in DOMAIN assignments : \E k \in 1..turn : assignments[i].student = order[k]
    /\ \A i \in DOMAIN unassigned : \E k \in 1..turn : unassigned[i] = order[k]
    /\ \A k \in 1..turn :
           \/ \E i \in DOMAIN assignments : assignments[i].student = order[k]
           \/ \E i \in DOMAIN unassigned : unassigned[i] = order[k]
    /\ Distinct(unassigned)
    /\ \A i \in DOMAIN assignments, j \in DOMAIN unassigned :
           assignments[i].student # unassigned[j]

\* A seat of the pool is either still free or the seat of a record.
SeatsAccounted ==
    /\ remaining \subseteq Candidates(allocations, layout)
    /\ SeatedOn(assignments, Candidates(allocations, layout) \ remaining)
    /\ phase \in {"ordering", "placing", "returned"} =>
           AllTaken(assignments, Candidates(allocations, layout) \ remaining)

IInv ==
    /\ TypeOK
    /\ ArgumentsSound
    /\ PhaseFacts
    /\ OrderDrawn
    /\ TurnsAccounted
    /\ SeatsAccounted
    /\ CollisionFree(assignments)

LEMMA Arguments == TypeOK => RoomArguments(RoomId, allocations, layout)
BY DEF TypeOK, RoomArguments

LEMMA InitIInv == Init => IInv
<1> SUFFICES ASSUME Init PROVE IInv
    OBVIOUS
<1> USE DEF Init
<1>1. PICK call \in Calls :
          /\ students = call.students
          /\ allocations = call.allocations
          /\ layout = call.layout
          /\ courses = call.courses
          /\ constraints = call.constraints
    OBVIOUS
<1>2. TypeOK
    <2>1. /\ students \in Seq(Student)
          /\ allocations \in Seq([room : RoomId, allocated : Nat])
          /\ layout \in [RoomId -> RoomRecord]
          /\ courses \in [Student -> CourseId]
        BY <1>1, CallsAreTyped DEF CallsAssumption
    <2>2. /\ order \in Seq(Student)
          /\ assignments \in Seq(Assignment)
          /\ unassigned \in Seq(Student)
        BY EmptySeq
    <2>3. turn \in 0..Len(order)
        BY EmptySeq
    <2> QED
        BY <2>1, <2>2, <2>3 DEF TypeOK, Phases
<1>3. ArgumentsSound
    BY <1>1, CallsAreTyped DEF CallsAssumption, ArgumentsSound, Distinct
<1>4. PhaseFacts
    BY DEF PhaseFacts
<1>5. OrderDrawn
    <2>1. Len(students) \in Nat /\ Len(order) = 0 /\ DOMAIN order = {}
        BY <1>2 DEF TypeOK
    <2> QED
        BY <2>1 DEF OrderDrawn, Distinct
<1>6. DOMAIN assignments = {} /\ DOMAIN unassigned = {}
    OBVIOUS
<1>7. TurnsAccounted
    BY <1>6 DEF TurnsAccounted, Distinct
<1>8. SeatsAccounted /\ CollisionFree(assignments)
    BY <1>6 DEF SeatsAccounted, CollisionFree, SeatedOn
<1> QED
    BY <1>2, <1>3, <1>4, <1>5, <1>7, <1>8 DEF IInv

\* Before the first turn nobody is seated or left out.
LEMMA NothingYet == IInv /\ turn = 0 => assignments = <<>> /\ unassigned = <<>>
<1> SUFFICES ASSUME IInv, turn = 0 PROVE assignments = <<>> /\ unassigned = <<>>
    OBVIOUS
<1>1. /\ assignments \in Seq(Assignment) /\ unassigned \in Seq(Student)
      /\ Len(assignments) \in Nat /\ Len(unassigned) \in Nat
    BY DEF IInv, TypeOK
<1>2. Len(assignments) = 0 /\ Len(unassigned) = 0
    BY <1>1 DEF IInv, TurnsAccounted
<1> QED
    BY <1>1, <1>2, EmptySeq

LEMMA RejectKeepsIInv ==
    IInv /\ (RejectDuplicateRooms \/ RejectMissingTopology) => IInv'
<1> SUFFICES ASSUME IInv, RejectDuplicateRooms \/ RejectMissingTopology PROVE IInv'
    OBVIOUS
<1>1. /\ phase = "called" /\ phase' \in {"value_error", "topology_error"}
      /\ UNCHANGED <<students, allocations, layout, courses, constraints, order, turn,
                     remaining, assignments, unassigned>>
    BY DEF RejectDuplicateRooms, RejectMissingTopology, arguments
<1>2. TypeOK' /\ ArgumentsSound' /\ PhaseFacts'
    BY <1>1 DEF IInv, TypeOK, Phases, ArgumentsSound, PhaseFacts, Distinct
<1>3. OrderDrawn' /\ TurnsAccounted' /\ SeatsAccounted' /\ CollisionFree(assignments)'
    BY <1>1 DEF IInv, OrderDrawn, TurnsAccounted, SeatsAccounted, CollisionFree,
                SeatedOn, AllTaken, Distinct
<1> QED
    BY <1>2, <1>3 DEF IInv

LEMMA CollectSeatsKeepsIInv == IInv /\ CollectSeats => IInv'
<1> SUFFICES ASSUME IInv, CollectSeats PROVE IInv'
    OBVIOUS
<1>1. /\ phase = "called" /\ turn = 0
      /\ UNCHANGED <<students, allocations, layout, courses, constraints, turn,
                     assignments, unassigned>>
      /\ remaining' = Candidates(allocations, layout)
      /\ \/ phase' = "ordering" /\ order' = order
         \/ phase' = "placing" /\ order' = students
    BY DEF CollectSeats, arguments, IInv, PhaseFacts
<1>2. /\ assignments = <<>> /\ unassigned = <<>>
      /\ DOMAIN assignments = {} /\ DOMAIN unassigned = {}
    BY <1>1, NothingYet
<1>3. Len(students) \in Nat /\ Len(students) = Len(students)
    BY DEF IInv, TypeOK
<1>4. TypeOK'
    BY <1>1, <1>3 DEF IInv, TypeOK, Phases
<1>5. ArgumentsSound'
    BY <1>1 DEF IInv, ArgumentsSound, Distinct
<1>6. PhaseFacts'
    <2>1. RoomsDistinct(allocations)' /\ EveryRoomHasTopology'
        BY <1>1 DEF CollectSeats, EveryRoomHasTopology, RoomsDistinct
    <2> QED
        BY <1>1, <2>1 DEF PhaseFacts
<1>7. OrderDrawn'
    BY <1>1, <1>3 DEF IInv, OrderDrawn, ArgumentsSound, Distinct
<1>8. TurnsAccounted' /\ CollisionFree(assignments)'
    BY <1>1, <1>2 DEF IInv, TurnsAccounted, CollisionFree, Distinct
<1>9. SeatsAccounted'
    BY <1>1, <1>2 DEF SeatsAccounted, SeatedOn, AllTaken
<1> QED
    BY <1>4, <1>5, <1>6, <1>7, <1>8, <1>9 DEF IInv

LEMMA OrderNextKeepsIInv == IInv /\ OrderNext => IInv'
<1> SUFFICES ASSUME IInv, OrderNext PROVE IInv'
    OBVIOUS
<1> DEFINE i == NextInTurn(students, courses, order)
           n == Len(order)
<1>1. /\ phase = "ordering" /\ turn = 0 /\ n < Len(students)
      /\ UNCHANGED <<students, allocations, layout, courses, constraints, phase, turn,
                     remaining, assignments, unassigned>>
      /\ order' = Append(order, students[i])
    BY DEF OrderNext, arguments, IInv, PhaseFacts
<1>2. /\ i \in DOMAIN students
      /\ \A j \in DOMAIN order : order[j] # students[i]
    <2>1. i \in Waiting(students, courses, order, NextCourse(students, courses, order))
        <3>1. CourseId \in SUBSET Nat
            BY CallsAreTyped
        <3>2. /\ students \in Seq(Student) /\ order \in Seq(Student)
              /\ courses \in [Student -> CourseId]
              /\ Distinct(students) /\ Distinct(order)
            BY DEF IInv, TypeOK, ArgumentsSound, OrderDrawn
        <3> QED
            BY <1>1, <3>1, <3>2, NextInTurnWaits
    <2> QED
        BY <2>1 DEF Waiting
<1>3. /\ n \in Nat /\ DOMAIN order = 1..n /\ Len(students) \in Nat
      /\ students[i] \in Student
    <2>1. students \in Seq(Student) /\ i \in 1..Len(students)
        BY <1>2 DEF IInv, TypeOK
    <2> QED
        BY <2>1, ElementOfSeq DEF IInv, TypeOK
<1>4. /\ order' \in Seq(Student) /\ Len(order') = n + 1
      /\ DOMAIN order' = 1..(n + 1)
      /\ order'[n + 1] = students[i]
      /\ \A k \in 1..n : order'[k] = order[k]
    BY <1>1, <1>3 DEF IInv, TypeOK
<1>5. TypeOK'
    BY <1>1, <1>3, <1>4 DEF IInv, TypeOK
<1>6. ArgumentsSound'
    BY <1>1 DEF IInv, ArgumentsSound, Distinct
<1>7. PhaseFacts'
    BY <1>1 DEF IInv, PhaseFacts, RoomsDistinct, EveryRoomHasTopology
<1>8. OrderDrawn'
    <2> HIDE DEF i, n
    <2>1. Len(order') <= Len(students')
        BY <1>1, <1>3, <1>4
    <2>2. ASSUME NEW k \in 1..(n + 1) PROVE \E j \in DOMAIN students : order'[k] = students[j]
        BY <1>2, <1>3, <1>4 DEF IInv, OrderDrawn
    <2>3. ASSUME NEW k \in 1..(n + 1), NEW l \in 1..(n + 1), order'[k] = order'[l]
          PROVE  k = l
        <3>1. CASE k \in 1..n /\ l \in 1..n
            BY <1>3, <1>4, <2>3, <3>1 DEF IInv, OrderDrawn, Distinct
        <3>2. CASE k = n + 1 /\ l \in 1..n
            BY <1>2, <1>3, <1>4, <2>3, <3>2
        <3>3. CASE l = n + 1 /\ k \in 1..n
            BY <1>2, <1>3, <1>4, <2>3, <3>3
        <3> QED
            BY <1>3, <3>1, <3>2, <3>3
    <2> QED
        BY <1>1, <1>4, <2>1, <2>2, <2>3 DEF OrderDrawn, Distinct
<1>9. TurnsAccounted'
    <2>1. assignments = <<>> /\ unassigned = <<>>
        BY <1>1, NothingYet
    <2>2. DOMAIN assignments = {} /\ DOMAIN unassigned = {}
        BY <2>1
    <2> QED
        BY <1>1, <2>2 DEF IInv, TurnsAccounted, Distinct
<1>10. SeatsAccounted' /\ CollisionFree(assignments)'
    BY <1>1 DEF IInv, SeatsAccounted, SeatedOn, AllTaken, CollisionFree
<1> QED
    BY <1>5, <1>6, <1>7, <1>8, <1>9, <1>10 DEF IInv

LEMMA OrderDoneKeepsIInv == IInv /\ OrderDone => IInv'
<1> SUFFICES ASSUME IInv, OrderDone PROVE IInv'
    OBVIOUS
<1>1. /\ phase = "ordering" /\ phase' = "placing"
      /\ UNCHANGED <<students, allocations, layout, courses, constraints, order, turn,
                     remaining, assignments, unassigned>>
    BY DEF OrderDone, arguments
<1>2. Len(order) = Len(students)
    BY DEF OrderDone, IInv, TypeOK, OrderDrawn
<1>3. TypeOK' /\ ArgumentsSound' /\ OrderDrawn'
    BY <1>1 DEF IInv, TypeOK, Phases, ArgumentsSound, OrderDrawn, Distinct
<1>4. PhaseFacts'
    BY <1>1, <1>2 DEF IInv, PhaseFacts, RoomsDistinct, EveryRoomHasTopology
<1>5. TurnsAccounted' /\ SeatsAccounted' /\ CollisionFree(assignments)'
    BY <1>1 DEF IInv, TurnsAccounted, SeatsAccounted, SeatedOn, AllTaken,
                CollisionFree, Distinct
<1> QED
    BY <1>3, <1>4, <1>5 DEF IInv

LEMMA ReturnKeepsIInv == IInv /\ Return => IInv'
<1> SUFFICES ASSUME IInv, Return PROVE IInv'
    OBVIOUS
<1>1. /\ phase = "placing" /\ phase' = "returned"
      /\ UNCHANGED <<students, allocations, layout, courses, constraints, order, turn,
                     remaining, assignments, unassigned>>
    BY DEF Return, arguments
<1>2. turn = Len(order)
    BY DEF Return, IInv, TypeOK
<1>3. TypeOK' /\ ArgumentsSound' /\ OrderDrawn'
    BY <1>1 DEF IInv, TypeOK, Phases, ArgumentsSound, OrderDrawn, Distinct
<1>4. PhaseFacts'
    BY <1>1, <1>2 DEF IInv, PhaseFacts, RoomsDistinct, EveryRoomHasTopology
<1>5. TurnsAccounted' /\ SeatsAccounted' /\ CollisionFree(assignments)'
    BY <1>1 DEF IInv, TurnsAccounted, SeatsAccounted, SeatedOn, AllTaken,
                CollisionFree, Distinct
<1> QED
    BY <1>3, <1>4, <1>5 DEF IInv

\* The student whose turn it is has not had one.
LEMMA TurnIsFresh ==
    ASSUME IInv, phase = "placing", turn < Len(order)
    PROVE  /\ turn \in Nat /\ turn + 1 \in DOMAIN order
           /\ order[turn + 1] \in Student
           /\ \A k \in 1..turn : order[k] # order[turn + 1]
           /\ \A i \in DOMAIN assignments : assignments[i].student # order[turn + 1]
           /\ \A i \in DOMAIN unassigned : unassigned[i] # order[turn + 1]
<1>1. /\ order \in Seq(Student) /\ turn \in 0..Len(order)
      /\ Len(order) \in Nat /\ DOMAIN order = 1..Len(order)
    BY DEF IInv, TypeOK
<1>2. turn \in Nat /\ turn + 1 \in 1..Len(order)
    BY <1>1
<1>3. order[turn + 1] \in Student
    BY <1>1, <1>2, ElementOfSeq
<1>4. \A k \in 1..turn : order[k] # order[turn + 1]
    <2>1. \A k \in 1..turn : k \in DOMAIN order /\ k # turn + 1
        BY <1>1, <1>2
    <2> QED
        BY <1>1, <1>2, <2>1 DEF IInv, OrderDrawn, Distinct
<1>5. /\ \A i \in DOMAIN assignments : assignments[i].student # order[turn + 1]
      /\ \A i \in DOMAIN unassigned : unassigned[i] # order[turn + 1]
    BY <1>4 DEF IInv, TurnsAccounted
<1> QED
    BY <1>1, <1>2, <1>3, <1>4, <1>5

LEMMA LeaveOutKeepsIInv == IInv /\ LeaveOut => IInv'
<1> SUFFICES ASSUME IInv, LeaveOut PROVE IInv'
    OBVIOUS
<1> DEFINE s == order[turn + 1]
           m == Len(unassigned)
<1>1. /\ phase = "placing" /\ turn < Len(order) /\ turn' = turn + 1
      /\ UNCHANGED <<students, allocations, layout, courses, constraints, phase, order,
                     remaining, assignments>>
      /\ unassigned' = Append(unassigned, s)
    BY DEF LeaveOut, arguments
<1>2. /\ turn \in Nat /\ turn + 1 \in 1..Len(order) /\ s \in Student
      /\ \A k \in 1..turn : order[k] # s
      /\ \A i \in DOMAIN assignments : assignments[i].student # s
      /\ \A i \in DOMAIN unassigned : unassigned[i] # s
    BY <1>1, TurnIsFresh DEF IInv, TypeOK
<1>3. /\ m \in Nat /\ DOMAIN unassigned = 1..m
      /\ unassigned' \in Seq(Student) /\ Len(unassigned') = m + 1
      /\ DOMAIN unassigned' = 1..(m + 1)
      /\ unassigned'[m + 1] = s
      /\ \A i \in 1..m : unassigned'[i] = unassigned[i]
    BY <1>1, <1>2 DEF IInv, TypeOK
<1> HIDE DEF s, m
<1>4. TypeOK'
    <2>1. turn' \in 0..Len(order')
        BY <1>1, <1>2
    <2> QED
        BY <1>1, <1>3, <2>1 DEF IInv, TypeOK
<1>5. ArgumentsSound' /\ OrderDrawn' /\ SeatsAccounted' /\ CollisionFree(assignments)'
    BY <1>1 DEF IInv, ArgumentsSound, OrderDrawn, SeatsAccounted, SeatedOn, AllTaken,
                CollisionFree, Distinct
<1>6. PhaseFacts'
    BY <1>1 DEF IInv, PhaseFacts, RoomsDistinct, EveryRoomHasTopology
<1>7. TurnsAccounted'
    <2>1. Len(assignments') + Len(unassigned') = turn'
        <3>1. Len(assignments) \in Nat /\ Len(assignments) + m = turn
            BY DEF IInv, TypeOK, TurnsAccounted, m
        <3>2. Len(assignments') = Len(assignments) /\ turn' = turn + 1
            BY <1>1
        <3> QED
            BY <1>3, <3>1, <3>2
    <2>2. \A i \in DOMAIN assignments' : \E k \in 1..turn' : assignments'[i].student = order'[k]
        BY <1>1, <1>2 DEF IInv, TurnsAccounted
    <2>3. ASSUME NEW i \in 1..(m + 1) PROVE \E k \in 1..(turn + 1) : unassigned'[i] = order[k]
        <3>1. CASE i \in 1..m
            <4>1. PICK k \in 1..turn : unassigned[i] = order[k]
                BY <1>3, <3>1 DEF IInv, TurnsAccounted
            <4>2. k \in 1..(turn + 1) /\ unassigned'[i] = order[k]
                BY <1>2, <1>3, <3>1, <4>1
            <4> QED
                BY <4>2
        <3>2. CASE i = m + 1
            BY <1>2, <1>3, <3>2 DEF s
        <3> QED
            BY <1>3, <3>1, <3>2
    <2>4. ASSUME NEW k \in 1..(turn + 1)
          PROVE  \/ \E i \in DOMAIN assignments : assignments[i].student = order[k]
                 \/ \E i \in 1..(m + 1) : unassigned'[i] = order[k]
        <3>1. CASE k \in 1..turn
            BY <1>3, <3>1 DEF IInv, TurnsAccounted
        <3>2. CASE k = turn + 1
            BY <1>3, <3>2 DEF s
        <3> QED
            BY <1>2, <3>1, <3>2
    <2>5. ASSUME NEW i \in 1..(m + 1), NEW j \in 1..(m + 1), unassigned'[i] = unassigned'[j]
          PROVE  i = j
        <3>1. CASE i \in 1..m /\ j \in 1..m
            BY <1>3, <2>5, <3>1 DEF IInv, TurnsAccounted, Distinct
        <3>2. CASE i = m + 1 /\ j \in 1..m
            BY <1>2, <1>3, <2>5, <3>2
        <3>3. CASE j = m + 1 /\ i \in 1..m
            BY <1>2, <1>3, <2>5, <3>3
        <3> QED
            BY <1>3, <3>1, <3>2, <3>3
    <2>6. ASSUME NEW i \in DOMAIN assignments, NEW j \in 1..(m + 1)
          PROVE  assignments[i].student # unassigned'[j]
        <3>1. CASE j \in 1..m
            <4>1. assignments[i].student # unassigned[j]
                BY <1>3, <3>1 DEF IInv, TurnsAccounted
            <4> QED
                BY <1>3, <3>1, <4>1
        <3>2. CASE j = m + 1
            BY <1>2, <1>3, <3>2
        <3> QED
            BY <1>3, <3>1, <3>2
    <2>7. Distinct(unassigned)'
        BY <1>3, <2>5 DEF Distinct
    <2>8. \A i \in DOMAIN assignments', j \in DOMAIN unassigned' :
              assignments'[i].student # unassigned'[j]
        BY <1>1, <1>3, <2>6
    <2>9. \A i \in DOMAIN unassigned' : \E k \in 1..turn' : unassigned'[i] = order'[k]
        BY <1>1, <1>3, <2>3
    <2>10. \A k \in 1..turn' :
               \/ \E i \in DOMAIN assignments' : assignments'[i].student = order'[k]
               \/ \E i \in DOMAIN unassigned' : unassigned'[i] = order'[k]
        BY <1>1, <1>3, <2>4
    <2> QED
        BY <2>1, <2>2, <2>7, <2>8, <2>9, <2>10 DEF TurnsAccounted
<1> QED
    BY <1>4, <1>5, <1>6, <1>7 DEF IInv

\* The records made so far can be counted.
LEMMA PlacedFinite ==
    ASSUME IInv
    PROVE  IsFiniteSet(Placed)
<1>1. assignments \in Seq(Assignment)
    BY DEF IInv, TypeOK
<1>2. \A i, j \in DOMAIN assignments : assignments[i] = assignments[j] => i = j
    BY DEF IInv, CollisionFree
<1> QED
    BY <1>1, <1>2, DistinctMembers DEF Placed

\* Two seats can always be compared by their score.
LEMMA ScoreNatural ==
    ASSUME IInv, NEW s, NEW p
    PROVE  Score(s, p) \in Nat
BY PlacedFinite, PenaltyNatural DEF Score, SoftViolations

\* The scan finds a seat when one is acceptable, and that seat has least score.
LEMMA BestSeatIsBest ==
    ASSUME IInv, NEW s, Acceptable(s) # {}
    PROVE  /\ BestSeat(s) \in Acceptable(s)
           /\ BestSeat(s) \in Candidates(allocations, layout)
           /\ BestSeat(s) \in remaining
           /\ \A q \in Acceptable(s) : Score(s, BestSeat(s)) <= Score(s, q)
<1> DEFINE ok == Acceptable(s)
           scores == {Score(s, p) : p \in ok}
           best == {p \in ok : \A q \in ok : Score(s, p) <= Score(s, q)}
<1>1. /\ ok \subseteq remaining
      /\ remaining \subseteq Candidates(allocations, layout)
    BY DEF Acceptable, IInv, SeatsAccounted
<1>2. scores \in SUBSET Nat /\ scores # {}
    BY ScoreNatural
<1>3. PICK least \in scores : \A k \in scores : least <= k
    <2> HIDE DEF scores
    <2> QED
        BY <1>2, LeastNatural
<1>4. best \in SUBSET Candidates(allocations, layout) /\ best # {}
    <2>1. PICK p \in ok : Score(s, p) = least
        BY <1>3
    <2>2. p \in best
        BY <1>3, <2>1
    <2> QED
        BY <1>1, <2>2
<1>5. BestSeat(s) = FirstOf(best)
    BY DEF BestSeat
<1> HIDE DEF best
<1>6. FirstOf(best) \in best
    BY <1>4, Arguments, FirstOfIsMember DEF IInv
<1> QED
    BY <1>1, <1>5, <1>6 DEF best

\* What seating the student whose turn it is changes.
LEMMA SeatNextStep ==
    ASSUME IInv, SeatNext
    PROVE  LET s == order[turn + 1]
               p == BestSeat(s)
               m == Len(assignments)
           IN  /\ phase = "placing" /\ turn < Len(order) /\ turn' = turn + 1
               /\ UNCHANGED <<students, allocations, layout, courses, constraints,
                              phase, order, unassigned>>
               /\ turn \in Nat /\ turn + 1 \in 1..Len(order) /\ s \in Student
               /\ \A i \in DOMAIN assignments : assignments[i].student # s
               /\ \A i \in DOMAIN unassigned : unassigned[i] # s
               /\ p \in Acceptable(s) /\ p \in remaining
               /\ p \in Candidates(allocations, layout)
               /\ remaining' = remaining \ {p}
               /\ m \in Nat /\ DOMAIN assignments = 1..m
               /\ assignments' \in Seq(Assignment) /\ Len(assignments') = m + 1
               /\ DOMAIN assignments' = 1..(m + 1)
               /\ assignments'[m + 1] = SeatRecord(s, p)
               /\ \A i \in 1..m : assignments'[i] = assignments[i]
<1> DEFINE s == order[turn + 1]
           p == BestSeat(s)
           m == Len(assignments)
<1>1. /\ phase = "placing" /\ turn < Len(order) /\ turn' = turn + 1
      /\ UNCHANGED <<students, allocations, layout, courses, constraints, phase, order,
                     unassigned>>
      /\ Acceptable(s) # {}
      /\ assignments' = Append(assignments, SeatRecord(s, p))
      /\ remaining' = remaining \ {p}
    BY DEF SeatNext, arguments
<1>2. /\ turn \in Nat /\ turn + 1 \in 1..Len(order) /\ s \in Student
      /\ \A i \in DOMAIN assignments : assignments[i].student # s
      /\ \A i \in DOMAIN unassigned : unassigned[i] # s
    BY <1>1, TurnIsFresh DEF IInv, TypeOK
<1>3. /\ p \in Acceptable(s) /\ p \in remaining
      /\ p \in Candidates(allocations, layout)
    BY <1>1, BestSeatIsBest
<1>4. SeatRecord(s, p) \in Assignment
    <2>1. p \in [order : Nat, room : RoomId, seat : Nat]
        BY <1>3, Arguments, CandidateSeats DEF IInv
    <2> QED
        BY <1>2, <2>1 DEF SeatRecord, Assignment
<1> HIDE DEF p, s
<1>5. /\ m \in Nat /\ DOMAIN assignments = 1..m
      /\ assignments' \in Seq(Assignment) /\ Len(assignments') = m + 1
      /\ DOMAIN assignments' = 1..(m + 1)
      /\ assignments'[m + 1] = SeatRecord(s, p)
      /\ \A i \in 1..m : assignments'[i] = assignments[i]
    BY <1>1, <1>4 DEF IInv, TypeOK
<1> QED
    BY <1>1, <1>2, <1>3, <1>5 DEF p, s

LEMMA SeatNextKeepsIInv == IInv /\ SeatNext => IInv'
<1> SUFFICES ASSUME IInv, SeatNext PROVE IInv'
    OBVIOUS
<1> DEFINE s == order[turn + 1]
           p == BestSeat(s)
           m == Len(assignments)
           pool == Candidates(allocations, layout)
           record == SeatRecord(s, p)
<1>1. /\ phase = "placing" /\ turn' = turn + 1
      /\ UNCHANGED <<students, allocations, layout, courses, constraints, phase, order,
                     unassigned>>
      /\ turn \in Nat /\ turn + 1 \in 1..Len(order)
      /\ \A i \in DOMAIN assignments : assignments[i].student # s
      /\ \A i \in DOMAIN unassigned : unassigned[i] # s
    BY SeatNextStep
<1>2. p \in remaining /\ p \in pool /\ remaining' = remaining \ {p}
    BY SeatNextStep
<1>3. /\ m \in Nat /\ DOMAIN assignments = 1..m
      /\ assignments' \in Seq(Assignment) /\ Len(assignments') = m + 1
      /\ DOMAIN assignments' = 1..(m + 1)
      /\ assignments'[m + 1] = record
      /\ \A i \in 1..m : assignments'[i] = assignments[i]
    BY SeatNextStep
<1>4. record.student = s /\ record.room = p.room /\ record.seat = p.seat
    BY DEF SeatRecord
<1>5. pool' = pool
    BY <1>1
<1> HIDE DEF s, p, m, record
<1>6. TypeOK'
    <2>1. turn' \in 0..Len(order')
        BY <1>1
    <2> QED
        BY <1>1, <1>3, <2>1 DEF IInv, TypeOK
<1>7. ArgumentsSound' /\ OrderDrawn'
    BY <1>1 DEF IInv, ArgumentsSound, OrderDrawn, Distinct
<1>8. PhaseFacts'
    BY <1>1 DEF IInv, PhaseFacts, RoomsDistinct, EveryRoomHasTopology
<1>9. TurnsAccounted'
    <2>1. Len(assignments') + Len(unassigned') = turn'
        <3>1. Len(unassigned) \in Nat /\ m + Len(unassigned) = turn
            BY DEF IInv, TypeOK, TurnsAccounted, m
        <3>2. Len(unassigned') = Len(unassigned) /\ turn' = turn + 1
            BY <1>1
        <3> QED
            BY <1>3, <3>1, <3>2
    <2>2. ASSUME NEW i \in 1..(m + 1)
          PROVE  \E k \in 1..(turn + 1) : assignments'[i].student = order[k]
        <3>1. CASE i \in 1..m
            <4>1. PICK k \in 1..turn : assignments[i].student = order[k]
                BY <1>3, <3>1 DEF IInv, TurnsAccounted
            <4>2. k \in 1..(turn + 1) /\ assignments'[i].student = order[k]
                BY <1>1, <1>3, <3>1, <4>1
            <4> QED
                BY <4>2
        <3>2. CASE i = m + 1
            BY <1>1, <1>3, <1>4, <3>2 DEF s
        <3> QED
            BY <1>3, <3>1, <3>2
    <2>3. \A i \in DOMAIN unassigned' : \E k \in 1..turn' : unassigned'[i] = order'[k]
        BY <1>1 DEF IInv, TurnsAccounted
    <2>4. ASSUME NEW k \in 1..(turn + 1)
          PROVE  \/ \E i \in 1..(m + 1) : assignments'[i].student = order[k]
                 \/ \E i \in DOMAIN unassigned : unassigned[i] = order[k]
        <3>1. CASE k \in 1..turn
            <4>1. CASE \E i \in 1..m : assignments[i].student = order[k]
                BY <1>3, <4>1
            <4>2. CASE \E i \in DOMAIN unassigned : unassigned[i] = order[k]
                BY <4>2
            <4> QED
                BY <1>3, <3>1, <4>1, <4>2 DEF IInv, TurnsAccounted
        <3>2. CASE k = turn + 1
            BY <1>3, <1>4, <3>2 DEF s
        <3> QED
            BY <1>1, <3>1, <3>2
    <2>5. Distinct(unassigned)'
        BY <1>1 DEF IInv, TurnsAccounted, Distinct
    <2>6. ASSUME NEW i \in 1..(m + 1), NEW j \in DOMAIN unassigned
          PROVE  assignments'[i].student # unassigned[j]
        <3>1. CASE i \in 1..m
            <4>1. assignments[i].student # unassigned[j]
                BY <1>3, <3>1 DEF IInv, TurnsAccounted
            <4> QED
                BY <1>3, <3>1, <4>1
        <3>2. CASE i = m + 1
            BY <1>1, <1>3, <1>4, <3>2
        <3> QED
            BY <1>3, <3>1, <3>2
    <2>7. \A i \in DOMAIN assignments', j \in DOMAIN unassigned' :
              assignments'[i].student # unassigned'[j]
        BY <1>1, <1>3, <2>6
    <2>8. \A i \in DOMAIN assignments' : \E k \in 1..turn' : assignments'[i].student = order'[k]
        BY <1>1, <1>3, <2>2
    <2>9. \A k \in 1..turn' :
              \/ \E i \in DOMAIN assignments' : assignments'[i].student = order'[k]
              \/ \E i \in DOMAIN unassigned' : unassigned'[i] = order'[k]
        BY <1>1, <1>3, <2>4
    <2> QED
        BY <2>1, <2>3, <2>5, <2>7, <2>8, <2>9 DEF TurnsAccounted
<1>10. SeatsAccounted'
    <2>1. remaining' \subseteq pool'
        BY <1>2, <1>5 DEF IInv, SeatsAccounted
    <2>2. ASSUME NEW i \in 1..(m + 1)
          PROVE  \E q \in pool \ remaining' :
                     assignments'[i].room = q.room /\ assignments'[i].seat = q.seat
        <3>1. CASE i \in 1..m
            <4>1. PICK q \in pool \ remaining :
                      assignments[i].room = q.room /\ assignments[i].seat = q.seat
                BY <1>3, <3>1 DEF IInv, SeatsAccounted, SeatedOn
            <4> QED
                BY <1>2, <1>3, <3>1, <4>1
        <3>2. CASE i = m + 1
            BY <1>2, <1>3, <1>4, <3>2
        <3> QED
            BY <1>3, <3>1, <3>2
    <2>3. SeatedOn(assignments, pool \ remaining)'
        BY <1>3, <1>5, <2>2 DEF SeatedOn
    <2>4. ASSUME NEW q \in pool \ remaining'
          PROVE  \E i \in 1..(m + 1) :
                     assignments'[i].room = q.room /\ assignments'[i].seat = q.seat
        <3>1. CASE q = p
            BY <1>3, <1>4, <3>1
        <3>2. CASE q \notin remaining
            <4>1. PICK i \in 1..m : assignments[i].room = q.room /\ assignments[i].seat = q.seat
                BY <1>1, <1>3, <3>2 DEF IInv, SeatsAccounted, AllTaken
            <4> QED
                BY <1>3, <4>1
        <3> QED
            BY <1>2, <3>1, <3>2
    <2>5. AllTaken(assignments, pool \ remaining)'
        BY <1>3, <1>5, <2>4 DEF AllTaken
    <2> QED
        BY <2>1, <2>3, <2>5 DEF SeatsAccounted
<1>11. CollisionFree(assignments)'
    <2>1. ASSUME NEW i \in 1..m
          PROVE  /\ assignments[i].student # s
                 /\ assignments[i].room # p.room \/ assignments[i].seat # p.seat
        <3>1. PICK q \in pool \ remaining :
                  assignments[i].room = q.room /\ assignments[i].seat = q.seat
            BY <1>3 DEF IInv, SeatsAccounted, SeatedOn
        <3>2. q # p
            BY <1>2
        <3>3. RoomsDistinct(allocations)
            BY <1>1 DEF IInv, PhaseFacts
        <3>4. q.room # p.room \/ q.seat # p.seat
            BY <1>2, <3>2, <3>3, Arguments, CandidateIdentity DEF IInv
        <3> QED
            BY <1>1, <1>3, <3>1, <3>4
    <2> SUFFICES ASSUME NEW i \in 1..(m + 1), NEW j \in 1..(m + 1), i # j
                 PROVE  /\ assignments'[i].student # assignments'[j].student
                        /\ \/ assignments'[i].room # assignments'[j].room
                           \/ assignments'[i].seat # assignments'[j].seat
        BY <1>3 DEF CollisionFree
    <2>2. CASE i \in 1..m /\ j \in 1..m
        BY <2>2, <1>3 DEF IInv, CollisionFree
    <2>3. CASE i = m + 1 /\ j \in 1..m
        BY <2>3, <2>1, <1>3, <1>4
    <2>4. CASE j = m + 1 /\ i \in 1..m
        BY <2>4, <2>1, <1>3, <1>4
    <2> QED
        BY <2>2, <2>3, <2>4, <1>3
<1> QED
    BY <1>6, <1>7, <1>8, <1>9, <1>10, <1>11 DEF IInv

LEMMA NextKeepsIInv == IInv /\ [Next]_vars => IInv'
<1> SUFFICES ASSUME IInv, [Next]_vars PROVE IInv'
    OBVIOUS
<1>1. CASE RejectDuplicateRooms \/ RejectMissingTopology
    BY <1>1, RejectKeepsIInv
<1>2. CASE CollectSeats
    BY <1>2, CollectSeatsKeepsIInv
<1>3. CASE OrderNext
    BY <1>3, OrderNextKeepsIInv
<1>4. CASE OrderDone
    BY <1>4, OrderDoneKeepsIInv
<1>5. CASE SeatNext
    BY <1>5, SeatNextKeepsIInv
<1>6. CASE LeaveOut
    BY <1>6, LeaveOutKeepsIInv
<1>7. CASE Return
    BY <1>7, ReturnKeepsIInv
<1>8. CASE UNCHANGED vars
    BY <1>8 DEF vars, IInv, TypeOK, ArgumentsSound, PhaseFacts, OrderDrawn,
                TurnsAccounted, SeatsAccounted, SeatedOn, AllTaken, CollisionFree,
                Distinct, RoomsDistinct, EveryRoomHasTopology
<1> QED
    BY <1>1, <1>2, <1>3, <1>4, <1>5, <1>6, <1>7, <1>8 DEF Next

\* Every call keeps the inductive invariant.
THEOREM InvariantHolds == Spec => []IInv
BY InitIInv, NextKeepsIInv, PTL DEF Spec

\* The state of a call is always well typed.
THEOREM TypeCorrect == Spec => []TypeOK
<1>1. IInv => TypeOK
    BY DEF IInv
<1> QED
    BY <1>1, InvariantHolds, PTL
-----------------------------------------------------------------------------
(* Hard constraints and who is left out.                                   *)

\* Placed grows by one record, or stays as it is.
LEMMA PlacedSteps ==
    ASSUME IInv, [Next]_vars
    PROVE  \/ SeatNext /\ Placed' = Placed \cup {SeatRecord(order[turn + 1], BestSeat(order[turn + 1]))}
           \/ assignments' = assignments /\ Placed' = Placed
<1>1. CASE SeatNext
    <2> DEFINE m == Len(assignments)
               r == SeatRecord(order[turn + 1], BestSeat(order[turn + 1]))
    <2>1. /\ m \in Nat /\ DOMAIN assignments = 1..m
          /\ DOMAIN assignments' = 1..(m + 1)
          /\ assignments'[m + 1] = r
          /\ \A i \in 1..m : assignments'[i] = assignments[i]
        BY <1>1, SeatNextStep
    <2> HIDE DEF m, r
    <2>2. Placed' = Placed \cup {r}
        BY <2>1 DEF Placed
    <2> QED
        BY <1>1, <2>2 DEF r
<1>2. CASE ~SeatNext
    <2>1. assignments' = assignments
        BY <1>2 DEF Next, vars, RejectDuplicateRooms, RejectMissingTopology,
                    CollectSeats, OrderNext, OrderDone, LeaveOut, Return
    <2> QED
        BY <2>1 DEF Placed
<1> QED
    BY <1>1, <1>2

\* The arguments of a call never change.
LEMMA ArgumentsFixed == [Next]_vars => UNCHANGED arguments
BY DEF Next, vars, arguments, RejectDuplicateRooms, RejectMissingTopology,
       CollectSeats, OrderNext, OrderDone, SeatNext, LeaveOut, Return

\* Although a seat is only checked against the students seated before, no hard
\* constraint is ever violated by the seating as a whole.
THEOREM HardConstraintsAlwaysHold == Spec => []HardConstraintsHold
<1>1. Init => HardConstraintsHold
    BY DEF Init, HardConstraintsHold, HardSatisfied, KeptApart, Placed
<1>2. IInv /\ HardConstraintsHold /\ [Next]_vars => HardConstraintsHold'
    <2> SUFFICES ASSUME IInv, HardConstraintsHold, [Next]_vars
                 PROVE  HardConstraintsHold'
        OBVIOUS
    <2>1. layout' = layout /\ constraints' = constraints
        BY ArgumentsFixed DEF arguments
    <2>2. CASE SeatNext
        <3> DEFINE s == order[turn + 1]
                   p == BestSeat(s)
        <3>1. p \in Acceptable(s)
            BY <2>2, SeatNextStep
        <3>2. HardSatisfied(layout, constraints, Placed \cup {SeatRecord(s, p)})
            BY <3>1 DEF Acceptable
        <3>3. Placed' = Placed \cup {SeatRecord(s, p)} \/ Placed' = Placed
            BY PlacedSteps
        <3> QED
            BY <2>1, <3>2, <3>3 DEF HardConstraintsHold
    <2>3. CASE Placed' = Placed
        BY <2>1, <2>3 DEF HardConstraintsHold
    <2> QED
        BY <2>2, <2>3, PlacedSteps
<1> QED
    BY <1>1, <1>2, InvariantHolds, PTL DEF Spec

\* A student left out has no acceptable seat, now and later.
LeftOutStay == \A i \in DOMAIN unassigned : Acceptable(unassigned[i]) = {}

\* Seats only become less acceptable: fewer are free, and more students are
\* there to clash with.
LEMMA AcceptableShrinks ==
    ASSUME IInv, [Next]_vars, phase # "called", NEW s
    PROVE  Acceptable(s)' \subseteq Acceptable(s)
<1>1. layout' = layout /\ constraints' = constraints
    BY ArgumentsFixed DEF arguments
<1>2. remaining' \subseteq remaining
    BY DEF Next, vars, RejectDuplicateRooms, RejectMissingTopology, CollectSeats,
           OrderNext, OrderDone, SeatNext, LeaveOut, Return
<1>3. Placed \subseteq Placed'
    BY PlacedSteps
<1>4. ASSUME NEW p,
             HardSatisfied(layout, constraints, Placed' \cup {SeatRecord(s, p)})
      PROVE  HardSatisfied(layout, constraints, Placed \cup {SeatRecord(s, p)})
    BY <1>3, <1>4 DEF HardSatisfied, KeptApart
<1> QED
    BY <1>1, <1>2, <1>4 DEF Acceptable

\* A returned call has left out only students for whom each seat still free would
\* break a hard constraint; without hard constraints every room is then full.
THEOREM NoOneLeftOutWithoutReason == Spec => []LeftOutForGoodReason
<1>1. Init => LeftOutStay
    BY DEF Init, LeftOutStay
<1>2. IInv /\ LeftOutStay /\ [Next]_vars => LeftOutStay'
    <2> SUFFICES ASSUME IInv, LeftOutStay, [Next]_vars PROVE LeftOutStay'
        OBVIOUS
    <2>1. CASE phase = "called"
        <3>1. unassigned = <<>>
            BY <2>1, NothingYet DEF IInv, PhaseFacts
        <3>2. unassigned' = unassigned
            BY <2>1 DEF Next, vars, RejectDuplicateRooms, RejectMissingTopology,
                        CollectSeats, OrderNext, OrderDone, SeatNext, LeaveOut, Return
        <3> QED
            BY <3>1, <3>2 DEF LeftOutStay
    <2>2. CASE phase # "called" /\ LeaveOut
        <3> DEFINE s == order[turn + 1]
                   m == Len(unassigned)
        <3>1. /\ unassigned' = Append(unassigned, s) /\ Acceptable(s) = {}
              /\ phase = "placing" /\ turn < Len(order)
            BY <2>2 DEF LeaveOut
        <3>2. s \in Student
            BY <3>1, TurnIsFresh
        <3>3. /\ m \in Nat /\ DOMAIN unassigned = 1..m
              /\ DOMAIN unassigned' = 1..(m + 1)
              /\ unassigned'[m + 1] = s
              /\ \A i \in 1..m : unassigned'[i] = unassigned[i]
            BY <3>1, <3>2 DEF IInv, TypeOK
        <3> HIDE DEF s, m
        <3>4. ASSUME NEW i \in 1..(m + 1) PROVE Acceptable(unassigned'[i]) = {}
            <4>1. CASE i \in 1..m
                BY <3>3, <4>1 DEF LeftOutStay
            <4>2. CASE i = m + 1
                BY <3>1, <3>3, <4>2
            <4> QED
                BY <3>3, <4>1, <4>2
        <3>5. ASSUME NEW i \in DOMAIN unassigned' PROVE Acceptable(unassigned[i])' = {}
            <4>1. PICK s1 : s1 = unassigned'[i]
                OBVIOUS
            <4>2. Acceptable(s1) = {}
                BY <3>3, <3>4, <4>1
            <4>3. Acceptable(s1)' \subseteq Acceptable(s1)
                BY <2>2, AcceptableShrinks
            <4> QED
                BY <4>1, <4>2, <4>3 DEF Acceptable
        <3> QED
            BY <3>5 DEF LeftOutStay
    <2>3. CASE phase # "called" /\ ~LeaveOut
        <3>1. unassigned' = unassigned
            BY <2>3 DEF Next, vars, RejectDuplicateRooms, RejectMissingTopology,
                        CollectSeats, OrderNext, OrderDone, SeatNext, Return
        <3>2. ASSUME NEW i \in DOMAIN unassigned' PROVE Acceptable(unassigned[i])' = {}
            <4>1. PICK s1 : s1 = unassigned[i]
                OBVIOUS
            <4>2. Acceptable(s1) = {}
                BY <3>1, <4>1 DEF LeftOutStay
            <4>3. Acceptable(s1)' \subseteq Acceptable(s1)
                BY <2>3, AcceptableShrinks
            <4> QED
                BY <3>1, <4>1, <4>2, <4>3 DEF Acceptable
        <3> QED
            BY <3>2 DEF LeftOutStay
    <2> QED
        BY <2>1, <2>2, <2>3
<1>3. IInv /\ LeftOutStay => LeftOutForGoodReason
    <2> SUFFICES ASSUME IInv, LeftOutStay, phase = "returned",
                        unassigned # <<>>, constraints.apart = {}
                 PROVE  RoomsFull(assignments, allocations, layout)
        BY DEF LeftOutForGoodReason, LeftOutStay
    <2>1. Len(unassigned) # 0 /\ Len(unassigned) \in Nat
        BY EmptySeq DEF IInv, TypeOK
    <2>2. 1 \in DOMAIN unassigned
        BY <2>1 DEF IInv, TypeOK
    <2>3. Acceptable(unassigned[1]) = remaining
        BY DEF Acceptable, HardSatisfied
    <2>4. remaining = {}
        BY <2>2, <2>3 DEF LeftOutStay
    <2> DEFINE pool == Candidates(allocations, layout)
    <2>5. SeatedOn(assignments, pool) /\ AllTaken(assignments, pool)
        BY <2>4 DEF IInv, SeatsAccounted, SeatedOn, AllTaken
    <2>6. RoomArguments(RoomId, allocations, layout) /\ RoomsDistinct(allocations)
        BY Arguments DEF IInv, PhaseFacts
    <2>7. Len(assignments) \in Nat /\ DOMAIN assignments = 1..Len(assignments)
        BY DEF IInv, TypeOK
    <2>8. IsFiniteSet(DOMAIN assignments)
        BY <2>7, FS_Interval
    <2> QED
        BY <2>5, <2>6, <2>8, AllTakenMeansFull
<1> QED
    BY <1>1, <1>2, <1>3, InvariantHolds, PTL DEF Spec
-----------------------------------------------------------------------------
(* No student is lost.                                                     *)

\* Once the placement order is complete, every student of the call is in it.
LEMMA EveryoneOrdered ==
    ASSUME IInv, phase \in {"placing", "returned"}, NEW i \in DOMAIN students
    PROVE  \E k \in DOMAIN order : order[k] = students[i]
<1> DEFINE all == {students[j] : j \in DOMAIN students}
           out == {order[k] : k \in DOMAIN order}
<1>1. /\ students \in Seq(Student) /\ order \in Seq(Student)
      /\ Len(order) = Len(students)
    BY DEF IInv, TypeOK, PhaseFacts
<1>2. IsFiniteSet(all) /\ Cardinality(all) = Len(students)
    BY <1>1, DistinctMembers DEF IInv, ArgumentsSound, Distinct
<1>3. IsFiniteSet(out) /\ Cardinality(out) = Len(order)
    BY <1>1, DistinctMembers DEF IInv, OrderDrawn, Distinct
<1>4. out \in SUBSET all
    BY DEF IInv, OrderDrawn
<1>5. out = all
    <2> HIDE DEF all, out
    <2> QED
        BY <1>1, <1>2, <1>3, <1>4, FS_Subset
<1>6. students[i] \in out
    BY <1>5
<1> QED
    BY <1>6

\* On return every student of the call is in the assignment list or in the list of
\* students left out, once.
THEOREM EveryoneIsAccountedFor == Spec => []EveryoneAccountedFor
<1>1. IInv => EveryoneAccountedFor
    <2> SUFFICES ASSUME IInv, phase = "returned", NEW i \in DOMAIN students
                 PROVE  Cardinality({j \in DOMAIN assignments :
                                        assignments[j].student = students[i]})
                          + Cardinality({j \in DOMAIN unassigned :
                                            unassigned[j] = students[i]}) = 1
        BY DEF EveryoneAccountedFor
    <2> DEFINE seats == {j \in DOMAIN assignments : assignments[j].student = students[i]}
               outs == {j \in DOMAIN unassigned : unassigned[j] = students[i]}
    <2>1. PICK k \in DOMAIN order : order[k] = students[i]
        BY EveryoneOrdered
    <2>2. k \in 1..turn
        BY DEF IInv, TypeOK, PhaseFacts
    <2>3. CASE \E a \in DOMAIN assignments : assignments[a].student = order[k]
        <3>1. PICK a \in DOMAIN assignments : assignments[a].student = order[k]
            BY <2>3
        <3>2. seats = {a}
            BY <2>1, <3>1 DEF IInv, CollisionFree
        <3>3. outs = {}
            BY <2>1, <3>1 DEF IInv, TurnsAccounted
        <3>4. Cardinality(seats) = 1 /\ Cardinality(outs) = 0
            BY <3>2, <3>3, FS_Singleton, FS_EmptySet
        <3> HIDE DEF seats, outs
        <3>5. Cardinality(seats) + Cardinality(outs) = 1
            BY <3>4
        <3> QED
            BY <3>5 DEF seats, outs
    <2>4. CASE \E a \in DOMAIN unassigned : unassigned[a] = order[k]
        <3>1. PICK a \in DOMAIN unassigned : unassigned[a] = order[k]
            BY <2>4
        <3>2. seats = {}
            BY <2>1, <3>1 DEF IInv, TurnsAccounted
        <3>3. outs = {a}
            BY <2>1, <3>1 DEF IInv, TurnsAccounted, Distinct
        <3>4. Cardinality(seats) = 0 /\ Cardinality(outs) = 1
            BY <3>2, <3>3, FS_Singleton, FS_EmptySet
        <3> HIDE DEF seats, outs
        <3>5. Cardinality(seats) + Cardinality(outs) = 1
            BY <3>4
        <3> QED
            BY <3>5 DEF seats, outs
    <2> QED
        BY <2>2, <2>3, <2>4 DEF IInv, TurnsAccounted
<1> QED
    BY <1>1, InvariantHolds, PTL

\* No seat is handed out twice, and no room takes more students than the schedule
\* allocates to it or than it has unblocked seats.
THEOREM NeverOverTheLimits ==
    Spec => [](/\ CollisionFree(assignments)
               /\ WithinLimits(assignments, allocations, layout))
<1>1. IInv => WithinLimits(assignments, allocations, layout)
    <2> SUFFICES ASSUME IInv PROVE WithinLimits(assignments, allocations, layout)
        OBVIOUS
    <2>1. CASE turn = 0
        <3>1. DOMAIN assignments = {}
            BY <2>1, NothingYet
        <3>2. \A k \in DOMAIN allocations :
                  Cardinality(SeatedIn(assignments, allocations[k].room)) = 0
            BY <3>1, FS_EmptySet DEF SeatedIn
        <3>3. \A k \in DOMAIN allocations : allocations[k].allocated >= 0
            BY Arguments, TargetBounded DEF IInv
        <3> QED
            BY <3>1, <3>2, <3>3 DEF WithinLimits
    <2>2. CASE turn # 0
        <3>1. RoomsDistinct(allocations)
            BY <2>2 DEF IInv, PhaseFacts
        <3>2. SeatedOn(assignments, Candidates(allocations, layout))
            BY DEF IInv, SeatsAccounted, SeatedOn
        <3> QED
            BY <3>1, <3>2, Arguments, LimitsOfCandidates DEF IInv
    <2> QED
        BY <2>1, <2>2
<1>2. IInv => CollisionFree(assignments)
    BY DEF IInv
<1> QED
    BY <1>1, <1>2, InvariantHolds, PTL
-----------------------------------------------------------------------------
(* The contract.                                                           *)

\* The contract's Cardinality is the one of this module.
LEMMA SameCardinality == \A S : Contract!Cardinality(S) = Cardinality(S)
BY DEF Contract!Cardinality, Cardinality, Contract!IsFiniteSet, IsFiniteSet

\* There are as many students as places in the list, and as many seated ones as
\* records.
LEMMA Counts ==
    ASSUME IInv
    PROVE  /\ Cardinality({students[i] : i \in DOMAIN students}) = Len(students)
           /\ Cardinality(Contract!Seated) = Len(assignments)
<1>1. Cardinality({students[i] : i \in DOMAIN students}) = Len(students)
    <2>1. students \in Seq(Student) /\ Distinct(students)
        BY DEF IInv, TypeOK, ArgumentsSound
    <2> QED
        BY <2>1, DistinctMembers DEF Distinct
<1> DEFINE m == Len(assignments)
           seated == [i \in 1..m |-> assignments[i].student]
<1>2. m \in Nat /\ DOMAIN assignments = 1..m /\ assignments \in Seq(Assignment)
    BY DEF IInv, TypeOK
<1>3. ASSUME NEW i \in 1..m PROVE assignments[i].student \in Student
    <2>1. assignments[i] \in Assignment
        BY <1>2, ElementOfSeq
    <2> QED
        BY <2>1 DEF Assignment
<1>4. /\ seated \in Seq(Student) /\ Len(seated) = m /\ DOMAIN seated = 1..m
      /\ \A i \in 1..m : seated[i] = assignments[i].student
    BY <1>2, <1>3
<1>5. \A i, j \in DOMAIN seated : seated[i] = seated[j] => i = j
    BY <1>2, <1>4 DEF IInv, CollisionFree
<1>6. Contract!Seated = {seated[i] : i \in DOMAIN seated}
    BY <1>2, <1>4 DEF Contract!Seated, Placed
<1> HIDE DEF seated
<1>7. Cardinality({seated[i] : i \in DOMAIN seated}) = Len(seated)
    BY <1>4, <1>5, DistinctMembers
<1> QED
    BY <1>1, <1>4, <1>6, <1>7

LEMMA InitImplements == Init => Contract!Init
<1> SUFFICES ASSUME Init PROVE Contract!Init
    OBVIOUS
<1>1. IInv
    BY InitIInv
<1>2. {students[i] : i \in DOMAIN students} \subseteq Student
    BY <1>1 DEF IInv, TypeOK
<1>3. SeatPool \subseteq Contract!Seat
    BY <1>1, Arguments, CandidateSeats DEF SeatPool, Contract!Seat, IInv
<1>4. Placed = {}
    BY DEF Init, Placed
<1>5. (IF phase = "returned" THEN result.status ELSE "none") = "none"
    BY DEF Init
<1> QED
    BY <1>2, <1>3, <1>4, <1>5 DEF Contract!Init

\* A student's turn that ends with a seat is one Place of the contract.
LEMMA SeatNextImplements == IInv /\ SeatNext => Contract!Next
<1> SUFFICES ASSUME IInv, SeatNext PROVE Contract!Next
    OBVIOUS
<1> DEFINE s == order[turn + 1]
           p == BestSeat(s)
           q == [room |-> p.room, seat |-> p.seat]
<1>1. /\ phase = "placing" /\ phase' = "placing"
      /\ UNCHANGED <<students, allocations, layout>>
      /\ turn + 1 \in 1..Len(order)
      /\ \A i \in DOMAIN assignments : assignments[i].student # s
      /\ p \in remaining /\ p \in Candidates(allocations, layout)
    BY SeatNextStep
<1>2. RoomsDistinct(allocations) /\ EveryRoomHasTopology
    BY <1>1 DEF IInv, PhaseFacts
<1>3. s \in {students[i] : i \in DOMAIN students}
    <2>1. turn + 1 \in DOMAIN order
        BY <1>1 DEF IInv, TypeOK
    <2> QED
        BY <2>1 DEF IInv, OrderDrawn
<1>4. s \notin Contract!Seated
    BY <1>1 DEF Contract!Seated, Placed
<1>5. q \in SeatPool
    BY <1>1, <1>2 DEF SeatPool
<1>6. q \notin Contract!Taken
    <2> SUFFICES ASSUME NEW i \in DOMAIN assignments,
                        q = [room |-> assignments[i].room, seat |-> assignments[i].seat]
                 PROVE  FALSE
        BY DEF Contract!Taken, Placed
    <2>1. PICK c \in Candidates(allocations, layout) \ remaining :
              assignments[i].room = c.room /\ assignments[i].seat = c.seat
        BY DEF IInv, SeatsAccounted, SeatedOn
    <2>2. c = p
        BY <1>1, <1>2, <2>1, Arguments, CandidateIdentity DEF IInv
    <2> QED
        BY <1>1, <2>1, <2>2
<1>7. Placed' = Placed \cup {[student |-> s, room |-> q.room, seat |-> q.seat]}
    <2>1. Placed' = Placed \cup {SeatRecord(s, p)}
        <3>1. assignments' # assignments
            <4>1. Len(assignments') = Len(assignments) + 1 /\ Len(assignments) \in Nat
                BY SeatNextStep
            <4> QED
                BY <4>1
        <3> QED
            BY <3>1, PlacedSteps DEF Next
    <2> QED
        BY <2>1 DEF SeatRecord
<1>8. SeatPool' = SeatPool
    BY <1>1 DEF SeatPool, EveryRoomHasTopology, RoomsDistinct
<1>9. PICK t \in {students[i] : i \in DOMAIN students}, u \in SeatPool : t = s /\ u = q
    BY <1>3, <1>5
<1>10. Contract!Place(t, u)
    BY <1>1, <1>4, <1>6, <1>7, <1>8, <1>9 DEF Contract!Place
<1> QED
    BY <1>10 DEF Contract!Next

\* The return statement is the contract's Conclude.
LEMMA ReturnImplements == IInv /\ Return => Contract!Next
<1> SUFFICES ASSUME IInv, Return PROVE Contract!Next
    OBVIOUS
<1>1. /\ Len(students) \in Nat /\ Len(assignments) \in Nat /\ Len(unassigned) \in Nat
      /\ Len(assignments) + Len(unassigned) = Len(students)
    BY DEF IInv, TypeOK, TurnsAccounted, PhaseFacts, Return
<1>2. /\ phase = "placing" /\ phase' = "returned"
      /\ students' = students /\ assignments' = assignments
      /\ allocations' = allocations /\ layout' = layout
    BY DEF Return, arguments
<1>3. result'.status = StatusOf(Len(students), Len(assignments), Len(unassigned))
    BY DEF Return, Summary
<1>4. StatusOf(Len(students), Len(assignments), Len(unassigned))
        = Contract!Verdict(Cardinality({students[i] : i \in DOMAIN students}),
                           Cardinality(Contract!Seated))
    BY <1>1, Counts DEF StatusOf, Contract!Verdict
<1>5. SeatPool' = SeatPool /\ Placed' = Placed
    BY <1>2 DEF SeatPool, Placed, EveryRoomHasTopology, RoomsDistinct
<1>6. Contract!Conclude
    BY <1>2, <1>3, <1>4, <1>5, SameCardinality DEF Contract!Conclude
<1> QED
    BY <1>6 DEF Contract!Next

LEMMA StepImplements == IInv /\ [Next]_vars => [Contract!Next]_(Contract!contractVars)
<1> SUFFICES ASSUME IInv, [Next]_vars
             PROVE  Contract!Next \/ UNCHANGED Contract!contractVars
    OBVIOUS
<1>1. CASE SeatNext
    BY <1>1, SeatNextImplements
<1>2. CASE Return
    BY <1>2, ReturnImplements
<1>3. ASSUME /\ UNCHANGED <<students, allocations, layout>>
             /\ assignments' = assignments
             /\ \/ phase # "returned" /\ phase' # "returned"
                \/ phase' = phase /\ result' = result
      PROVE  UNCHANGED Contract!contractVars
    BY <1>3 DEF Contract!contractVars, SeatPool, Placed, EveryRoomHasTopology,
                RoomsDistinct
<1>4. CASE RejectDuplicateRooms \/ RejectMissingTopology
    BY <1>3, <1>4 DEF RejectDuplicateRooms, RejectMissingTopology, arguments
<1>5. CASE CollectSeats
    BY <1>3, <1>5 DEF CollectSeats, arguments
<1>6. CASE OrderNext \/ OrderDone
    BY <1>3, <1>6 DEF OrderNext, OrderDone, arguments
<1>7. CASE LeaveOut
    BY <1>3, <1>7 DEF LeaveOut, arguments
<1>8. CASE UNCHANGED vars
    BY <1>3, <1>8 DEF vars
<1> QED
    BY <1>1, <1>2, <1>4, <1>5, <1>6, <1>7, <1>8 DEF Next

\* The greedy pass implements the contract of a seating strategy: every student it
\* seats was waiting, every seat it hands out was free and in the pool, and the
\* status it returns is the contract's verdict.
THEOREM ConstraintImplementsContract == Spec => ImplementsContract
BY InvariantHolds, InitImplements, StepImplements, PTL
   DEF Spec, ImplementsContract, Contract!Spec
-----------------------------------------------------------------------------
(* A single course.                                                        *)

SingleCourseByDefault ==
    ~constraints.given /\ Cardinality(CoursesOf(students, courses)) <= 1

\* Every seat handed out comes before every seat still free.
SeatsTakenInOrder ==
    \A i \in DOMAIN assignments : \A p \in remaining :
        \E q \in Candidates(allocations, layout) :
            /\ assignments[i].room = q.room
            /\ assignments[i].seat = q.seat
            /\ Before(q, p)

\* Without a second course no seat is denied and none is preferred: the best one
\* is the first.
LEMMA SingleCourseTakesFirst ==
    ASSUME IInv, SingleCourseByDefault, NEW s, Acceptable(s) # {}
    PROVE  /\ BestSeat(s) = FirstOf(remaining)
           /\ remaining # {}
<1>1. constraints = NoConstraintSet
    BY DEF IInv, ArgumentsSound, SingleCourseByDefault
<1>2. ~AntiCheatingEnabled
    <2> DEFINE f == [i \in DOMAIN students |-> courses[students[i]]]
               all == CoursesOf(students, courses)
    <2>1. Len(students) \in Nat /\ DOMAIN students = 1..Len(students)
        BY DEF IInv, TypeOK
    <2>2. IsFiniteSet(DOMAIN students)
        BY <2>1, FS_Interval
    <2>3. f \in Surjection(DOMAIN students, all)
        BY DEF Surjection, CoursesOf
    <2> HIDE DEF f
    <2>4. Cardinality(all) \in Nat
        BY <2>2, <2>3, FS_Surjection, FS_CardinalityType
    <2> HIDE DEF all
    <2>5. Cardinality(all) <= 1
        BY DEF SingleCourseByDefault, all
    <2>6. ~(Cardinality(all) >= 2)
        BY <2>4, <2>5
    <2> QED
        BY <2>6 DEF AntiCheatingEnabled, all
<1>3. Acceptable(s) = remaining
    BY <1>1 DEF Acceptable, HardSatisfied, NoConstraintSet
<1>4. \A p \in remaining : Score(s, p) = 0
    BY <1>1, <1>2 DEF Score, SoftViolations, NoConstraintSet
<1>5. BestSeat(s) = FirstOf({p \in remaining :
                                \A q \in remaining : Score(s, p) <= Score(s, q)})
    BY <1>3 DEF BestSeat
<1>6. {p \in remaining : \A q \in remaining : Score(s, p) <= Score(s, q)} = remaining
    BY <1>4
<1> QED
    BY <1>3, <1>5, <1>6

LEMMA SeatNextKeepsOrder ==
    ASSUME IInv, SingleCourseByDefault, SeatsTakenInOrder,
           InStudentOrder(assignments, allocations), SeatNext
    PROVE  SeatsTakenInOrder' /\ InStudentOrder(assignments, allocations)'
<1> DEFINE p == BestSeat(order[turn + 1])
           m == Len(assignments)
           pool == Candidates(allocations, layout)
           r == SeatRecord(order[turn + 1], p)
<1>1. /\ UNCHANGED <<allocations, layout>>
      /\ p \in remaining /\ p \in pool
      /\ remaining' = remaining \ {p}
      /\ m \in Nat /\ DOMAIN assignments = 1..m
      /\ DOMAIN assignments' = 1..(m + 1)
      /\ assignments'[m + 1] = r
      /\ \A i \in 1..m : assignments'[i] = assignments[i]
    BY SeatNextStep
<1>2. \A q \in remaining : p = q \/ Before(p, q)
    <2>1. p = FirstOf(remaining) /\ remaining # {}
        BY SingleCourseTakesFirst, SeatNextStep
    <2>2. remaining \in SUBSET pool
        BY DEF IInv, SeatsAccounted
    <2> QED
        BY <2>1, <2>2, Arguments, FirstOfIsMember DEF IInv
<1>3. r.room = p.room /\ r.seat = p.seat
    BY DEF SeatRecord
<1> HIDE DEF p, m, r
<1>4. SeatsTakenInOrder'
    <2> SUFFICES ASSUME NEW i \in 1..(m + 1), NEW t \in remaining \ {p}
                 PROVE  \E q \in pool : /\ assignments'[i].room = q.room
                                        /\ assignments'[i].seat = q.seat
                                        /\ Before(q, t)
        BY <1>1 DEF SeatsTakenInOrder
    <2>1. CASE i \in 1..m
        BY <1>1, <2>1 DEF SeatsTakenInOrder
    <2>2. CASE i = m + 1
        BY <1>1, <1>2, <1>3, <2>2
    <2> QED
        BY <1>1, <2>1, <2>2
<1>5. InStudentOrder(assignments, allocations)'
    <2> SUFFICES ASSUME NEW i \in 1..(m + 1), NEW j \in 1..(m + 1), i < j
                 PROVE  \E k, l \in DOMAIN allocations :
                            /\ assignments'[i].room = allocations[k].room
                            /\ assignments'[j].room = allocations[l].room
                            /\ \/ k < l
                               \/ k = l /\ assignments'[i].seat < assignments'[j].seat
        BY <1>1 DEF InStudentOrder
    <2>1. CASE j \in 1..m
        <3>1. i \in 1..m
            BY <1>1, <2>1
        <3> QED
            BY <1>1, <2>1, <3>1 DEF InStudentOrder
    <2>2. CASE j = m + 1
        <3>1. i \in 1..m
            BY <1>1, <2>2
        <3>2. PICK q \in pool :
                  /\ assignments[i].room = q.room
                  /\ assignments[i].seat = q.seat
                  /\ Before(q, p)
            BY <1>1, <3>1 DEF SeatsTakenInOrder
        <3>3. /\ q.order \in DOMAIN allocations /\ q.room = allocations[q.order].room
              /\ p.order \in DOMAIN allocations /\ p.room = allocations[p.order].room
            BY <1>1, Arguments, CandidateSeats DEF IInv
        <3> QED
            BY <1>1, <1>3, <2>2, <3>1, <3>2, <3>3 DEF Before
    <2> QED
        BY <1>1, <2>1, <2>2
<1> QED
    BY <1>4, <1>5

\* A call about one course, without explicit constraints, fills the seats in order,
\* exactly as sequential seating does.
THEOREM SingleCourseStaysInOrder == Spec => []SingleCourseSeatedInOrder
<1> DEFINE Ordered == SingleCourseByDefault =>
                          SeatsTakenInOrder /\ InStudentOrder(assignments, allocations)
<1>1. Init => Ordered
    BY DEF Init, SeatsTakenInOrder, InStudentOrder
<1>2. IInv /\ Ordered /\ [Next]_vars => Ordered'
    <2> SUFFICES ASSUME IInv, Ordered, [Next]_vars, SingleCourseByDefault'
                 PROVE  SeatsTakenInOrder' /\ InStudentOrder(assignments, allocations)'
        OBVIOUS
    <2>1. /\ UNCHANGED <<students, allocations, layout, courses, constraints>>
        BY ArgumentsFixed DEF arguments
    <2>2. SingleCourseByDefault
        BY <2>1 DEF SingleCourseByDefault
    <2>3. CASE SeatNext
        BY <2>2, <2>3, SeatNextKeepsOrder
    <2>4. CASE CollectSeats
        <3>1. assignments = <<>> /\ assignments' = assignments
            BY <2>4, NothingYet DEF CollectSeats, IInv, PhaseFacts
        <3>2. DOMAIN assignments' = {}
            BY <3>1
        <3> QED
            BY <3>2 DEF SeatsTakenInOrder, InStudentOrder
    <2>5. CASE ~SeatNext /\ ~CollectSeats
        <3>1. assignments' = assignments /\ remaining' = remaining
            BY <2>5 DEF Next, vars, RejectDuplicateRooms, RejectMissingTopology,
                        OrderNext, OrderDone, LeaveOut, Return
        <3> QED
            BY <2>1, <2>2, <3>1 DEF SeatsTakenInOrder, InStudentOrder
    <2> QED
        BY <2>3, <2>4, <2>5
<1>3. Ordered => SingleCourseSeatedInOrder
    BY DEF SingleCourseSeatedInOrder, SingleCourseByDefault
<1> QED
    BY <1>1, <1>2, <1>3, InvariantHolds, PTL DEF Spec
-----------------------------------------------------------------------------
(* Level courses.                                                          *)

\* A turn takes its student off the waiting list of the course, and no other.
LEMMA TurnTakesOne ==
    ASSUME IInv, OrderNext, NEW d
    PROVE  Waiting(students, courses, order', d)
             = Waiting(students, courses, order, d) \ {NextInTurn(students, courses, order)}
<1> DEFINE i == NextInTurn(students, courses, order)
           n == Len(order)
           c == NextCourse(students, courses, order)
<1>1. i \in Waiting(students, courses, order, c)
    <2>1. CourseId \in SUBSET Nat
        BY CallsAreTyped
    <2>2. /\ students \in Seq(Student) /\ order \in Seq(Student)
          /\ courses \in [Student -> CourseId]
          /\ Distinct(students) /\ Distinct(order)
          /\ Len(order) < Len(students)
        BY DEF IInv, TypeOK, ArgumentsSound, OrderDrawn, OrderNext
    <2> QED
        BY <2>1, <2>2, NextInTurnWaits
<1>2. i \in DOMAIN students /\ students[i] \in Student
    <2>1. students \in Seq(Student) /\ i \in 1..Len(students)
        BY <1>1 DEF IInv, TypeOK, Waiting
    <2> QED
        BY <2>1, ElementOfSeq
<1>3. /\ n \in Nat /\ DOMAIN order = 1..n
      /\ DOMAIN order' = 1..(n + 1)
      /\ order'[n + 1] = students[i]
      /\ \A k \in 1..n : order'[k] = order[k]
    BY <1>2 DEF IInv, TypeOK, OrderNext
<1>4. \A j \in DOMAIN students : students[j] = students[i] <=> j = i
    BY <1>2 DEF IInv, ArgumentsSound, Distinct
<1> HIDE DEF i, n, c
<1>5. ASSUME NEW j \in DOMAIN students
      PROVE  (\A k \in DOMAIN order' : order'[k] # students[j])
               <=> (\A k \in DOMAIN order : order[k] # students[j]) /\ j # i
    <2>1. ASSUME \A k \in DOMAIN order' : order'[k] # students[j]
          PROVE  (\A k \in DOMAIN order : order[k] # students[j]) /\ j # i
        <3>1. ASSUME NEW k \in DOMAIN order PROVE order[k] # students[j]
            BY <1>3, <2>1
        <3>2. j # i
            BY <1>3, <2>1
        <3> QED
            BY <3>1, <3>2
    <2>2. ASSUME \A k \in DOMAIN order : order[k] # students[j], j # i
          PROVE  \A k \in DOMAIN order' : order'[k] # students[j]
        <3> SUFFICES ASSUME NEW k \in 1..(n + 1) PROVE order'[k] # students[j]
            BY <1>3
        <3>1. CASE k \in 1..n
            BY <1>3, <2>2, <3>1
        <3>2. CASE k = n + 1
            BY <1>3, <1>4, <2>2, <3>2
        <3> QED
            BY <1>3, <3>1, <3>2
    <2> QED
        BY <2>1, <2>2
<1>6. Waiting(students, courses, order', d) = Waiting(students, courses, order, d) \ {i}
    BY <1>5 DEF Waiting
<1> QED
    BY <1>6 DEF i

\* Courses whose waiting lists have come within one of each other stay so: no
\* course then gets a run of turns of its own.
THEOREM LevelStaysLevel == Spec => LevelCoursesStayLevel
<1> DEFINE Level == LET left(c, o) == Cardinality(Waiting(students, courses, o, c))
                    IN  phase = "ordering" =>
                          \A c, d \in CoursesOf(students, courses) :
                              left(c, order) - left(d, order) \in -1..1 =>
                                  left(c, order') - left(d, order') \in -1..1
<1>1. IInv /\ [Next]_vars => [Level]_order
    <2> SUFFICES ASSUME IInv, [Next]_vars, order' # order, phase = "ordering",
                        NEW a \in CoursesOf(students, courses),
                        NEW b \in CoursesOf(students, courses),
                        Cardinality(Waiting(students, courses, order, a))
                          - Cardinality(Waiting(students, courses, order, b)) \in -1..1
                 PROVE  Cardinality(Waiting(students, courses, order', a))
                          - Cardinality(Waiting(students, courses, order', b)) \in -1..1
        OBVIOUS
    <2> DEFINE before(x) == Cardinality(Waiting(students, courses, order, x))
               after(x) == Cardinality(Waiting(students, courses, order', x))
               c == NextCourse(students, courses, order)
               i == NextInTurn(students, courses, order)
    <2>1. OrderNext
        BY DEF Next, vars, RejectDuplicateRooms, RejectMissingTopology, CollectSeats,
               OrderDone, SeatNext, LeaveOut, Return
    <2>2. /\ i \in Waiting(students, courses, order, c)
          /\ \A d \in CoursesOf(students, courses) : before(d) <= before(c)
        <3>1. CourseId \in SUBSET Nat
            BY CallsAreTyped
        <3>2. /\ students \in Seq(Student) /\ order \in Seq(Student)
              /\ courses \in [Student -> CourseId]
              /\ Distinct(students) /\ Distinct(order)
              /\ Len(order) < Len(students)
            BY <2>1 DEF IInv, TypeOK, ArgumentsSound, OrderDrawn, OrderNext
        <3> QED
            BY <3>1, <3>2, NextInTurnWaits
    <2>3. ASSUME NEW x
          PROVE  /\ before(x) \in Nat
                 /\ after(x) = IF x = c THEN before(x) - 1 ELSE before(x)
        <3> DEFINE w == Waiting(students, courses, order, x)
        <3>1. IsFiniteSet(w) /\ Cardinality(w) \in Nat
            BY WaitingFinite DEF IInv, TypeOK
        <3>2. i \in w <=> x = c
            BY <2>2 DEF Waiting
        <3>3. after(x) = Cardinality(w \ {i})
            BY <2>1, TurnTakesOne
        <3> HIDE DEF i, c
        <3>4. Cardinality(w \ {i}) = IF i \in w THEN Cardinality(w) - 1 ELSE Cardinality(w)
            BY <3>1, FS_RemoveElement
        <3> QED
            BY <3>1, <3>2, <3>3, <3>4
    <2> HIDE DEF before, after, c
    <2>4. before(a) - before(b) \in -1..1
        BY DEF before
    <2>5. after(a) - after(b) \in -1..1
        <3>1. before(a) <= before(c) /\ before(b) <= before(c)
            BY <2>2
        <3>2. CASE a = c /\ b = c
            BY <2>3, <2>4, <3>2
        <3>3. CASE a = c /\ b # c
            BY <2>3, <2>4, <3>1, <3>3
        <3>4. CASE a # c /\ b = c
            BY <2>3, <2>4, <3>1, <3>4
        <3>5. CASE a # c /\ b # c
            BY <2>3, <2>4, <3>5
        <3> QED
            BY <3>2, <3>3, <3>4, <3>5
    <2> QED
        BY <2>5 DEF after
<1> QED
    BY <1>1, InvariantHolds, PTL DEF Spec, LevelCoursesStayLevel
=============================================================================
