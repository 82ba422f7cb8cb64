-------------------------- MODULE SeatingPlanProofs -------------------------
(***************************************************************************)
(* Lemmas about the seats a strategy scans, used by the proofs about both  *)
(* strategies.                                                             *)
(***************************************************************************)
EXTENDS SeatingPlan, TLAPS, NaturalsInduction, WellFoundedInduction,
        FiniteSetTheorems, SequenceTheorems

\* A non-empty set of naturals has a least element.
LEMMA LeastNatural ==
    ASSUME NEW T \in SUBSET Nat, T # {}
    PROVE  \E m \in T : \A k \in T : m <= k
<1>1. \E m \in T : \A k \in T : ~(<<k, m>> \in OpToRel(<, Nat))
    BY NatLessThanWellFounded, WFMin
<1>2. PICK m \in T : \A k \in T : ~(<<k, m>> \in OpToRel(<, Nat))
    BY <1>1
<1>3. ASSUME NEW k \in T PROVE m <= k
    <2>1. ~(k < m)
        BY <1>2 DEF OpToRel
    <2> QED
        BY <2>1
<1> QED
    BY <1>3

\* A finite set of positive numbers no larger than c that is not empty has a
\* greatest element.
LEMMA GreatestNatural ==
    ASSUME NEW c \in Nat, NEW T \in SUBSET (1..c), T # {}
    PROVE  \E m \in T : \A k \in T : k <= m
<1> DEFINE D == {c - k : k \in T}
<1>0. \A k \in T : k \in Nat /\ k <= c
    OBVIOUS
<1>1. D \in SUBSET Nat /\ D # {}
    <2>1. \A k \in T : c - k \in Nat
        BY <1>0
    <2> QED
        BY <2>1
<1>2. PICK d \in D : \A e \in D : d <= e
    BY <1>1, LeastNatural
<1>3. PICK m \in T : d = c - m
    BY <1>2
<1>4. ASSUME NEW k \in T PROVE k <= m
    <2>1. c - k \in D
        OBVIOUS
    <2>2. d <= c - k
        BY <1>2, <2>1
    <2> QED
        BY <1>3, <2>2
<1> QED
    BY <1>4

\* usable_positions()[:target] has at most target seats.
LEMMA FirstSeatsBounded ==
    ASSUME NEW room \in RoomRecord, NEW target \in Nat
    PROVE  /\ IsFiniteSet(FirstSeats(room, target))
           /\ Cardinality(FirstSeats(room, target)) <= target
<1> DEFINE U == UsableSeats(room)
           F == FirstSeats(room, target)
<1>1. room.capacity \in Nat /\ U \subseteq 1..room.capacity /\ F \subseteq U
    BY DEF RoomRecord, UsableSeats, SeatNumbers, FirstSeats
<1>2. IsFiniteSet(1..room.capacity)
    BY <1>1, FS_Interval
<1>3. IsFiniteSet(U) /\ IsFiniteSet(F)
    BY <1>1, <1>2, FS_Subset
<1>4. CASE F = {}
    BY <1>3, <1>4, FS_EmptySet
<1>5. CASE F # {}
    <2>1. F \in SUBSET (1..room.capacity)
        BY <1>1
    <2> HIDE DEF F
    <2>2. PICK x \in F : \A k \in F : k <= x
        BY <1>1, <1>5, <2>1, GreatestNatural
    <2> DEFINE L == {m \in U : m <= x}
    <2>3. Cardinality(L) <= target
        BY <2>2 DEF F, FirstSeats
    <2>4. F \subseteq L
        BY <1>1, <2>2
    <2>5. L \subseteq U
        OBVIOUS
    <2> HIDE DEF L, U
    <2>6. IsFiniteSet(L)
        BY <1>3, <2>5, FS_Subset
    <2>7. Cardinality(F) <= Cardinality(L)
        BY <2>4, <2>6, FS_Subset
    <2>8. Cardinality(F) \in Nat /\ Cardinality(L) \in Nat
        BY <1>3, <2>6, FS_CardinalityType
    <2> QED
        BY <1>3, <2>3, <2>7, <2>8 DEF F
<1> QED
    BY <1>4, <1>5

\* The usable seats of a room can be counted and are no more than its capacity.
LEMMA UsableFinite ==
    ASSUME NEW room \in RoomRecord
    PROVE  /\ IsFiniteSet(UsableSeats(room))
           /\ Cardinality(UsableSeats(room)) \in Nat
           /\ Cardinality(UsableSeats(room)) <= room.capacity
<1> DEFINE c == room.capacity
<1>1. c \in Nat /\ UsableSeats(room) \in SUBSET (1..c)
    BY DEF RoomRecord, UsableSeats, SeatNumbers
<1> HIDE DEF c
<1>2. /\ IsFiniteSet(1..c)
      /\ Cardinality(1..c) = IF 1 > c THEN 0 ELSE c - 1 + 1
    BY <1>1, FS_Interval
<1>3. Cardinality(1..c) = c
    BY <1>1, <1>2
<1>4. IsFiniteSet(UsableSeats(room)) /\ Cardinality(UsableSeats(room)) <= c
    BY <1>1, <1>2, <1>3, FS_Subset
<1> QED
    BY <1>4, FS_CardinalityType DEF c

\* A target that the usable seats can meet is met exactly.
LEMMA FirstSeatsExact ==
    ASSUME NEW room \in RoomRecord, NEW target \in Nat,
           target <= Cardinality(UsableSeats(room))
    PROVE  Cardinality(FirstSeats(room, target)) = target
<1> DEFINE U == UsableSeats(room)
           F == FirstSeats(room, target)
<1>1. IsFiniteSet(U) /\ Cardinality(U) \in Nat
    BY UsableFinite
<1>2. /\ IsFiniteSet(F) /\ Cardinality(F) <= target /\ Cardinality(F) \in Nat
    BY FirstSeatsBounded, FS_CardinalityType
<1>3. F \subseteq U /\ U \subseteq Nat
    BY DEF FirstSeats, UsableSeats, SeatNumbers, RoomRecord
<1>4. CASE F = U
    BY <1>1, <1>2, <1>4
<1>5. CASE F # U
    <2> HIDE DEF F, U
    <2>1. U \ F \in SUBSET Nat /\ U \ F # {}
        BY <1>3, <1>5
    <2>2. PICK x \in U \ F : \A k \in U \ F : x <= k
        BY <2>1, LeastNatural
    <2> DEFINE L == {m \in U : m <= x}
               B == L \ {x}
    <2>3. ~(Cardinality(L) <= target)
        BY <2>2 DEF F, U, FirstSeats
    <2>4. L \subseteq U /\ x \in L /\ B \subseteq F
        <3>1. L \subseteq U
            OBVIOUS
        <3>2. x \in U /\ x \in Nat
            BY <1>3
        <3>3. ASSUME NEW m \in U, m <= x, m # x PROVE m \in F
            <4>1. m \in Nat
                BY <1>3
            <4>2. m \notin F => x <= m
                BY <2>2
            <4> QED
                BY <3>2, <3>3, <4>1, <4>2
        <3>4. x \in L
            BY <3>2
        <3>5. B \subseteq F
            BY <3>3
        <3> QED
            BY <3>1, <3>4, <3>5
    <2> HIDE DEF L
    <2>5. IsFiniteSet(L) /\ Cardinality(L) \in Nat
        BY <1>1, <2>4, FS_Subset, FS_CardinalityType
    <2>6. Cardinality(B) = Cardinality(L) - 1
        BY <2>4, <2>5, FS_RemoveElement
    <2> HIDE DEF B
    <2>7. Cardinality(B) <= Cardinality(F)
        BY <1>2, <2>4, FS_Subset
    <2> QED
        BY <1>2, <2>3, <2>5, <2>6, <2>7 DEF F
<1> QED
    BY <1>4, <1>5

\* A target equal to the number of usable seats takes them all.
LEMMA FirstSeatsAll ==
    ASSUME NEW room \in RoomRecord
    PROVE  FirstSeats(room, Cardinality(UsableSeats(room))) = UsableSeats(room)
<1> DEFINE U == UsableSeats(room)
           F == FirstSeats(room, Cardinality(U))
<1>1. IsFiniteSet(U) /\ Cardinality(U) \in Nat
    BY UsableFinite
<1>2. F \in SUBSET U
    BY DEF FirstSeats
<1>3. Cardinality(F) = Cardinality(U)
    BY <1>1, FirstSeatsExact
<1> HIDE DEF U, F
<1>4. F = U
    BY <1>1, <1>2, <1>3, FS_Subset
<1> QED
    BY <1>4 DEF F, U

\* What is assumed of a strategy's arguments about rooms.
RoomArguments(rooms, allocations, layout) ==
    /\ allocations \in Seq([room : rooms, allocated : Nat])
    /\ layout \in [rooms -> RoomRecord]

\* Every candidate seat belongs to the room its order names, and is a usable
\* seat of that room.
LEMMA CandidateSeats ==
    ASSUME NEW rooms, NEW allocations, NEW layout,
           RoomArguments(rooms, allocations, layout),
           NEW p \in Candidates(allocations, layout)
    PROVE  /\ p \in [order : Nat, room : rooms, seat : Nat]
           /\ p.order \in DOMAIN allocations
           /\ p.room = allocations[p.order].room
           /\ p.seat \in UsableSeats(layout[p.room])
<1>1. PICK i \in DOMAIN allocations :
          \E n \in FirstSeats(layout[allocations[i].room], TargetOf(allocations, layout, i)) :
              p = [order |-> i, room |-> allocations[i].room, seat |-> n]
    BY DEF Candidates
<1>2. PICK n \in FirstSeats(layout[allocations[i].room], TargetOf(allocations, layout, i)) :
          p = [order |-> i, room |-> allocations[i].room, seat |-> n]
    BY <1>1
<1>3. i \in Nat /\ allocations[i].room \in rooms
    <2>1. allocations \in Seq([room : rooms, allocated : Nat])
        BY DEF RoomArguments
    <2>2. i \in 1..Len(allocations)
        BY <2>1
    <2>3. allocations[i] \in [room : rooms, allocated : Nat]
        BY <2>1, <2>2, ElementOfSeq
    <2> QED
        BY <2>2, <2>3
<1>4. n \in UsableSeats(layout[allocations[i].room]) /\ n \in Nat
    <2>1. layout[allocations[i].room].capacity \in Nat
        BY <1>3 DEF RoomArguments, RoomRecord
    <2> QED
        BY <2>1 DEF FirstSeats, UsableSeats, SeatNumbers
<1> QED
    BY <1>2, <1>3, <1>4

\* When no room is listed twice, a candidate is determined by its room and seat
\* number.
LEMMA CandidateIdentity ==
    ASSUME NEW rooms, NEW allocations, NEW layout,
           RoomArguments(rooms, allocations, layout),
           RoomsDistinct(allocations),
           NEW p \in Candidates(allocations, layout),
           NEW q \in Candidates(allocations, layout),
           p.room = q.room, p.seat = q.seat
    PROVE  p = q
<1>1. p.order = q.order
    BY CandidateSeats DEF RoomsDistinct
<1> QED
    BY <1>1, CandidateSeats

\* The target of an allocation never exceeds the seats it was allocated.
LEMMA TargetBounded ==
    ASSUME NEW rooms, NEW allocations, NEW layout,
           RoomArguments(rooms, allocations, layout),
           NEW i \in DOMAIN allocations
    PROVE  /\ TargetOf(allocations, layout, i) \in Nat
           /\ TargetOf(allocations, layout, i) <= allocations[i].allocated
           /\ allocations[i].allocated \in Nat
           /\ layout[allocations[i].room] \in RoomRecord
<1>1. allocations[i] \in [room : rooms, allocated : Nat]
    <2>1. allocations \in Seq([room : rooms, allocated : Nat]) /\ i \in 1..Len(allocations)
        BY DEF RoomArguments
    <2> QED
        BY <2>1, ElementOfSeq
<1>2. layout[allocations[i].room] \in RoomRecord
    BY <1>1 DEF RoomArguments
<1>3. /\ Cardinality(UsableSeats(layout[allocations[i].room])) \in Nat
      /\ layout[allocations[i].room].capacity \in Nat
    BY <1>2, UsableFinite DEF RoomRecord
<1> QED
    BY <1>1, <1>2, <1>3 DEF TargetOf, Min3

\* The target is one of the two limits that matter; the capacity of a room is
\* never below its usable seats.
LEMMA TargetIsALimit ==
    ASSUME NEW rooms, NEW allocations, NEW layout,
           RoomArguments(rooms, allocations, layout),
           NEW i \in DOMAIN allocations
    PROVE  LET usable == Cardinality(UsableSeats(layout[allocations[i].room]))
               target == TargetOf(allocations, layout, i)
           IN  target <= usable /\ (target = allocations[i].allocated \/ target = usable)
<1> DEFINE room == layout[allocations[i].room]
<1>1. /\ room \in RoomRecord /\ room.capacity \in Nat
      /\ allocations[i].allocated \in Nat
    BY TargetBounded DEF RoomRecord
<1>2. /\ Cardinality(UsableSeats(room)) \in Nat
      /\ Cardinality(UsableSeats(room)) <= room.capacity
    BY <1>1, UsableFinite
<1> QED
    BY <1>1, <1>2 DEF TargetOf, Min3

\* When no room is listed twice, the candidates of a room are the first seats of
\* its only allocation.
LEMMA CandidatesOfRoom ==
    ASSUME NEW rooms, NEW allocations, NEW layout,
           RoomArguments(rooms, allocations, layout),
           RoomsDistinct(allocations),
           NEW i \in DOMAIN allocations,
           NEW p \in Candidates(allocations, layout),
           p.room = allocations[i].room
    PROVE  p.seat \in FirstSeats(layout[allocations[i].room],
                                 TargetOf(allocations, layout, i))
<1>1. PICK j \in DOMAIN allocations :
          \E n \in FirstSeats(layout[allocations[j].room], TargetOf(allocations, layout, j)) :
              p = [order |-> j, room |-> allocations[j].room, seat |-> n]
    BY DEF Candidates
<1>2. j = i
    BY <1>1 DEF RoomsDistinct
<1> QED
    BY <1>1, <1>2

\* The scan order has a first element on every non-empty set of candidates:
\* FirstOf is one of the seats it is given.
LEMMA FirstOfIsMember ==
    ASSUME NEW rooms, NEW allocations, NEW layout,
           RoomArguments(rooms, allocations, layout),
           NEW seats \in SUBSET Candidates(allocations, layout), seats # {}
    PROVE  /\ FirstOf(seats) \in seats
           /\ \A q \in seats : FirstOf(seats) = q \/ Before(FirstOf(seats), q)
<1> DEFINE orders == {p.order : p \in seats}
<1>1. orders \in SUBSET Nat /\ orders # {}
    BY CandidateSeats
<1>2. PICK k \in orders : \A o \in orders : k <= o
    BY <1>1, LeastNatural
<1> DEFINE numbers == {p.seat : p \in {x \in seats : x.order = k}}
<1>3. numbers \in SUBSET Nat /\ numbers # {}
    BY <1>2, CandidateSeats
<1>4. PICK n \in numbers : \A m \in numbers : n <= m
    BY <1>3, LeastNatural
<1>5. PICK p \in seats : p.order = k /\ p.seat = n
    BY <1>4
<1>6. ASSUME NEW q \in seats PROVE p = q \/ Before(p, q)
    <2>1. p.order \in Nat /\ q.order \in Nat /\ p.seat \in Nat /\ q.seat \in Nat
        BY CandidateSeats
    <2>2. p.order <= q.order
        BY <1>2, <1>5
    <2>3. CASE p.order < q.order
        BY <2>3 DEF Before
    <2>4. CASE p.order = q.order
        <3>1. p.seat <= q.seat
            BY <1>4, <1>5, <2>4
        <3>2. CASE p.seat < q.seat
            BY <2>4, <3>2 DEF Before
        <3>3. CASE p.seat = q.seat
            <4>1. p.room = q.room
                BY <2>4, CandidateSeats
            <4>2. p \in [order : Nat, room : rooms, seat : Nat]
                  /\ q \in [order : Nat, room : rooms, seat : Nat]
                BY CandidateSeats
            <4> QED
                BY <2>4, <3>3, <4>1, <4>2
        <3> QED
            BY <2>1, <3>1, <3>2, <3>3
    <2> QED
        BY <2>1, <2>2, <2>3, <2>4
<1> QED
    BY <1>6 DEF FirstOf
-----------------------------------------------------------------------------
\* Every record of an assignment list seats its student on one of `seats`.
SeatedOn(assignments, seats) ==
    \A i \in DOMAIN assignments :
        \E p \in seats : assignments[i].room = p.room /\ assignments[i].seat = p.seat

\* Every one of `seats` is the seat of some record.
AllTaken(assignments, seats) ==
    \A p \in seats :
        \E i \in DOMAIN assignments :
            assignments[i].room = p.room /\ assignments[i].seat = p.seat

\* Students on different candidate seats never exceed what a room is allocated:
\* those of one room sit on different seats among the first of its allocation.
LEMMA LimitsOfCandidates ==
    ASSUME NEW rooms, NEW allocations, NEW layout, NEW assignments,
           RoomArguments(rooms, allocations, layout),
           RoomsDistinct(allocations),
           CollisionFree(assignments),
           SeatedOn(assignments, Candidates(allocations, layout))
    PROVE  WithinLimits(assignments, allocations, layout)
<1>1. ASSUME NEW i \in DOMAIN assignments
      PROVE  assignments[i].seat \in
                 (1..layout[assignments[i].room].capacity)
                     \ layout[assignments[i].room].blocked
    <2>1. PICK p \in Candidates(allocations, layout) :
              assignments[i].room = p.room /\ assignments[i].seat = p.seat
        BY DEF SeatedOn
    <2>2. p.seat \in UsableSeats(layout[p.room])
        BY <2>1, CandidateSeats
    <2> QED
        BY <2>1, <2>2 DEF UsableSeats, SeatNumbers
<1>2. ASSUME NEW k \in DOMAIN allocations
      PROVE  Cardinality(SeatedIn(assignments, allocations[k].room))
                 <= allocations[k].allocated
    <2> DEFINE target == TargetOf(allocations, layout, k)
               here == SeatedIn(assignments, allocations[k].room)
               seats == FirstSeats(layout[allocations[k].room], target)
               seatOf == [i \in here |-> assignments[i].seat]
    <2>1. /\ target \in Nat /\ target <= allocations[k].allocated
          /\ allocations[k].allocated \in Nat
          /\ layout[allocations[k].room] \in RoomRecord
        BY TargetBounded
    <2>2. ASSUME NEW i \in here PROVE assignments[i].seat \in seats
        <3>1. i \in DOMAIN assignments /\ assignments[i].room = allocations[k].room
            BY DEF SeatedIn
        <3>2. PICK p \in Candidates(allocations, layout) :
                  assignments[i].room = p.room /\ assignments[i].seat = p.seat
            BY <3>1 DEF SeatedOn
        <3> QED
            BY <3>1, <3>2, CandidatesOfRoom
    <2>3. \A i, j \in here : seatOf[i] = seatOf[j] => i = j
        BY DEF SeatedIn, CollisionFree
    <2>4. seatOf \in [here -> seats]
        BY <2>2
    <2>5. \A i, j \in DOMAIN seatOf : seatOf[i] = seatOf[j] => i = j
        BY <2>3
    <2>6. IsFiniteSet(seats) /\ Cardinality(seats) <= target
        BY <2>1, FirstSeatsBounded
    <2> HIDE DEF seatOf, here, seats, target
    <2>7. seatOf \in Injection(here, seats)
        BY <2>4, <2>5 DEF Injection, IsInjective
    <2>8. IsFiniteSet(here) /\ Cardinality(here) <= Cardinality(seats)
        BY <2>6, <2>7, FS_Injection
    <2>9. Cardinality(here) \in Nat /\ Cardinality(seats) \in Nat
        BY <2>6, <2>8, FS_CardinalityType
    <2>10. Cardinality(here) <= allocations[k].allocated
        BY <2>1, <2>6, <2>8, <2>9
    <2> QED
        BY <2>10 DEF here
<1> QED
    BY <1>1, <1>2 DEF WithinLimits

\* When every candidate seat is taken, no room can take another student.
LEMMA AllTakenMeansFull ==
    ASSUME NEW rooms, NEW allocations, NEW layout, NEW assignments,
           RoomArguments(rooms, allocations, layout),
           RoomsDistinct(allocations),
           IsFiniteSet(DOMAIN assignments),
           SeatedOn(assignments, Candidates(allocations, layout)),
           AllTaken(assignments, Candidates(allocations, layout))
    PROVE  RoomsFull(assignments, allocations, layout)
<1> SUFFICES ASSUME NEW k \in DOMAIN allocations
             PROVE  LET here == SeatedIn(assignments, allocations[k].room)
                        room == layout[allocations[k].room]
                    IN  \/ Cardinality(here) >= allocations[k].allocated
                        \/ {assignments[i].seat : i \in here}
                               = (1..room.capacity) \ room.blocked
    BY DEF RoomsFull
<1> DEFINE room == layout[allocations[k].room]
           target == TargetOf(allocations, layout, k)
           here == SeatedIn(assignments, allocations[k].room)
           seats == FirstSeats(room, target)
<1>1. /\ room \in RoomRecord /\ target \in Nat
      /\ target <= Cardinality(UsableSeats(room))
      /\ target = allocations[k].allocated \/ target = Cardinality(UsableSeats(room))
    BY TargetBounded, TargetIsALimit
<1>2. {assignments[i].seat : i \in here} = seats
    <2>1. ASSUME NEW i \in here PROVE assignments[i].seat \in seats
        <3>1. i \in DOMAIN assignments /\ assignments[i].room = allocations[k].room
            BY DEF SeatedIn
        <3>2. PICK p \in Candidates(allocations, layout) :
                  assignments[i].room = p.room /\ assignments[i].seat = p.seat
            BY <3>1 DEF SeatedOn
        <3> QED
            BY <3>1, <3>2, CandidatesOfRoom
    <2>2. ASSUME NEW n \in seats PROVE \E i \in here : assignments[i].seat = n
        <3> DEFINE p == [order |-> k, room |-> allocations[k].room, seat |-> n]
        <3>1. p \in Candidates(allocations, layout)
            BY DEF Candidates
        <3>2. PICK i \in DOMAIN assignments :
                  assignments[i].room = p.room /\ assignments[i].seat = p.seat
            BY <3>1 DEF AllTaken
        <3> QED
            BY <3>2 DEF SeatedIn
    <2> QED
        BY <2>1, <2>2
<1>3. CASE target = Cardinality(UsableSeats(room))
    <2>1. seats = (1..room.capacity) \ room.blocked
        BY <1>1, <1>3, FirstSeatsAll DEF UsableSeats, SeatNumbers
    <2> QED
        BY <1>2, <2>1
<1>4. CASE target = allocations[k].allocated
    <2>1. here \subseteq DOMAIN assignments
        BY DEF SeatedIn
    <2>2. IsFiniteSet(here)
        BY <2>1, FS_Subset
    <2> DEFINE seatOf == [i \in here |-> assignments[i].seat]
    <2>3. seatOf \in [here -> seats] /\ \A n \in seats : \E i \in here : seatOf[i] = n
        BY <1>2
    <2>4. Cardinality(seats) = target
        BY <1>1, FirstSeatsExact
    <2> HIDE DEF seatOf, here, seats, target, room
    <2>5. seatOf \in Surjection(here, seats)
        BY <2>3 DEF Surjection
    <2>6. Cardinality(seats) <= Cardinality(here) /\ Cardinality(here) \in Nat
        BY <2>2, <2>5, FS_Surjection, FS_CardinalityType
    <2>7. Cardinality(here) >= allocations[k].allocated
        BY <1>1, <1>4, <2>4, <2>6
    <2> QED
        BY <2>7 DEF here
<1> QED
    BY <1>1, <1>3, <1>4

\* A sequence without repetitions has as many members as places.
LEMMA DistinctMembers ==
    ASSUME NEW S, NEW seq \in Seq(S),
           \A i, j \in DOMAIN seq : seq[i] = seq[j] => i = j
    PROVE  /\ IsFiniteSet({seq[i] : i \in DOMAIN seq})
           /\ Cardinality({seq[i] : i \in DOMAIN seq}) = Len(seq)
<1> DEFINE T == {seq[i] : i \in DOMAIN seq}
           f == [i \in 1..Len(seq) |-> seq[i]]
<1>1. Len(seq) \in Nat /\ DOMAIN seq = 1..Len(seq)
    OBVIOUS
<1>2. /\ f \in [1..Len(seq) -> T]
      /\ \A i, j \in 1..Len(seq) : f[i] = f[j] => i = j
      /\ \A t \in T : \E i \in 1..Len(seq) : f[i] = t
    BY <1>1
<1> HIDE DEF f, T
<1>3. ExistsBijection(1..Len(seq), T)
    BY <1>2 DEF ExistsBijection, Bijection, Injection, Surjection, IsInjective
<1>4. IsFiniteSet(T) /\ Cardinality(T) = Len(seq)
    <2>1. IsFiniteSet(T)
        BY <1>1, <1>3, FS_NatBijection
    <2>2. Cardinality(T) = Len(seq)
        BY <1>1, <1>3, FS_CountingElements
    <2> QED
        BY <2>1, <2>2
<1> QED
    BY <1>4 DEF T

-----------------------------------------------------------------------------
\* What is left of a finite set without one of its elements is smaller.
LEMMA SmallerSet ==
    ASSUME NEW B, IsFiniteSet(B), NEW A \in SUBSET B, NEW b \in B, b \notin A
    PROVE  /\ IsFiniteSet(A) /\ Cardinality(A) \in Nat /\ Cardinality(B) \in Nat
           /\ Cardinality(A) < Cardinality(B)
<1>1. /\ IsFiniteSet(A) /\ Cardinality(A) <= Cardinality(B)
      /\ Cardinality(B) = Cardinality(A) => B = A
    BY FS_Subset
<1>2. Cardinality(A) \in Nat /\ Cardinality(B) \in Nat
    BY <1>1, FS_CardinalityType
<1>3. Cardinality(B) # Cardinality(A)
    BY <1>1
<1> QED
    BY <1>1, <1>2, <1>3

\* A function takes no more values on a finite set than the set has elements.
LEMMA FiniteImage ==
    ASSUME NEW S, IsFiniteSet(S), NEW f, DOMAIN f = S
    PROVE  /\ IsFiniteSet({f[x] : x \in S})
           /\ Cardinality({f[x] : x \in S}) <= Cardinality(S)
<1> DEFINE T == {f[x] : x \in S}
           g == [x \in S |-> f[x]]
<1>1. g \in Surjection(S, T)
    BY DEF Surjection
<1> HIDE DEF g, T
<1>2. IsFiniteSet(T) /\ Cardinality(T) <= Cardinality(S)
    BY <1>1, FS_Surjection
<1> QED
    BY <1>2 DEF T

\* The chosen elements of a sequence are a sequence, one for each chosen place.
LEMMA ChosenIsSequence ==
    ASSUME NEW S, NEW seq \in Seq(S), NEW places \in SUBSET (DOMAIN seq)
    PROVE  /\ Chosen(seq, places) \in Seq(S)
           /\ IsFiniteSet(places)
           /\ Len(Chosen(seq, places)) = Cardinality(places)
           /\ \A n \in DOMAIN Chosen(seq, places) :
                 \E i \in places : Chosen(seq, places)[n] = seq[i]
<1> DEFINE upTo(i) == {j \in places : j <= i}
           rank == [i \in places |-> Cardinality(upTo(i))]
           c == Cardinality(places)
<1>1. places \subseteq 1..Len(seq) /\ Len(seq) \in Nat
    OBVIOUS
<1>2. IsFiniteSet(1..Len(seq))
    BY <1>1, FS_Interval
<1>3. IsFiniteSet(places) /\ c \in Nat
    BY <1>1, <1>2, FS_Subset, FS_CardinalityType
<1>4. ASSUME NEW i \in places
      PROVE  IsFiniteSet(upTo(i)) /\ Cardinality(upTo(i)) \in 1..c
    <2>1. upTo(i) \in SUBSET places /\ i \in upTo(i)
        BY <1>1
    <2> HIDE DEF upTo
    <2>2. IsFiniteSet(upTo(i)) /\ Cardinality(upTo(i)) <= c
        BY <1>3, <2>1, FS_Subset
    <2>3. Cardinality(upTo(i)) \in Nat /\ Cardinality(upTo(i)) # 0
        BY <2>1, <2>2, FS_CardinalityType, FS_EmptySet
    <2> QED
        BY <1>3, <2>2, <2>3
<1>5. ASSUME NEW i \in places, NEW j \in places, i < j
      PROVE  Cardinality(upTo(i)) < Cardinality(upTo(j))
    <2>1. upTo(i) \in SUBSET upTo(j) /\ j \in upTo(j) /\ j \notin upTo(i)
        BY <1>1, <1>5
    <2>2. IsFiniteSet(upTo(j))
        BY <1>4
    <2> HIDE DEF upTo
    <2> QED
        BY <2>1, <2>2, SmallerSet
<1>6. rank \in [places -> 1..c]
    <2> HIDE DEF upTo, c
    <2> QED
        BY <1>4
<1>7. ASSUME NEW i \in places, NEW j \in places, rank[i] = rank[j] PROVE i = j
    <2> DEFINE ri == Cardinality(upTo(i))
               rj == Cardinality(upTo(j))
    <2>1. ri \in 1..c /\ ri = rj
        <3>1. ri \in 1..c
            BY <1>4
        <3>2. rank[i] = ri /\ rank[j] = rj
            OBVIOUS
        <3> QED
            BY <1>7, <3>1, <3>2
    <2>2. i \in Nat /\ j \in Nat
        BY <1>1
    <2>3. /\ i < j => ri < rj
          /\ j < i => rj < ri
        BY <1>5
    <2> HIDE DEF ri, rj, c
    <2> QED
        BY <1>3, <2>1, <2>2, <2>3
<1>8. rank \in Injection(places, 1..c)
    <2> HIDE DEF rank, c
    <2> QED
        BY <1>6, <1>7 DEF Injection, IsInjective
<1>9. \A n \in 1..c : \E i \in places : rank[i] = n
    <2> HIDE DEF rank, c
    <2>1. IsFiniteSet(1..c) /\ Cardinality(1..c) = c
        BY <1>3, FS_Interval
    <2>2. rank \in Surjection(places, 1..c)
        BY <1>3, <1>8, <2>1, FS_Injection DEF c
    <2> QED
        BY <2>2 DEF Surjection
<1> DEFINE place(n) == CHOOSE i \in places : Cardinality(upTo(i)) = n
<1>10. \A n \in 1..c : place(n) \in places
    <2>1. \A n \in 1..c : \E i \in places : Cardinality(upTo(i)) = n
        BY <1>9
    <2> HIDE DEF upTo, c
    <2> QED
        BY <2>1
<1>11. Chosen(seq, places) = [n \in 1..c |-> seq[place(n)]]
    BY DEF Chosen
<1>12. \A n \in 1..c : seq[place(n)] \in S
    <2> HIDE DEF place, c
    <2> QED
        BY <1>1, <1>10, ElementOfSeq
<1> HIDE DEF place, c
<1>13. [n \in 1..c |-> seq[place(n)]] \in [1..c -> S]
    BY <1>12
<1>14. Chosen(seq, places) \in Seq(S) /\ Len(Chosen(seq, places)) = c
    BY <1>3, <1>11, <1>13
<1>15. ASSUME NEW n \in DOMAIN Chosen(seq, places)
       PROVE  \E i \in places : Chosen(seq, places)[n] = seq[i]
    BY <1>10, <1>11
<1> QED
    BY <1>3, <1>14, <1>15 DEF c

\* What a seating needs to know of its rooms; what is allocated may be any sum.
Placeable(rooms, allocations, layout) ==
    /\ IsFiniteSet(DOMAIN allocations) /\ DOMAIN allocations \subseteq Nat
    /\ \A i \in DOMAIN allocations : allocations[i].room \in rooms
    /\ layout \in [rooms -> RoomRecord]

\* The candidate seats can be counted, and each is a usable seat of its room.
LEMMA CandidatesFinite ==
    ASSUME NEW rooms, NEW allocations, NEW layout, Placeable(rooms, allocations, layout)
    PROVE  /\ IsFiniteSet(Candidates(allocations, layout))
           /\ \A p \in Candidates(allocations, layout) :
                 /\ p \in [order : Nat, room : rooms, seat : Nat]
                 /\ p.order \in DOMAIN allocations
                 /\ p.room = allocations[p.order].room
                 /\ p.seat \in UsableSeats(layout[p.room])
<1> DEFINE I == DOMAIN allocations
           room(i) == allocations[i].room
           seats(i) == FirstSeats(layout[room(i)], TargetOf(allocations, layout, i))
           at(i) == {[order |-> i, room |-> room(i), seat |-> n] : n \in seats(i)}
<1>1. ASSUME NEW i \in I
      PROVE  /\ i \in Nat /\ room(i) \in rooms /\ layout[room(i)] \in RoomRecord
             /\ seats(i) \in SUBSET UsableSeats(layout[room(i)])
             /\ seats(i) \in SUBSET Nat
    <2>1. i \in Nat /\ room(i) \in rooms /\ layout[room(i)] \in RoomRecord
        BY DEF Placeable
    <2>2. layout[room(i)].capacity \in Nat
        BY <2>1 DEF RoomRecord
    <2>3. UsableSeats(layout[room(i)]) \in SUBSET Nat
        BY <2>2 DEF UsableSeats, SeatNumbers
    <2>4. seats(i) \in SUBSET UsableSeats(layout[room(i)])
        BY DEF FirstSeats
    <2> QED
        BY <2>1, <2>3, <2>4
<1>2. ASSUME NEW i \in I PROVE IsFiniteSet(at(i))
    <2> DEFINE f == [n \in seats(i) |-> [order |-> i, room |-> room(i), seat |-> n]]
    <2>1. IsFiniteSet(seats(i))
        BY <1>1, UsableFinite, FS_Subset
    <2>2. at(i) = {f[n] : n \in seats(i)} /\ DOMAIN f = seats(i)
        OBVIOUS
    <2> HIDE DEF f, at, seats
    <2> QED
        BY <2>1, <2>2, FiniteImage
<1>3. Candidates(allocations, layout) = UNION {at(i) : i \in I}
    BY DEF Candidates
<1>4. IsFiniteSet({at(i) : i \in I})
    <2> DEFINE g == [i \in I |-> at(i)]
               all == {at(i) : i \in I}
    <2>1. all = {g[i] : i \in I} /\ DOMAIN g = I
        OBVIOUS
    <2>2. IsFiniteSet(I)
        BY DEF Placeable
    <2> HIDE DEF g, all, I
    <2>3. IsFiniteSet(all)
        BY <2>1, <2>2, FiniteImage
    <2> QED
        BY <2>3 DEF all
<1>5. IsFiniteSet(UNION {at(i) : i \in I})
    <2> DEFINE all == {at(i) : i \in I}
    <2>1. \A T \in all : IsFiniteSet(T)
        BY <1>2
    <2> HIDE DEF all
    <2> QED
        BY <1>4, <2>1, FS_UNION DEF all
<1>6. ASSUME NEW p \in Candidates(allocations, layout)
      PROVE  /\ p \in [order : Nat, room : rooms, seat : Nat]
             /\ p.order \in DOMAIN allocations
             /\ p.room = allocations[p.order].room
             /\ p.seat \in UsableSeats(layout[p.room])
    <2>1. PICK i \in I : p \in at(i)
        BY <1>3
    <2>2. PICK n \in seats(i) : p = [order |-> i, room |-> room(i), seat |-> n]
        BY <2>1
    <2>3. n \in Nat /\ n \in UsableSeats(layout[room(i)])
        BY <1>1
    <2> HIDE DEF seats
    <2> QED
        BY <1>1, <2>2, <2>3
<1> QED
    BY <1>3, <1>5, <1>6

\* Different candidates come at different places of the scanning order.
LEMMA PlacesDiffer ==
    ASSUME NEW rooms, NEW allocations, NEW layout, Placeable(rooms, allocations, layout),
           NEW p \in Candidates(allocations, layout),
           NEW q \in Candidates(allocations, layout),
           Cardinality({x \in Candidates(allocations, layout) : Before(x, p)})
             = Cardinality({x \in Candidates(allocations, layout) : Before(x, q)})
    PROVE  p = q
<1> DEFINE seats == Candidates(allocations, layout)
           earlier(a) == {x \in seats : Before(x, a)}
<1>1. /\ IsFiniteSet(seats)
      /\ \A a \in seats : /\ a \in [order : Nat, room : rooms, seat : Nat]
                          /\ a.room = allocations[a.order].room
    BY CandidatesFinite
<1>2. ASSUME NEW a \in seats, NEW b \in seats, Before(a, b)
      PROVE  Cardinality(earlier(a)) < Cardinality(earlier(b))
    <2>1. a \in earlier(b) /\ a \notin earlier(a)
        BY <1>1, <1>2 DEF Before
    <2>2. \A x \in seats : Before(x, a) => Before(x, b)
        BY <1>1, <1>2 DEF Before
    <2>3. earlier(a) \in SUBSET earlier(b)
        BY <2>2
    <2>4. IsFiniteSet(earlier(b))
        <3>1. earlier(b) \in SUBSET seats
            OBVIOUS
        <3> HIDE DEF earlier, seats
        <3> QED
            BY <1>1, <3>1, FS_Subset
    <2> HIDE DEF earlier
    <2> QED
        BY <2>1, <2>3, <2>4, SmallerSet
<1>3. ASSUME NEW a \in seats PROVE Cardinality(earlier(a)) \in Nat
    <2>1. earlier(a) \in SUBSET seats
        OBVIOUS
    <2> HIDE DEF earlier, seats
    <2> QED
        BY <1>1, <2>1, FS_Subset, FS_CardinalityType
<1>4. p = q \/ Before(p, q) \/ Before(q, p)
    <2>1. /\ p \in [order : Nat, room : rooms, seat : Nat]
          /\ q \in [order : Nat, room : rooms, seat : Nat]
          /\ p.room = allocations[p.order].room
          /\ q.room = allocations[q.order].room
        BY <1>1
    <2>2. p.order = q.order /\ p.seat = q.seat => p = q
        BY <2>1
    <2> QED
        BY <2>1, <2>2 DEF Before
<1> QED
    <2> DEFINE np == Cardinality(earlier(p))
               nq == Cardinality(earlier(q))
    <2>1. np \in Nat /\ nq \in Nat /\ np = nq
        BY <1>3
    <2>2. /\ Before(p, q) => np < nq
          /\ Before(q, p) => nq < np
        BY <1>2
    <2> HIDE DEF np, nq
    <2> QED
        BY <1>4, <2>1, <2>2

\* Where every participant has a place of its own in the order and students differ,
\* a seating gives each at most one seat, and no seat to two of them.
LEMMA SeatingOfSound ==
    ASSUME NEW rooms, NEW allocations, NEW layout, Placeable(rooms, allocations, layout),
           RoomsDistinct(allocations),
           NEW D, IsFiniteSet(D), NEW ahead, DOMAIN ahead = D,
           \A x, y \in D : ahead[x] = ahead[y] => x = y,
           \A x, y \in D : x # y => x.student # y.student
    PROVE  LET plan == SeatingOf(ahead, Candidates(allocations, layout))
           IN  /\ IsFiniteSet(plan) /\ Cardinality(plan) <= Cardinality(D)
               /\ \A z \in plan :
                     /\ z.room \in rooms /\ z.seat \in UsableSeats(layout[z.room])
                     /\ \E x \in D : z = [student |-> x.student, exam |-> x.exam,
                                          room |-> z.room, seat |-> z.seat]
               /\ \A z, w \in plan : z # w =>
                     /\ z.student # w.student
                     /\ z.room # w.room \/ z.seat # w.seat
<1> DEFINE seats == Candidates(allocations, layout)
           place(p) == Cardinality({q \in seats : Before(q, p)})
           plan == SeatingOf(ahead, seats)
           record(x, p) == [student |-> x.student, exam |-> x.exam,
                            room |-> p.room, seat |-> p.seat]
<1>1. ASSUME NEW p \in seats, NEW q \in seats, place(p) = place(q) PROVE p = q
    BY <1>1, PlacesDiffer
<1>2. ASSUME NEW p \in seats, NEW q \in seats, p.room = q.room, p.seat = q.seat
      PROVE  p = q
    <2>1. /\ p \in [order : Nat, room : rooms, seat : Nat] /\ p.order \in DOMAIN allocations
          /\ p.room = allocations[p.order].room
          /\ q \in [order : Nat, room : rooms, seat : Nat] /\ q.order \in DOMAIN allocations
          /\ q.room = allocations[q.order].room
        BY CandidatesFinite
    <2>2. p.order = q.order
        BY <1>2, <2>1 DEF RoomsDistinct
    <2> QED
        BY <1>2, <2>1, <2>2
<1>3. ASSUME NEW z \in plan
      PROVE  \E x \in D, p \in seats : ahead[x] = place(p) /\ z = record(x, p)
    <2>1. PICK xp \in {yq \in (DOMAIN ahead) \X seats : ahead[yq[1]] = place(yq[2])} :
              z = record(xp[1], xp[2])
        BY DEF SeatingOf
    <2>2. xp[1] \in D /\ xp[2] \in seats /\ ahead[xp[1]] = place(xp[2])
        BY <2>1
    <2> QED
        BY <2>1, <2>2
<1> HIDE DEF plan, place
<1>4. ASSUME NEW z \in plan, NEW x \in D, NEW p \in seats,
             ahead[x] = place(p), z = record(x, p)
      PROVE  /\ z.room \in rooms /\ z.seat \in UsableSeats(layout[z.room])
             /\ z = [student |-> x.student, exam |-> x.exam, room |-> z.room, seat |-> z.seat]
    <2>1. p.room \in rooms /\ p.seat \in UsableSeats(layout[p.room])
        BY CandidatesFinite
    <2> QED
        BY <1>4, <2>1
<1>5. ASSUME NEW z \in plan, NEW w \in plan, z # w,
             NEW x \in D, NEW p \in seats, ahead[x] = place(p), z = record(x, p),
             NEW y \in D, NEW q \in seats, ahead[y] = place(q), w = record(y, q)
      PROVE  /\ z.student # w.student
             /\ z.room # w.room \/ z.seat # w.seat
             /\ x # y
    <2> HIDE DEF seats
    <2>1. x = y <=> p = q
        <3>1. x = y => place(p) = place(q)
            BY <1>5
        <3>2. p = q => ahead[x] = ahead[y]
            BY <1>5
        <3> QED
            BY <1>1, <3>1, <3>2
    <2>2. x # y /\ p # q
        BY <1>5, <2>1
    <2>3. x.student # y.student
        BY <2>2
    <2>4. p.room # q.room \/ p.seat # q.seat
        BY <1>2, <2>2
    <2> QED
        BY <1>5, <2>2, <2>3, <2>4
<1>6. IsFiniteSet(plan) /\ Cardinality(plan) <= Cardinality(D)
    <2> DEFINE of(z, x) == \E p \in seats : ahead[x] = place(p) /\ z = record(x, p)
               f == [z \in plan |-> CHOOSE x \in D : of(z, x)]
    <2>1. ASSUME NEW z \in plan PROVE f[z] \in D /\ of(z, f[z])
        <3>1. \E x \in D : of(z, x)
            BY <1>3
        <3> HIDE DEF of
        <3> QED
            BY <3>1
    <2>2. f \in [plan -> D]
        <3>1. \A z \in plan : f[z] \in D
            BY <2>1
        <3> HIDE DEF of
        <3> QED
            BY <3>1
    <2>3. ASSUME NEW z \in plan, NEW w \in plan, f[z] = f[w] PROVE z = w
        <3>1. PICK p \in seats : ahead[f[z]] = place(p) /\ z = record(f[z], p)
            BY <2>1
        <3>2. PICK q \in seats : ahead[f[w]] = place(q) /\ w = record(f[w], q)
            BY <2>1
        <3>3. f[z] \in D /\ f[w] \in D
            BY <2>1
        <3> HIDE DEF f, record
        <3> QED
            BY <1>5, <2>3, <3>1, <3>2, <3>3
    <2>4. f \in Injection(plan, D)
        <3> HIDE DEF f
        <3> QED
            BY <2>2, <2>3 DEF Injection, IsInjective
    <2> QED
        BY <2>4, FS_Injection
<1>7. ASSUME NEW z \in plan
      PROVE  /\ z.room \in rooms /\ z.seat \in UsableSeats(layout[z.room])
             /\ \E x \in D : z = [student |-> x.student, exam |-> x.exam,
                                  room |-> z.room, seat |-> z.seat]
    <2>1. PICK x \in D, p \in seats : ahead[x] = place(p) /\ z = record(x, p)
        BY <1>3
    <2> QED
        BY <1>4, <2>1
<1>8. ASSUME NEW z \in plan, NEW w \in plan, z # w
      PROVE  /\ z.student # w.student
             /\ z.room # w.room \/ z.seat # w.seat
    <2>1. PICK x \in D, p \in seats : ahead[x] = place(p) /\ z = record(x, p)
        BY <1>3
    <2>2. PICK y \in D, q \in seats : ahead[y] = place(q) /\ w = record(y, q)
        BY <1>3
    <2> HIDE DEF record, seats
    <2> QED
        BY <1>5, <1>8, <2>1, <2>2
<1> QED
    BY <1>6, <1>7, <1>8 DEF plan
-----------------------------------------------------------------------------
\* One step of the fold behind SumFunction: g holds the sums over smaller sets.
SumStep(f, g, s) == IF s = {} THEN 0 ELSE f[CHOOSE x \in s : TRUE] + g[s \ {CHOOSE x \in s : TRUE}]

\* The fold's recursive function exists, by induction on the size of the sets.
LEMMA SumsExist ==
    ASSUME NEW S, IsFiniteSet(S), NEW f
    PROVE  \E g : g = [s \in SUBSET S |-> SumStep(f, g, s)]
<1> DEFINE Small(n) == {s \in SUBSET S : Cardinality(s) <= n}
           P(n) == \E g : g = [s \in Small(n) |-> SumStep(f, g, s)]
<1>0. \A s \in SUBSET S : IsFiniteSet(s) /\ Cardinality(s) \in Nat
    BY FS_Subset, FS_CardinalityType
<1>1. P(0)
    <2> DEFINE g == [s \in Small(0) |-> 0]
    <2>1. \A s \in Small(0) : s = {}
        BY <1>0, FS_EmptySet
    <2>2. \A s \in Small(0) : SumStep(f, g, s) = 0
        BY <2>1 DEF SumStep
    <2>3. g = [s \in Small(0) |-> SumStep(f, g, s)]
        BY <2>2
    <2> HIDE DEF g, Small
    <2> QED
        BY <2>3
<1>2. ASSUME NEW n \in Nat, P(n) PROVE P(n + 1)
    <2>1. PICK g : g = [s \in Small(n) |-> SumStep(f, g, s)]
        BY <1>2
    <2> DEFINE h == [s \in Small(n + 1) |-> SumStep(f, g, s)]
    <2>2. Small(n) \subseteq Small(n + 1)
        BY <1>0
    <2>3. \A s \in Small(n) : h[s] = g[s]
        BY <2>1, <2>2
    <2>4. ASSUME NEW s \in Small(n + 1) PROVE SumStep(f, g, s) = SumStep(f, h, s)
        <3> DEFINE x == CHOOSE x \in s : TRUE
        <3>1. CASE s = {}
            BY <3>1 DEF SumStep
        <3>2. CASE s # {}
            <4>1. x \in s
                BY <3>2
            <4>2. Cardinality(s \ {x}) = Cardinality(s) - 1
                BY <1>0, <4>1, FS_RemoveElement
            <4>3. s \ {x} \in Small(n)
                BY <1>0, <4>2
            <4>4. h[s \ {x}] = g[s \ {x}]
                BY <2>3, <4>3
            <4> HIDE DEF h
            <4> QED
                BY <3>2, <4>4 DEF SumStep
        <3> QED
            BY <3>1, <3>2
    <2>5. h = [s \in Small(n + 1) |-> SumStep(f, h, s)]
        BY <2>4
    <2> HIDE DEF h, Small
    <2> QED
        BY <2>5
<1> HIDE DEF P
<1>3. ASSUME NEW n \in Nat PROVE P(n)
    <2> SUFFICES ASSUME ~P(n) PROVE FALSE
        OBVIOUS
    <2> DEFINE T == {m \in Nat : ~P(m)}
    <2>1. PICK m \in T : \A k \in T : m <= k
        BY LeastNatural
    <2>2. m # 0 /\ m \in Nat /\ ~P(m)
        BY <1>1
    <2>3. m - 1 \in Nat /\ ~(m <= m - 1)
        BY <2>2
    <2>4. P(m - 1)
        BY <2>1, <2>3
    <2>5. P((m - 1) + 1)
        BY <1>2, <2>3, <2>4
    <2> QED
        BY <2>2, <2>5
<1>4. Small(Cardinality(S)) = SUBSET S
    BY FS_Subset
<1>5. P(Cardinality(S))
    BY <1>3, FS_CardinalityType
<1> QED
    BY <1>4, <1>5 DEF P

\* What SumFunction computes.
LEMMA SumEquation ==
    ASSUME NEW f, IsFiniteSet(DOMAIN f)
    PROVE  \E g : /\ g = [s \in SUBSET DOMAIN f |-> SumStep(f, g, s)]
                  /\ SumFunction(f) = g[DOMAIN f]
<1> DEFINE S == DOMAIN f
           sums == CHOOSE g : g = [s \in SUBSET S |-> SumStep(f, g, s)]
<1>1. SumFunction(f) = sums[S]
    BY DEF SumFunction, SumFunctionOnSet, FoldFunctionOnSet, MapThenFoldSet, SumStep
<1>2. sums = [s \in SUBSET S |-> SumStep(f, sums, s)]
    BY SumsExist
<1> HIDE DEF sums
<1> QED
    BY <1>1, <1>2

\* A sum of natural numbers is one.
LEMMA SumIsNatural ==
    ASSUME NEW S, IsFiniteSet(S), NEW f \in [S -> Nat]
    PROVE  SumFunction(f) \in Nat
<1>1. PICK g : g = [s \in SUBSET S |-> SumStep(f, g, s)] /\ SumFunction(f) = g[S]
    BY SumEquation
<1>0. \A s \in SUBSET S : IsFiniteSet(s) /\ Cardinality(s) \in Nat
    BY FS_Subset, FS_CardinalityType
<1> DEFINE T == {n \in Nat : \E s \in SUBSET S : Cardinality(s) = n /\ g[s] \notin Nat}
<1>2. CASE T = {}
    BY <1>0, <1>1, <1>2
<1>3. CASE T # {}
    <2>1. PICK n \in T : \A k \in T : n <= k
        BY <1>3, LeastNatural
    <2>2. PICK s \in SUBSET S : Cardinality(s) = n /\ g[s] \notin Nat
        OBVIOUS
    <2>3. g[s] = SumStep(f, g, s)
        BY <1>1
    <2>4. s # {}
        BY <2>2, <2>3 DEF SumStep
    <2> DEFINE x == CHOOSE x \in s : TRUE
    <2>5. x \in s
        BY <2>4
    <2>6. g[s] = f[x] + g[s \ {x}]
        BY <2>3, <2>4 DEF SumStep
    <2>7. s \ {x} \in SUBSET S /\ Cardinality(s \ {x}) = n - 1 /\ n - 1 \in Nat
        <3> HIDE DEF x, T
        <3>1. IsFiniteSet(s) /\ IsFiniteSet(s \ {x}) /\ Cardinality(s \ {x}) = Cardinality(s) - 1
            BY <1>0, <2>5, FS_RemoveElement
        <3>2. Cardinality(s) \in Nat /\ Cardinality(s \ {x}) \in Nat
            BY <3>1, FS_CardinalityType
        <3> QED
            BY <2>2, <3>1, <3>2
    <2>8. g[s \ {x}] \in Nat
        BY <2>1, <2>7
    <2>9. f[x] \in Nat
        BY <2>5
    <2> HIDE DEF x
    <2> QED
        BY <2>2, <2>6, <2>8, <2>9
<1> QED
    BY <1>2, <1>3

\* As many as there are arguments, when no two have the same value.
LEMMA InjectiveImage ==
    ASSUME NEW S, IsFiniteSet(S), NEW f, DOMAIN f = S,
           \A x, y \in S : f[x] = f[y] => x = y
    PROVE  /\ IsFiniteSet({f[x] : x \in S})
           /\ Cardinality({f[x] : x \in S}) = Cardinality(S) /\ Cardinality(S) \in Nat
<1> DEFINE T == {f[x] : x \in S}
           g == [y \in T |-> CHOOSE x \in S : f[x] = y]
<1>1. IsFiniteSet(T) /\ Cardinality(T) <= Cardinality(S)
    BY FiniteImage
<1>2. \A x \in S : f[x] \in T /\ g[f[x]] = x
    OBVIOUS
<1>3. \A y \in T : \E x \in S : y = f[x]
    OBVIOUS
<1>4. DOMAIN g = T
    OBVIOUS
<1> HIDE DEF g, T
<1>5. {g[y] : y \in T} = S
    BY <1>2, <1>3
<1>6. Cardinality({g[y] : y \in T}) <= Cardinality(T)
    BY <1>1, <1>4, FiniteImage
<1>7. Cardinality(T) \in Nat /\ Cardinality(S) \in Nat
    BY <1>1, FS_CardinalityType
<1>8. Cardinality(T) = Cardinality(S)
    BY <1>1, <1>5, <1>6, <1>7
<1> QED
    BY <1>1, <1>7, <1>8 DEF T

\* Different ranks below the number of things ranked leave no rank out.
LEMMA RanksLeaveNoGap ==
    ASSUME NEW S, IsFiniteSet(S), NEW f, DOMAIN f = S,
           \A x, y \in S : f[x] = f[y] => x = y,
           \A x \in S : f[x] \in 0..(Cardinality(S) - 1),
           NEW n \in 0..(Cardinality(S) - 1)
    PROVE  \E x \in S : f[x] = n
<1> DEFINE c == Cardinality(S)
           T == {f[x] : x \in S}
<1>1. IsFiniteSet(T) /\ Cardinality(T) = c /\ c \in Nat
    BY InjectiveImage
<1>2. T \subseteq 0..(c - 1)
    OBVIOUS
<1> HIDE DEF T, c
<1>3. IsFiniteSet(0..(c - 1)) /\ Cardinality(0..(c - 1)) = c
    BY <1>1, FS_Interval
<1>4. n \in T
    <2> SUFFICES ASSUME n \notin T PROVE FALSE
        OBVIOUS
    <2>1. n \in 0..(c - 1)
        BY DEF c
    <2>2. Cardinality(T) < Cardinality(0..(c - 1))
        BY <1>2, <1>3, <2>1, SmallerSet
    <2> QED
        BY <1>1, <1>3, <2>2
<1> QED
    BY <1>4 DEF T

\* When someone is left without a seat, every candidate seat was given away.
LEMMA ShortPlanUsesAll ==
    ASSUME NEW rooms, NEW allocations, NEW layout, Placeable(rooms, allocations, layout),
           NEW D, IsFiniteSet(D), NEW ahead, DOMAIN ahead = D,
           \A x, y \in D : ahead[x] = ahead[y] => x = y,
           \A x \in D : ahead[x] \in 0..(Cardinality(D) - 1),
           \A x, y \in D : x # y => x.student # y.student,
           NEW plan, plan = SeatingOf(ahead, Candidates(allocations, layout)),
           IsFiniteSet(plan), Cardinality(plan) < Cardinality(D),
           NEW p \in Candidates(allocations, layout)
    PROVE  \E z \in plan : z.room = p.room /\ z.seat = p.seat
<1> DEFINE seats == Candidates(allocations, layout)
           before(q) == {o \in seats : Before(o, q)}
           place(q) == Cardinality(before(q))
           n == Cardinality(D)
           m == Cardinality(seats)
           record(x, q) == [student |-> x.student, exam |-> x.exam,
                            room |-> q.room, seat |-> q.seat]
<1>1. ASSUME NEW a \in seats, NEW b \in seats, place(a) = place(b) PROVE a = b
    BY <1>1, PlacesDiffer
<1>2. /\ IsFiniteSet(seats)
      /\ \A a \in seats : a \in [order : Nat, room : rooms, seat : Nat]
    BY CandidatesFinite
<1>3. ASSUME NEW x \in D, NEW q \in seats, ahead[x] = place(q)
      PROVE  record(x, q) \in plan
    <2> DEFINE pairs == {yq \in (DOMAIN ahead) \X seats : ahead[yq[1]] = place(yq[2])}
    <2>1. <<x, q>> \in pairs
        BY <1>3
    <2>2. plan = {record(xp[1], xp[2]) : xp \in pairs}
        BY DEF SeatingOf
    <2> HIDE DEF pairs, record
    <2>3. record(<<x, q>>[1], <<x, q>>[2]) \in plan
        BY <2>1, <2>2
    <2> QED
        BY <2>3
<1>4. n \in Nat /\ m \in Nat
    BY <1>2, FS_CardinalityType
<1>5. ASSUME NEW q \in seats PROVE place(q) \in 0..(m - 1)
    <2>1. q \notin before(q)
        BY <1>2 DEF Before
    <2>2. before(q) \in SUBSET seats
        OBVIOUS
    <2> HIDE DEF before, seats
    <2>3. Cardinality(before(q)) < m /\ Cardinality(before(q)) \in Nat
        BY <1>2, <2>1, <2>2, SmallerSet
    <2> QED
        BY <1>4, <2>3
<1>6. CASE \E x \in D : ahead[x] = place(p)
    <2>1. PICK x \in D : ahead[x] = place(p)
        BY <1>6
    <2>2. record(x, p) \in plan
        BY <1>3, <2>1
    <2> QED
        BY <2>2
<1>7. CASE ~\E x \in D : ahead[x] = place(p)
    <2>1. place(p) \in 0..(m - 1) /\ ~(place(p) \in 0..(n - 1))
        <3> DEFINE b == place(p)
        <3>1. b \in 0..(m - 1)
            BY <1>5
        <3>2. ~\E x \in D : ahead[x] = b
            BY <1>7
        <3> HIDE DEF b
        <3>3. ~(b \in 0..(n - 1))
            BY <3>2, RanksLeaveNoGap
        <3> QED
            BY <3>1, <3>3 DEF b
    <2> DEFINE rank == [q \in seats |-> place(q)]
    <2>2. ASSUME NEW x \in D PROVE \E q \in seats : rank[q] = ahead[x]
        <3>1. ahead[x] \in 0..(n - 1)
            OBVIOUS
        <3> DEFINE b == place(p)
                   a == ahead[x]
        <3>2. a \in 0..(m - 1)
            <4> HIDE DEF a, b, n, m
            <4>1. b \in 0..(m - 1) /\ ~(b \in 0..(n - 1)) /\ a \in 0..(n - 1)
                BY <2>1, <3>1 DEF a, b
            <4> QED
                BY <1>4, <4>1
        <3>3. /\ \A q, o \in seats : rank[q] = rank[o] => q = o
              /\ \A q \in seats : rank[q] \in 0..(m - 1)
              /\ DOMAIN rank = seats
            BY <1>1, <1>5
        <3> HIDE DEF rank, seats
        <3>4. \E q \in seats : rank[q] = a
            BY <1>2, <3>2, <3>3, RanksLeaveNoGap
        <3> QED
            BY <3>4
    <2>3. ASSUME NEW x \in D PROVE \E z \in plan : z.student = x.student
        <3>1. PICK q \in seats : place(q) = ahead[x]
            BY <2>2
        <3>2. record(x, q) \in plan
            BY <1>3, <3>1
        <3> QED
            BY <3>2
    <2> DEFINE f == [x \in D |-> x.student]
               g == [z \in plan |-> z.student]
               S == {f[x] : x \in D}
               T == {g[z] : z \in plan}
    <2>4. Cardinality(S) = n
        <3>1. DOMAIN f = D /\ \A x, y \in D : f[x] = f[y] => x = y
            OBVIOUS
        <3> HIDE DEF f
        <3> QED
            BY <3>1, InjectiveImage
    <2>5. IsFiniteSet(T) /\ Cardinality(T) <= Cardinality(plan)
        <3>1. DOMAIN g = plan
            OBVIOUS
        <3> HIDE DEF g
        <3> QED
            BY <3>1, FiniteImage
    <2>6. S \in SUBSET T
        BY <2>3
    <2> HIDE DEF S, T
    <2>7. Cardinality(S) <= Cardinality(T) /\ Cardinality(T) \in Nat
        BY <2>5, <2>6, FS_Subset, FS_CardinalityType
    <2>8. Cardinality(plan) \in Nat
        BY FS_CardinalityType
    <2>9. FALSE
        BY <1>4, <2>4, <2>5, <2>7, <2>8
    <2> QED
        BY <2>9
<1> QED
    BY <1>6, <1>7

\* A seating gives away candidate seats only.
LEMMA PlanOnCandidates ==
    ASSUME NEW ahead, NEW seats, NEW z \in SeatingOf(ahead, seats)
    PROVE  \E p \in seats : z.room = p.room /\ z.seat = p.seat
<1> DEFINE place(p) == Cardinality({q \in seats : Before(q, p)})
           pairs == {yq \in (DOMAIN ahead) \X seats : ahead[yq[1]] = place(yq[2])}
<1>1. PICK xp \in pairs : z = [student |-> xp[1].student, exam |-> xp[1].exam,
                               room |-> xp[2].room, seat |-> xp[2].seat]
    BY DEF SeatingOf
<1>2. xp[2] \in seats
    OBVIOUS
<1> QED
    BY <1>1, <1>2

\* A plan gives away exactly these seats.
GivesAway(plan, seats) ==
    /\ \A z \in plan : \E p \in seats : z.room = p.room /\ z.seat = p.seat
    /\ \A p \in seats : \E z \in plan : z.room = p.room /\ z.seat = p.seat

\* The seats it gives away in one room.
TakenIn(plan, id) == {a.seat : a \in {b \in plan : b.room = id}}

\* A room whose candidate seats are exactly the ones given away is filled up to what it
\* is allocated, or has no usable seat left.
LEMMA RoomFilled ==
    ASSUME NEW rooms, NEW allocations, NEW layout, Placeable(rooms, allocations, layout),
           RoomsDistinct(allocations), NEW plan,
           GivesAway(plan, Candidates(allocations, layout)),
           NEW i \in DOMAIN allocations, allocations[i].allocated \in Nat
    PROVE  LET taken == TakenIn(plan, allocations[i].room)
           IN  \/ Cardinality(taken) = allocations[i].allocated
               \/ taken = UsableSeats(layout[allocations[i].room])
<1> DEFINE id == allocations[i].room
           room == layout[id]
           taken == TakenIn(plan, id)
           target == TargetOf(allocations, layout, i)
           first == FirstSeats(room, target)
           usable == Cardinality(UsableSeats(room))
           all == Candidates(allocations, layout)
           candidate(j, s) == [order |-> j, room |-> allocations[j].room, seat |-> s]
<1>1. room \in RoomRecord
    BY DEF Placeable
<1>2. usable \in Nat /\ usable <= room.capacity /\ room.capacity \in Nat
    BY <1>1, UsableFinite DEF RoomRecord
<1>3. \/ target = allocations[i].allocated /\ target <= usable
      \/ target = usable
    BY <1>2 DEF TargetOf, Min3
<1>4. ASSUME NEW s \in first PROVE s \in taken
    <2>1. candidate(i, s) \in all
        <3> DEFINE at(j) == {candidate(j, n) : n \in
                                FirstSeats(layout[allocations[j].room],
                                           TargetOf(allocations, layout, j))}
        <3>1. all = UNION {at(j) : j \in DOMAIN allocations}
            BY DEF Candidates
        <3>2. candidate(i, s) \in at(i)
            OBVIOUS
        <3> HIDE DEF at, all, candidate
        <3> QED
            BY <3>1, <3>2
    <2>2. candidate(i, s).room = id /\ candidate(i, s).seat = s
        OBVIOUS
    <2> HIDE DEF candidate, all, first
    <2>3. PICK z \in plan : z.room = id /\ z.seat = s
        BY <2>1, <2>2 DEF all, GivesAway
    <2> QED
        BY <2>3 DEF TakenIn
<1>5. ASSUME NEW s \in taken PROVE s \in first
    <2>1. PICK z \in plan : z.room = id /\ z.seat = s
        BY DEF TakenIn
    <2>2. PICK p \in all : p.room = id /\ p.seat = s
        BY <2>1 DEF GivesAway
    <2>3. PICK j \in DOMAIN allocations :
              \E n \in FirstSeats(layout[allocations[j].room], TargetOf(allocations, layout, j)) :
                  p = candidate(j, n)
        BY DEF Candidates
    <2>4. allocations[j].room = allocations[i].room
        BY <2>2, <2>3
    <2>5. j = i
        BY <2>4 DEF RoomsDistinct
    <2> QED
        BY <2>2, <2>3, <2>5
<1> HIDE DEF first, taken
<1>6. taken = first
    BY <1>4, <1>5
<1>7. CASE target = allocations[i].allocated /\ target <= usable
    <2>1. Cardinality(first) = target
        BY <1>1, <1>7, FirstSeatsExact DEF first
    <2> QED
        BY <1>6, <1>7, <2>1 DEF taken
<1>8. CASE target = usable
    BY <1>1, <1>6, <1>8, FirstSeatsAll DEF first, taken
<1> QED
    BY <1>3, <1>7, <1>8

\* The candidate seats of some of the allocations.
CandidatesAt(all, places) == {p \in all : p.order \in places}

\* The candidate seats of one allocation are as many as its target.
LEMMA CandidatesOfOne ==
    ASSUME NEW rooms, NEW allocations, NEW layout,
           RoomArguments(rooms, allocations, layout),
           NEW i \in DOMAIN allocations
    PROVE  /\ IsFiniteSet(CandidatesAt(Candidates(allocations, layout), {i}))
           /\ Cardinality(CandidatesAt(Candidates(allocations, layout), {i}))
                  = TargetOf(allocations, layout, i)
<1> DEFINE all == Candidates(allocations, layout)
           here == CandidatesAt(all, {i})
           target == TargetOf(allocations, layout, i)
           room == layout[allocations[i].room]
           first == FirstSeats(room, target)
           record(j, n) == [order |-> j, room |-> allocations[j].room, seat |-> n]
           seats(j) == FirstSeats(layout[allocations[j].room], TargetOf(allocations, layout, j))
           at(j) == {record(j, n) : n \in seats(j)}
           f == [n \in first |-> record(i, n)]
<1>1. room \in RoomRecord /\ target \in Nat /\ target <= Cardinality(UsableSeats(room))
    BY TargetBounded, TargetIsALimit
<1>2. IsFiniteSet(first) /\ Cardinality(first) = target
    BY <1>1, FirstSeatsBounded, FirstSeatsExact
<1>3. all = UNION {at(j) : j \in DOMAIN allocations}
    BY DEF Candidates
<1>4. \A j \in DOMAIN allocations : \A p \in at(j) : p.order = j
    OBVIOUS
<1>5. here = at(i)
    <2> HIDE DEF at, all
    <2>1. \A p \in all : \E j \in DOMAIN allocations : p \in at(j)
        BY <1>3
    <2>2. \A p \in at(i) : p \in all
        BY <1>3
    <2> QED
        BY <1>4, <2>1, <2>2 DEF CandidatesAt
<1>6. here = {f[n] : n \in first}
    <2>1. at(i) = {f[n] : n \in first}
        OBVIOUS
    <2> HIDE DEF at, f, here, first
    <2> QED
        BY <1>5, <2>1
<1>7. DOMAIN f = first /\ \A m, n \in first : f[m] = f[n] => m = n
    <2>1. \A n \in first : f[n].seat = n
        OBVIOUS
    <2> QED
        BY <2>1
<1> HIDE DEF here, first, f
<1> QED
    BY <1>2, <1>6, <1>7, InjectiveImage DEF here

\* There are as many candidate seats as the targets of the allocations add up to.
LEMMA CandidatesCounted ==
    ASSUME NEW rooms, NEW allocations, NEW layout,
           RoomArguments(rooms, allocations, layout)
    PROVE  Cardinality(Candidates(allocations, layout))
             = SumFunction([i \in DOMAIN allocations |-> TargetOf(allocations, layout, i)])
<1> DEFINE all == Candidates(allocations, layout)
           D == DOMAIN allocations
           F == [i \in D |-> TargetOf(allocations, layout, i)]
           size(s) == Cardinality(CandidatesAt(all, s))
<1>1. IsFiniteSet(D)
    <2>1. D = 1..Len(allocations) /\ Len(allocations) \in Nat
        BY DEF RoomArguments
    <2> QED
        BY <2>1, FS_Interval
<1>2. PICK g : g = [s \in SUBSET D |-> SumStep(F, g, s)] /\ SumFunction(F) = g[D]
    <2>1. DOMAIN F = D
        OBVIOUS
    <2> HIDE DEF F
    <2> QED
        BY <1>1, <2>1, SumEquation
<1>3. \A s \in SUBSET D : IsFiniteSet(s) /\ Cardinality(s) \in Nat
    BY <1>1, FS_Subset, FS_CardinalityType
<1>4. \A p \in all : p.order \in D
    BY CandidateSeats
<1>5. \A i \in D : /\ IsFiniteSet(CandidatesAt(all, {i}))
                   /\ size({i}) = F[i] /\ F[i] \in Nat
    BY CandidatesOfOne, TargetBounded
<1> HIDE DEF all, F
<1> DEFINE Counted(s) == IsFiniteSet(CandidatesAt(all, s)) /\ size(s) = g[s]
           T == {n \in Nat : \E s \in SUBSET D : Cardinality(s) = n /\ ~Counted(s)}
<1>6. CASE T = {}
    <2>1. Counted(D)
        BY <1>3, <1>6
    <2>2. CandidatesAt(all, D) = all
        BY <1>4 DEF CandidatesAt
    <2> QED
        BY <1>2, <2>1, <2>2 DEF all, F
<1>7. CASE T # {}
    <2>1. PICK n \in T : \A k \in T : n <= k
        BY <1>7, LeastNatural
    <2>2. PICK s \in SUBSET D : Cardinality(s) = n /\ ~Counted(s)
        OBVIOUS
    <2>3. g[s] = SumStep(F, g, s)
        BY <1>2
    <2>4. s # {}
        <3> SUFFICES ASSUME s = {} PROVE FALSE
            OBVIOUS
        <3>1. CandidatesAt(all, s) = {}
            BY DEF CandidatesAt
        <3> QED
            BY <2>2, <2>3, <3>1, FS_EmptySet DEF SumStep
    <2> DEFINE x == CHOOSE x \in s : TRUE
               rest == s \ {x}
    <2>5. x \in s
        BY <2>4
    <2>6. g[s] = F[x] + g[rest]
        BY <2>3, <2>4 DEF SumStep
    <2> HIDE DEF x
    <2>7. rest \in SUBSET D /\ Cardinality(rest) = n - 1 /\ n - 1 \in Nat
        <3> HIDE DEF T
        <3>1. IsFiniteSet(rest) /\ Cardinality(rest) = Cardinality(s) - 1
            BY <1>3, <2>5, FS_RemoveElement
        <3>2. Cardinality(s) \in Nat /\ Cardinality(rest) \in Nat
            BY <1>3
        <3> QED
            BY <2>2, <3>1, <3>2
    <2>8. Counted(rest)
        BY <2>1, <2>7
    <2> DEFINE A == CandidatesAt(all, rest)
               B == CandidatesAt(all, {x})
    <2>9. CandidatesAt(all, s) = A \cup B /\ A \cap B = {}
        BY <2>5 DEF CandidatesAt
    <2>10. IsFiniteSet(A) /\ IsFiniteSet(B) /\ Cardinality(B) = F[x] /\ Cardinality(A) = g[rest]
        BY <1>5, <2>5, <2>8
    <2> HIDE DEF A, B, rest
    <2>11. IsFiniteSet(A \cup B)
           /\ Cardinality(A \cup B) = Cardinality(A) + Cardinality(B) - Cardinality(A \cap B)
        BY <2>10, FS_Union
    <2>12. Cardinality(A) \in Nat /\ Cardinality(B) \in Nat /\ Cardinality(A \cap B) = 0
        BY <2>9, <2>10, FS_CardinalityType, FS_EmptySet
    <2>13. Cardinality(A \cup B) = F[x] + g[rest]
        BY <2>10, <2>11, <2>12
    <2>14. Counted(s)
        BY <2>6, <2>9, <2>11, <2>13
    <2> QED
        BY <2>2, <2>14
<1> QED
    BY <1>6, <1>7
=============================================================================
