---------------------------- MODULE ReportsProofs ---------------------------
(***************************************************************************)
(* Proofs about module Reports.                                            *)
(***************************************************************************)
EXTENDS Reports, SeatingPlanProofs

-----------------------------------------------------------------------------
(***************************************************************************)
(* Lists.                                                                  *)
(***************************************************************************)
ChosenAt(places, n) == CHOOSE i \in places : Cardinality({j \in places : j <= i}) = n

\* The places of a Chosen in ascending order, none left out.
LEMMA ChosenPlaces ==
    ASSUME NEW places \in SUBSET Nat, IsFiniteSet(places)
    PROVE  /\ \A n \in 1..Cardinality(places) : ChosenAt(places, n) \in places
           /\ \A m, n \in 1..Cardinality(places) :
                 m < n => ChosenAt(places, m) < ChosenAt(places, n)
           /\ \A i \in places : \E n \in 1..Cardinality(places) : ChosenAt(places, n) = i
<1> DEFINE upTo(i) == {j \in places : j <= i}
           rank(i) == Cardinality(upTo(i))
           c == Cardinality(places)
<1>1. c \in Nat
    BY FS_CardinalityType
<1>2. ASSUME NEW i \in places PROVE IsFiniteSet(upTo(i)) /\ rank(i) \in 1..c
    <2>1. upTo(i) \in SUBSET places /\ i \in upTo(i)
        OBVIOUS
    <2> HIDE DEF upTo
    <2>2. IsFiniteSet(upTo(i)) /\ rank(i) <= c
        BY <2>1, FS_Subset
    <2>3. rank(i) \in Nat /\ rank(i) # 0
        BY <2>1, <2>2, FS_CardinalityType, FS_EmptySet
    <2> QED
        BY <1>1, <2>2, <2>3
<1>3. ASSUME NEW i \in places, NEW j \in places, i < j PROVE rank(i) < rank(j)
    <2>1. upTo(i) \in SUBSET upTo(j) /\ j \in upTo(j) /\ j \notin upTo(i)
        <3>1. i \in Int /\ j \in Int /\ \A x \in places : x \in Int
            OBVIOUS
        <3>2. j <= j /\ ~(j <= i) /\ \A x \in places : x <= i => x <= j
            BY <1>3, <3>1
        <3> QED
            BY <3>2
    <2>2. IsFiniteSet(upTo(j))
        BY <1>2
    <2> HIDE DEF upTo
    <2> QED
        BY <2>1, <2>2, SmallerSet
<1> HIDE DEF rank, c
<1>4. ASSUME NEW i \in places, NEW j \in places, rank(i) = rank(j) PROVE i = j
    <2>1. rank(i) \in 1..c /\ rank(j) \in 1..c
        BY <1>2
    <2>2. i < j => rank(i) < rank(j)
        BY <1>3
    <2>3. j < i => rank(j) < rank(i)
        BY <1>3
    <2>4. i \in Nat /\ j \in Nat
        OBVIOUS
    <2> QED
        BY <1>1, <1>4, <2>1, <2>2, <2>3, <2>4
<1>5. ASSUME NEW n \in 1..c PROVE \E i \in places : rank(i) = n
    <2> DEFINE f == [i \in places |-> rank(i)]
    <2>1. f \in [places -> 1..c]
        BY <1>2
    <2>2. \A i, j \in places : f[i] = f[j] => i = j
        BY <1>4
    <2>3. \A i \in places : f[i] = rank(i)
        OBVIOUS
    <2> HIDE DEF f
    <2>4. f \in Injection(places, 1..c)
        BY <2>1, <2>2 DEF Injection, IsInjective
    <2>5. IsFiniteSet(1..c) /\ Cardinality(1..c) = c
        BY <1>1, FS_Interval
    <2>6. f \in Surjection(places, 1..c)
        BY <1>1, <2>4, <2>5, FS_Injection DEF c
    <2> QED
        BY <2>3, <2>6 DEF Surjection
<1>6. \A n : ChosenAt(places, n) = CHOOSE i \in places : rank(i) = n
    BY DEF ChosenAt, rank
<1>7. \A n \in 1..c : ChosenAt(places, n) \in places /\ rank(ChosenAt(places, n)) = n
    BY <1>5, <1>6
<1>8. ASSUME NEW m \in 1..c, NEW n \in 1..c, m < n
      PROVE  ChosenAt(places, m) < ChosenAt(places, n)
    <2> DEFINE i == ChosenAt(places, m)
               j == ChosenAt(places, n)
    <2>1. i \in places /\ rank(i) = m /\ j \in places /\ rank(j) = n
        BY <1>7
    <2> HIDE DEF i, j
    <2>2. j < i => rank(j) < rank(i)
        BY <1>3, <2>1
    <2>3. i # j /\ i \in Nat /\ j \in Nat
        BY <1>8, <2>1
    <2>4. ~(n < m)
        BY <1>1, <1>8
    <2>5. i < j
        BY <2>1, <2>2, <2>3, <2>4
    <2> QED
        BY <2>5 DEF i, j
<1>9. ASSUME NEW i \in places PROVE \E n \in 1..c : ChosenAt(places, n) = i
    <2>1. rank(i) \in 1..c
        BY <1>2
    <2>2. ChosenAt(places, rank(i)) = i
        BY <1>4, <1>7, <2>1
    <2> QED
        BY <2>1, <2>2
<1> QED
    BY <1>7, <1>8, <1>9 DEF c

\* Chosen picks elements of the sequence in their order, and all at the places given.
LEMMA ChosenOrder ==
    ASSUME NEW S, NEW seq \in Seq(S), NEW places \in SUBSET (DOMAIN seq)
    PROVE  /\ Chosen(seq, places) \in Seq(S)
           /\ DOMAIN Chosen(seq, places) = 1..Cardinality(places)
           /\ \A n \in DOMAIN Chosen(seq, places) :
                 /\ ChosenAt(places, n) \in places
                 /\ Chosen(seq, places)[n] = seq[ChosenAt(places, n)]
           /\ \A m, n \in DOMAIN Chosen(seq, places) :
                 m < n => ChosenAt(places, m) < ChosenAt(places, n)
           /\ \A i \in places : \E n \in DOMAIN Chosen(seq, places) :
                 ChosenAt(places, n) = i
<1>1. Chosen(seq, places) \in Seq(S) /\ IsFiniteSet(places)
    BY ChosenIsSequence
<1>2. places \in SUBSET Nat
    OBVIOUS
<1>3. Chosen(seq, places) = [n \in 1..Cardinality(places) |-> seq[ChosenAt(places, n)]]
    BY DEF Chosen, ChosenAt
<1>4. DOMAIN Chosen(seq, places) = 1..Cardinality(places)
    BY <1>3
<1> QED
    BY <1>1, <1>2, <1>3, <1>4, ChosenPlaces

-----------------------------------------------------------------------------
(***************************************************************************)
(* Seatings.                                                               *)
(***************************************************************************)
RoomRow == [code : STRING, capacity : Nat, rows : Nat, columns : Nat, blocked : SUBSET Nat]

\* A room of module SeatTopology has no code.
Plain(room) ==
    [capacity |-> room.capacity, rows |-> room.rows, columns |-> room.columns,
     blocked |-> room.blocked]

Layout(table) == [r \in DOMAIN table |-> Plain(table[r])]

\* Rooms of the table, none of them twice.
FitList(list, table) ==
    /\ IsFiniteSet(DOMAIN list) /\ DOMAIN list \subseteq Nat
    /\ \A i \in DOMAIN list : list[i].room \in DOMAIN table
    /\ RoomsDistinct(list)
    /\ \A r \in DOMAIN table : table[r] \in RoomRow

\* The fields of a room the seating strategies read.
LEMMA PlainRooms ==
    ASSUME NEW list, NEW table, FitList(list, table)
    PROVE  /\ Candidates(list, table) = Candidates(list, Layout(table))
           /\ Placeable(DOMAIN table, list, Layout(table))
           /\ \A r \in DOMAIN table : UsableSeats(Layout(table)[r]) = UsableSeats(table[r])
<1> DEFINE plain == Layout(table)
<1>1. ASSUME NEW r \in DOMAIN table
      PROVE  /\ plain[r].capacity = table[r].capacity /\ plain[r].blocked = table[r].blocked
             /\ plain[r] \in RoomRecord
    <2>1. plain[r] = Plain(table[r])
        BY DEF Layout
    <2>2. table[r] \in RoomRow
        BY DEF FitList
    <2> QED
        BY <2>1, <2>2 DEF Plain, RoomRow, RoomRecord
<1>2. DOMAIN plain = DOMAIN table /\ plain = [r \in DOMAIN table |-> plain[r]]
    BY DEF Layout
<1> HIDE DEF plain
<1>3. plain \in [DOMAIN table -> RoomRecord]
    BY <1>1, <1>2
<1>4. \A r \in DOMAIN table : UsableSeats(plain[r]) = UsableSeats(table[r])
    BY <1>1 DEF UsableSeats, SeatNumbers
<1>5. \A r \in DOMAIN table : \A n : FirstSeats(plain[r], n) = FirstSeats(table[r], n)
    BY <1>4 DEF FirstSeats
<1>6. \A i \in DOMAIN list : TargetOf(list, plain, i) = TargetOf(list, table, i)
    <2>1. \A i \in DOMAIN list : list[i].room \in DOMAIN table
        BY DEF FitList
    <2> QED
        BY <1>1, <1>4, <2>1 DEF TargetOf
<1>7. Candidates(list, table) = Candidates(list, plain)
    <2> DEFINE at(l, i) == {[order |-> i, room |-> list[i].room, seat |-> n] :
                              n \in FirstSeats(l[list[i].room], TargetOf(list, l, i))}
    <2>1. \A i \in DOMAIN list : list[i].room \in DOMAIN table
        BY DEF FitList
    <2>2. ASSUME NEW i \in DOMAIN list PROVE at(table, i) = at(plain, i)
        <3>1. FirstSeats(table[list[i].room], TargetOf(list, table, i))
                = FirstSeats(plain[list[i].room], TargetOf(list, plain, i))
            BY <1>5, <1>6, <2>1
        <3> QED
            BY <3>1
    <2>3. /\ Candidates(list, table) = UNION {at(table, i) : i \in DOMAIN list}
          /\ Candidates(list, plain) = UNION {at(plain, i) : i \in DOMAIN list}
        BY DEF Candidates
    <2> HIDE DEF at
    <2>4. {at(table, i) : i \in DOMAIN list} = {at(plain, i) : i \in DOMAIN list}
        BY <2>2
    <2> QED
        BY <2>3, <2>4
<1>8. Placeable(DOMAIN table, list, plain)
    BY <1>3 DEF Placeable, FitList
<1> QED
    BY <1>4, <1>7, <1>8 DEF plain

\* The seats a generation may fill, each of them once.
LEMMA SeatsFit ==
    ASSUME NEW list, NEW table, FitList(list, table)
    PROVE  /\ IsFiniteSet(Candidates(list, table))
           /\ \A p \in Candidates(list, table) :
                 /\ p \in [order : Nat, room : DOMAIN table, seat : Nat]
                 /\ p.order \in DOMAIN list
                 /\ p.room = list[p.order].room
                 /\ p.seat \in UsableSeats(table[p.room])
           /\ \A p, q \in Candidates(list, table) :
                 p.room = q.room /\ p.seat = q.seat => p = q
<1> DEFINE seats == Candidates(list, table)
<1>1. /\ seats = Candidates(list, Layout(table))
      /\ Placeable(DOMAIN table, list, Layout(table))
      /\ \A r \in DOMAIN table : UsableSeats(Layout(table)[r]) = UsableSeats(table[r])
    BY PlainRooms
<1> HIDE DEF seats
<1>2. /\ IsFiniteSet(seats)
      /\ \A p \in seats :
            /\ p \in [order : Nat, room : DOMAIN table, seat : Nat]
            /\ p.order \in DOMAIN list
            /\ p.room = list[p.order].room
            /\ p.seat \in UsableSeats(Layout(table)[p.room])
    BY <1>1, CandidatesFinite
<1>3. \A p \in seats : p.seat \in UsableSeats(table[p.room])
    BY <1>1, <1>2
<1>4. ASSUME NEW p \in seats, NEW q \in seats, p.room = q.room, p.seat = q.seat
      PROVE  p = q
    <2>1. p.order = q.order
        BY <1>2, <1>4 DEF FitList, RoomsDistinct
    <2>2. /\ p \in [order : Nat, room : DOMAIN table, seat : Nat]
          /\ q \in [order : Nat, room : DOMAIN table, seat : Nat]
        BY <1>2
    <2> QED
        BY <1>4, <2>1, <2>2
<1> QED
    BY <1>2, <1>3, <1>4 DEF seats

\* No two candidate seats are the same seat of the same room.
LEMMA SeatPlacesDiffer ==
    ASSUME NEW list, NEW table, FitList(list, table),
           NEW p \in Candidates(list, table), NEW q \in Candidates(list, table),
           Cardinality({x \in Candidates(list, table) : Before(x, p)})
             = Cardinality({x \in Candidates(list, table) : Before(x, q)})
    PROVE  p = q
BY PlainRooms, PlacesDiffer

\* A seat that comes before another one has a lower rank.
LEMMA PlacesAscend ==
    ASSUME NEW list, NEW table, FitList(list, table),
           NEW p \in Candidates(list, table), NEW q \in Candidates(list, table),
           Before(p, q)
    PROVE  Cardinality({x \in Candidates(list, table) : Before(x, p)})
             < Cardinality({x \in Candidates(list, table) : Before(x, q)})
<1> DEFINE seats == Candidates(list, table)
           earlier(a) == {x \in seats : Before(x, a)}
<1>1. /\ IsFiniteSet(seats)
      /\ \A a \in seats : a \in [order : Nat, room : DOMAIN table, seat : Nat]
    BY SeatsFit
<1>2. p \in earlier(q) /\ p \notin earlier(p)
    BY <1>1 DEF Before
<1>3. \A x \in seats : Before(x, p) => Before(x, q)
    BY <1>1 DEF Before
<1>4. earlier(p) \in SUBSET earlier(q) /\ earlier(q) \in SUBSET seats
    BY <1>3
<1> HIDE DEF earlier, seats
<1>5. IsFiniteSet(earlier(q))
    BY <1>1, <1>4, FS_Subset
<1>6. Cardinality(earlier(p)) < Cardinality(earlier(q))
    BY <1>2, <1>4, <1>5, SmallerSet
<1> QED
    BY <1>6 DEF earlier, seats

\* What a generation needs of its roster, and of the students' numbers.
Roster(roster) ==
    /\ IsFiniteSet(roster)
    /\ \A x \in roster : x.course \in Nat /\ x.student \in DOMAIN students
    /\ \A x, y \in roster : x.student = y.student => x = y

NumbersApart ==
    /\ \A s \in DOMAIN students : students[s] \in Nat
    /\ \A s, t \in DOMAIN students : students[s] = students[t] => s = t

\* The sort key puts each of them at a place of its own.
LEMMA AheadAscends ==
    ASSUME NumbersApart, NEW roster, Roster(roster)
    PROVE  /\ DOMAIN Ahead(roster) = roster
           /\ \A x \in roster : Ahead(roster)[x] \in Nat
           /\ \A x, y \in roster : x = y \/ Earlier(x, y) \/ Earlier(y, x)
           /\ \A x, y \in roster : Earlier(x, y) => Ahead(roster)[x] < Ahead(roster)[y]
           /\ \A x, y \in roster : Ahead(roster)[x] = Ahead(roster)[y] => x = y
<1> DEFINE before(z) == {w \in roster : Earlier(w, z)}
<1>1. \A z \in roster : z.course \in Nat /\ students[z.student] \in Nat
    BY DEF NumbersApart, Roster
<1>2. \A x, y \in roster : students[x.student] = students[y.student] => x = y
    BY DEF NumbersApart, Roster
<1>3. \A x, y \in roster : x = y \/ Earlier(x, y) \/ Earlier(y, x)
    BY <1>1, <1>2 DEF Earlier
<1>4. ASSUME NEW a \in roster, NEW b \in roster, Earlier(a, b)
      PROVE  Cardinality(before(a)) < Cardinality(before(b))
    <2>1. a \in before(b) /\ a \notin before(a)
        BY <1>1, <1>4 DEF Earlier
    <2>2. \A w \in roster : Earlier(w, a) => Earlier(w, b)
        BY <1>1, <1>4 DEF Earlier
    <2>3. before(a) \in SUBSET before(b) /\ before(b) \in SUBSET roster
        BY <2>2
    <2> HIDE DEF before
    <2>4. IsFiniteSet(before(b))
        BY <2>3, FS_Subset DEF Roster
    <2> QED
        BY <2>1, <2>3, <2>4, SmallerSet
<1>5. ASSUME NEW a \in roster PROVE Cardinality(before(a)) \in Nat
    <2>1. before(a) \in SUBSET roster
        OBVIOUS
    <2> HIDE DEF before
    <2> QED
        BY <2>1, FS_Subset, FS_CardinalityType DEF Roster
<1>6. DOMAIN Ahead(roster) = roster /\ \A a \in roster : Ahead(roster)[a] = Cardinality(before(a))
    BY DEF Ahead
<1> HIDE DEF before
<1>7. \A x \in roster : Ahead(roster)[x] \in Nat
    BY <1>5, <1>6
<1>8. \A x, y \in roster : Earlier(x, y) => Ahead(roster)[x] < Ahead(roster)[y]
    BY <1>4, <1>6
<1>9. \A x, y \in roster : Ahead(roster)[x] = Ahead(roster)[y] => x = y
    BY <1>3, <1>7, <1>8
<1> QED
    BY <1>3, <1>6, <1>7, <1>8, <1>9

Seated(x, p) ==
    [student |-> x.student, exam |-> x.exam, room |-> p.room, seat |-> p.seat]

\* Students of the roster at seats of the list, two at the same seat never.
SeatedWell(plan, roster, list, table) ==
    /\ \A z \in plan : \E x \in roster, p \in Candidates(list, table) : z = Seated(x, p)
    /\ \A z, w \in plan : z.room = w.room /\ z.seat = w.seat => z = w

\* The order of the seats is the order of the students.
SeatedInOrder(plan, roster, list, table) ==
    \A z, w \in plan : \E x, y \in roster, p, q \in Candidates(list, table) :
        z = Seated(x, p) /\ w = Seated(y, q) /\ (Before(p, q) => Earlier(x, y))

\* The sequential strategy gives a seat each, in the order of the roster.
LEMMA SequentialSeatedWell ==
    ASSUME NumbersApart, NEW roster, Roster(roster),
           NEW list, NEW table, FitList(list, table)
    PROVE  LET plan == SeatingOf(Ahead(roster), Candidates(list, table))
           IN  /\ SeatedWell(plan, roster, list, table)
               /\ SeatedInOrder(plan, roster, list, table)
<1> DEFINE seats == Candidates(list, table)
           ahead == Ahead(roster)
           place(p) == Cardinality({q \in seats : Before(q, p)})
           plan == SeatingOf(ahead, seats)
<1>1. /\ DOMAIN ahead = roster
      /\ \A x \in roster : ahead[x] \in Nat
      /\ \A x, y \in roster : x = y \/ Earlier(x, y) \/ Earlier(y, x)
      /\ \A x, y \in roster : Earlier(x, y) => ahead[x] < ahead[y]
      /\ \A x, y \in roster : ahead[x] = ahead[y] => x = y
    BY AheadAscends
<1> HIDE DEF ahead
<1>2. ASSUME NEW z \in plan
      PROVE  \E x \in roster, p \in seats : ahead[x] = place(p) /\ z = Seated(x, p)
    <2>1. PICK xp \in {yq \in (DOMAIN ahead) \X seats : ahead[yq[1]] = place(yq[2])} :
              z = Seated(xp[1], xp[2])
        BY DEF SeatingOf, Seated
    <2>2. xp[1] \in roster /\ xp[2] \in seats /\ ahead[xp[1]] = place(xp[2])
        BY <1>1, <2>1
    <2> QED
        BY <2>1, <2>2
<1>3. ASSUME NEW p \in seats, NEW q \in seats, Before(p, q) PROVE place(p) < place(q)
    BY <1>3, PlacesAscend
<1>4. \A p, q \in seats : p.room = q.room /\ p.seat = q.seat => p = q
    BY SeatsFit
<1> HIDE DEF plan, place, seats
<1>5. ASSUME NEW z \in plan, NEW w \in plan, z.room = w.room, z.seat = w.seat PROVE z = w
    <2>1. PICK x \in roster, p \in seats : ahead[x] = place(p) /\ z = Seated(x, p)
        BY <1>2
    <2>2. PICK y \in roster, q \in seats : ahead[y] = place(q) /\ w = Seated(y, q)
        BY <1>2
    <2>3. p.room = q.room /\ p.seat = q.seat
        BY <1>5, <2>1, <2>2 DEF Seated
    <2>4. p = q
        BY <1>4, <2>3
    <2>5. x = y
        BY <1>1, <2>1, <2>2, <2>4
    <2> QED
        BY <2>1, <2>2, <2>4, <2>5
<1>6. ASSUME NEW z \in plan, NEW w \in plan
      PROVE  \E x, y \in roster, p, q \in seats :
                 z = Seated(x, p) /\ w = Seated(y, q) /\ (Before(p, q) => Earlier(x, y))
    <2>1. PICK x \in roster, p \in seats : ahead[x] = place(p) /\ z = Seated(x, p)
        BY <1>2
    <2>2. PICK y \in roster, q \in seats : ahead[y] = place(q) /\ w = Seated(y, q)
        BY <1>2
    <2>3. Before(p, q) => ahead[x] < ahead[y]
        BY <1>3, <2>1, <2>2
    <2>4. Before(p, q) => Earlier(x, y)
        BY <1>1, <2>3
    <2> QED
        BY <2>1, <2>2, <2>4
<1>7. \A z \in plan : \E x \in roster, p \in seats : z = Seated(x, p)
    BY <1>2
<1> QED
    BY <1>5, <1>6, <1>7 DEF SeatedWell, SeatedInOrder, seats, plan, ahead

\* Whatever the constraint strategy prefers.
LEMMA ConstraintSeatedWell ==
    ASSUME NEW roster, NEW list, NEW table, FitList(list, table),
           NEW plan \in AnySeatings(roster, Candidates(list, table))
    PROVE  SeatedWell(plan, roster, list, table)
<1> DEFINE seats == Candidates(list, table)
           full == {T \in SUBSET roster :
                      Cardinality(T) = IF Cardinality(roster) < Cardinality(seats)
                                       THEN Cardinality(roster) ELSE Cardinality(seats)}
           with(f, S) == {[student |-> x.student, exam |-> x.exam,
                           room |-> f[x].room, seat |-> f[x].seat] : x \in S}
<1>1. AnySeatings(roster, seats) = UNION {{with(f, S) : f \in Injection(S, seats)} : S \in full}
    BY DEF AnySeatings
<1>2. PICK S \in full : plan \in {with(f, S) : f \in Injection(S, seats)}
    <2> HIDE DEF full, with
    <2> QED
        BY <1>1
<1>3. PICK f \in Injection(S, seats) : plan = with(f, S)
    BY <1>2
<1>4. S \in SUBSET roster
    BY <1>2
<1>5. /\ \A x \in S : f[x] \in seats
      /\ \A x, y \in S : f[x] = f[y] => x = y
    BY <1>3 DEF Injection, IsInjective
<1>6. \A p, q \in seats : p.room = q.room /\ p.seat = q.seat => p = q
    BY SeatsFit
<1> HIDE DEF seats, full
<1>7. ASSUME NEW z \in plan PROVE \E x \in S : z = Seated(x, f[x])
    BY <1>3 DEF Seated
<1>8. \A z \in plan : \E x \in roster, p \in seats : z = Seated(x, p)
    BY <1>4, <1>5, <1>7
<1>9. ASSUME NEW z \in plan, NEW w \in plan, z.room = w.room, z.seat = w.seat PROVE z = w
    <2>1. PICK x \in S : z = Seated(x, f[x])
        BY <1>7
    <2>2. PICK y \in S : w = Seated(y, f[y])
        BY <1>7
    <2>3. f[x].room = f[y].room /\ f[x].seat = f[y].seat
        BY <1>9, <2>1, <2>2 DEF Seated
    <2>4. x = y
        BY <1>5, <1>6, <2>3
    <2> QED
        BY <2>1, <2>2, <2>4
<1> QED
    BY <1>8, <1>9 DEF SeatedWell, seats

-----------------------------------------------------------------------------
(***************************************************************************)
(* The inductive invariant: what the tables say of each other, and, until  *)
(* a reset, what a report has read of them so far.                         *)
(***************************************************************************)
Database ==
    [students |-> students, rooms |-> rooms, exams |-> exams, lines |-> lines,
     sessions |-> sessions]

Generation == [exam : Nat, session : Nat, since : Nat, blocked : Seq(SUBSET Nat)]

Assignment == [student : Nat, exam : Nat, room : Nat, seat : Nat]

SeatRow == [generation : Nat, exam : Nat, room : Nat, seat : Nat, student : Nat]

Line == [exam : Nat, room : Nat, allocated : Nat]

Entry == [room : Nat, code : STRING]

MapPage == [code : STRING, grid : BOOLEAN, cells : UNION {[S -> Nat] : S \in SUBSET Nat}]

Stages ==
    {"generation", "rows", "session", "session_exams", "header", "lines", "lookup",
     "students", "courses", "grids"}

ReportRecord ==
    [kind : Kinds, of : Nat, at : Stages, row : {<<>>} \cup Generation,
     rows : SUBSET SeatRow, ids : Seq(Nat), k : Nat \ {0}, lines : Seq(Line),
     order : Seq(Entry), pages : Seq(MapPage), answer : {"none"}, since : Nat,
     stored : SUBSET SeatRow]

Reading == rep.at \notin {"idle", "sent"}

ReportFields ==
    /\ rep \in ReportRecord
    /\ rep.since <= resets
    /\ rep.at # "generation" => rep.row \in Generation

RunTyped ==
    run # Idle => /\ run.row \in Generation /\ run.row.since <= resets
                  /\ run.plan \in SUBSET Assignment

TypeOK ==
    /\ WellTyped(Database)
    /\ generations \in Seq(Generation)
    /\ seatRows \in SUBSET SeatRow
    /\ resets \in Nat
    /\ overtaken \in BOOLEAN
    /\ RunTyped
    /\ Reading => ReportFields

\* The exams of a generation.
IdsOf(row) == IF row.exam # 0 THEN <<row.exam>> ELSE sessions[row.session]

UsesRoom(e, r) == \E i \in DOMAIN lines : lines[i].exam = e /\ lines[i].room = r

LineBefore(e, r, q) ==
    \E i, j \in DOMAIN lines :
        /\ i < j
        /\ lines[i].exam = e /\ lines[i].room = r
        /\ lines[j].exam = e /\ lines[j].room = q

\* No reset was committed since the generation was planned.
Current(row) == row.since = resets

GenerationSound(row) ==
    /\ \/ row.exam \in DOMAIN exams
       \/ row.exam = 0 /\ row.session \in DOMAIN sessions
    /\ DOMAIN row.blocked = DOMAIN rooms

GenerationsSound ==
    \A g \in DOMAIN generations :
        Current(generations[g]) => GenerationSound(generations[g])

\* An assignment is to a seat of a room of its generation's exams, a seat that was
\* not blocked then.
SeatSound(row, x) ==
    /\ x.exam \in DOMAIN exams /\ x.room \in DOMAIN rooms /\ x.student \in DOMAIN students
    /\ x.seat \in 1..rooms[x.room].capacity
    /\ x.seat \notin row.blocked[x.room]
    /\ \E n \in DOMAIN IdsOf(row) : UsesRoom(IdsOf(row)[n], x.room)

RowSound(x) ==
    /\ x.generation \in DOMAIN generations
    /\ SeatSound(generations[x.generation], x)

OwnSeat(x, y) ==
    x.generation = y.generation /\ x.room = y.room /\ x.seat = y.seat => x = y

SeatedBefore(e, x, y) ==
    LineBefore(e, x.room, y.room) \/ (x.room = y.room /\ x.seat < y.seat)

\* A single exam's students are seated in the order of their numbers.
Ascends(row, x, y) ==
    row.exam # 0 /\ SeatedBefore(row.exam, x, y) => students[x.student] < students[y.student]

InOrder(x, y) == x.generation = y.generation => Ascends(generations[x.generation], x, y)

IsCurrent(x) == Current(generations[x.generation])

RowsSound ==
    /\ \A x \in seatRows : x.generation \in DOMAIN generations
    /\ \A x \in seatRows : IsCurrent(x) => RowSound(x)
    /\ \A x, y \in seatRows : OwnSeat(x, y)
    /\ \A x, y \in seatRows : IsCurrent(x) => InOrder(x, y)

\* What a request is about to store.
RunSound ==
    /\ RunTyped
    /\ run # Idle =>
        /\ \A z, w \in run.plan : z.room = w.room /\ z.seat = w.seat => z = w
        /\ Current(run.row) =>
              /\ GenerationSound(run.row)
              /\ \A z \in run.plan : SeatSound(run.row, z)
              /\ \A z, w \in run.plan : Ascends(run.row, z, w)

TablesSound ==
    /\ WellTyped(Database)
    /\ ~overtaken => Consistent(Database)
    /\ resets \in Nat
    /\ overtaken \in BOOLEAN
    /\ generations \in Seq(Generation)
    /\ seatRows \in SUBSET SeatRow
    /\ GenerationsSound
    /\ RowsSound
-----------------------------------------------------------------------------
(***************************************************************************)
(* What the tables hold.                                                   *)
(***************************************************************************)
LEMMA TablesTyped ==
    ASSUME WellTyped(Database)
    PROVE  /\ students \in Seq(Nat) /\ rooms \in Seq(RoomRow) /\ lines \in Seq(Line)
           /\ exams \in Seq([course : Nat, students : SUBSET (DOMAIN students)])
           /\ sessions \in Seq(Seq(DOMAIN exams))
           /\ NumbersApart
           /\ \A r \in DOMAIN rooms : rooms[r] \in RoomRow
           /\ \A r, q \in DOMAIN rooms : rooms[r].code = rooms[q].code => r = q
           /\ \A e \in DOMAIN exams : exams[e].course \in Nat
                                       /\ exams[e].students \in SUBSET (DOMAIN students)
           /\ \A i, j \in DOMAIN lines :
                 lines[i].exam = lines[j].exam /\ lines[i].room = lines[j].room => i = j
           /\ \A s \in DOMAIN sessions : sessions[s] \in Seq(DOMAIN exams) /\ sessions[s] # <<>>
<1> DEFINE ExamRow == [course : Nat, students : SUBSET (DOMAIN students)]
<1>1. /\ students \in Seq(Nat) /\ rooms \in Seq(RoomRow) /\ lines \in Seq(Line)
      /\ exams \in Seq(ExamRow)
      /\ sessions \in Seq(Seq(DOMAIN exams))
      /\ \A s, t \in DOMAIN students : students[s] = students[t] => s = t
      /\ \A r, q \in DOMAIN rooms : rooms[r].code = rooms[q].code => r = q
      /\ \A i, j \in DOMAIN lines :
            lines[i].exam = lines[j].exam /\ lines[i].room = lines[j].room => i = j
      /\ \A s \in DOMAIN sessions : sessions[s] # <<>>
    BY DEF WellTyped, Database, RoomRow, Line
<1>2. \A s \in DOMAIN students : students[s] \in Nat
    BY <1>1
<1>3. \A r \in DOMAIN rooms : rooms[r] \in RoomRow
    BY <1>1
<1>4. \A e \in DOMAIN exams : exams[e] \in ExamRow
    <2> HIDE DEF ExamRow
    <2> QED
        BY <1>1
<1>6. \A s \in DOMAIN sessions : sessions[s] \in Seq(DOMAIN exams)
    BY <1>1
<1> QED
    BY <1>1, <1>2, <1>3, <1>4, <1>6 DEF NumbersApart

\* Where every reference resolves.
LEMMA TablesResolve ==
    ASSUME Consistent(Database)
    PROVE  /\ WellTyped(Database)
           /\ \A e \in DOMAIN exams : exams[e].course # 0
           /\ \A i \in DOMAIN lines : lines[i].exam \in DOMAIN exams
                                      /\ lines[i].room \in DOMAIN rooms
           /\ \A e, r : UsesRoom(e, r) => r \in DOMAIN rooms
BY DEF Consistent, Database, UsesRoom

In(list, r) == \E i \in DOMAIN list : list[i].room = r

\* The rooms of an exam, in the order of its lines.
LEMMA LinesOfExam ==
    ASSUME WellTyped(Database), NEW e
    PROVE  /\ LinesOf(e) \in Seq(Line)
           /\ \A n \in DOMAIN LinesOf(e) : UsesRoom(e, LinesOf(e)[n].room)
           /\ \A r : UsesRoom(e, r) => In(LinesOf(e), r)
           /\ \A m, n \in DOMAIN LinesOf(e) :
                 LinesOf(e)[m].room = LinesOf(e)[n].room => m = n
           /\ \A m, n \in DOMAIN LinesOf(e) :
                 LineBefore(e, LinesOf(e)[m].room, LinesOf(e)[n].room) <=> m < n
<1> DEFINE places == {i \in DOMAIN lines : lines[i].exam = e}
           at(n) == ChosenAt(places, n)
<1>1. /\ lines \in Seq(Line)
      /\ \A i, j \in DOMAIN lines :
            lines[i].exam = lines[j].exam /\ lines[i].room = lines[j].room => i = j
    BY TablesTyped
<1>2. LinesOf(e) = Chosen(lines, places)
    BY DEF LinesOf
<1>3. /\ places \in SUBSET DOMAIN lines /\ \A i \in places : i \in Nat
      /\ \A i \in places : lines[i].exam = e
      /\ \A i \in DOMAIN lines : lines[i].exam = e => i \in places
    BY <1>1
<1> HIDE DEF places
<1>4. /\ LinesOf(e) \in Seq(Line)
      /\ \A n \in DOMAIN LinesOf(e) : at(n) \in places /\ LinesOf(e)[n] = lines[at(n)]
      /\ \A m, n \in DOMAIN LinesOf(e) : m < n => at(m) < at(n)
      /\ \A i \in places : \E n \in DOMAIN LinesOf(e) : at(n) = i
      /\ DOMAIN LinesOf(e) \in SUBSET Nat
    <2> DEFINE list == Chosen(lines, places)
    <2>1. /\ list \in Seq(Line)
          /\ DOMAIN list = 1..Cardinality(places)
          /\ \A n \in DOMAIN list :
                ChosenAt(places, n) \in places /\ list[n] = lines[ChosenAt(places, n)]
          /\ \A m, n \in DOMAIN list : m < n => ChosenAt(places, m) < ChosenAt(places, n)
          /\ \A i \in places : \E n \in DOMAIN list : ChosenAt(places, n) = i
        BY <1>1, <1>3, ChosenOrder
    <2>2. DOMAIN list \in SUBSET Nat
        BY <2>1
    <2> HIDE DEF list
    <2>3. LinesOf(e) = list
        BY <1>2 DEF list
    <2> QED
        BY <2>1, <2>2, <2>3
<1> HIDE DEF at
<1>5. \A n \in DOMAIN LinesOf(e) : UsesRoom(e, LinesOf(e)[n].room)
    BY <1>1, <1>3, <1>4 DEF UsesRoom
<1>6. \A r : UsesRoom(e, r) => In(LinesOf(e), r)
    BY <1>3, <1>4 DEF UsesRoom, In
<1>7. ASSUME NEW m \in DOMAIN LinesOf(e), NEW n \in DOMAIN LinesOf(e),
             LinesOf(e)[m].room = LinesOf(e)[n].room
      PROVE  m = n
    <2>1. at(m) = at(n)
        <3>1. /\ at(m) \in DOMAIN lines /\ lines[at(m)].exam = e
              /\ at(n) \in DOMAIN lines /\ lines[at(n)].exam = e
            BY <1>3, <1>4
        <3>2. lines[at(m)].room = lines[at(n)].room
            BY <1>4, <1>7
        <3> QED
            BY <1>1, <3>1, <3>2
    <2>2. at(m) \in Nat /\ m \in Nat /\ n \in Nat
        BY <1>3, <1>4
    <2>3. ~(m < n) /\ ~(n < m)
        BY <1>4, <2>1, <2>2
    <2> QED
        BY <2>2, <2>3
<1>8. ASSUME NEW m \in DOMAIN LinesOf(e), NEW n \in DOMAIN LinesOf(e)
      PROVE  LineBefore(e, LinesOf(e)[m].room, LinesOf(e)[n].room) <=> m < n
    <2> DEFINE r == LinesOf(e)[m].room
               q == LinesOf(e)[n].room
    <2>1. /\ at(m) \in DOMAIN lines /\ at(m) \in Nat
          /\ lines[at(m)].exam = e /\ lines[at(m)].room = r
          /\ at(n) \in DOMAIN lines /\ at(n) \in Nat
          /\ lines[at(n)].exam = e /\ lines[at(n)].room = q
          /\ m \in Nat /\ n \in Nat
        BY <1>3, <1>4
    <2> HIDE DEF r, q
    <2>2. LineBefore(e, r, q) <=> at(m) < at(n)
        BY <1>1, <2>1 DEF LineBefore
    <2>3. m < n => at(m) < at(n)
        BY <1>4
    <2>4. n < m => at(n) < at(m)
        BY <1>4
    <2>5. at(m) < at(n) => m < n
        BY <2>1, <2>3, <2>4
    <2> QED
        BY <2>2, <2>3, <2>5 DEF r, q
<1> QED
    BY <1>4, <1>5, <1>6, <1>7, <1>8

\* The lines of one exam are allocations a strategy takes.
LEMMA LinesOfFit ==
    ASSUME WellTyped(Database), NEW e, RoomsKnown(LinesOf(e))
    PROVE  FitList(LinesOf(e), rooms)
<1> DEFINE list == LinesOf(e)
<1>1. /\ list \in Seq(Line)
      /\ \A n \in DOMAIN list : list[n].room \in DOMAIN rooms
      /\ \A m, n \in DOMAIN list : list[m].room = list[n].room => m = n
    BY LinesOfExam DEF RoomsKnown
<1> HIDE DEF list
<1>2. DOMAIN list = 1..Len(list) /\ Len(list) \in Nat
    BY <1>1
<1>3. IsFiniteSet(DOMAIN list) /\ DOMAIN list \subseteq Nat
    BY <1>2, FS_Interval
<1>4. \A r \in DOMAIN rooms : rooms[r] \in RoomRow
    BY TablesTyped
<1> QED
    BY <1>1, <1>3, <1>4 DEF FitList, RoomsDistinct, list

\* One exam more.
LinesStep(g, ids, m) == IF m = 0 THEN <<>> ELSE g[m - 1] \o LinesOf(ids[m])

\* The recursive definition of LinesFrom has a solution, by induction on its length.
LEMMA LinesExist ==
    ASSUME NEW ids, NEW n \in Nat
    PROVE  \E g : g = [m \in 0..n |-> LinesStep(g, ids, m)]
<1> DEFINE P(k) == \E g : g = [m \in 0..k |-> LinesStep(g, ids, m)]
<1>1. P(0)
    <2> DEFINE g == [m \in 0..0 |-> <<>>]
    <2>1. \A m \in 0..0 : LinesStep(g, ids, m) = <<>>
        BY DEF LinesStep
    <2>2. g = [m \in 0..0 |-> LinesStep(g, ids, m)]
        BY <2>1
    <2> HIDE DEF g
    <2> QED
        BY <2>2
<1>2. ASSUME NEW k \in Nat, P(k) PROVE P(k + 1)
    <2>1. PICK g : g = [m \in 0..k |-> LinesStep(g, ids, m)]
        BY <1>2
    <2> DEFINE h == [m \in 0..(k + 1) |-> LinesStep(g, ids, m)]
    <2>2. \A m \in 0..k : h[m] = g[m]
        <3>1. \A m \in 0..k : m \in 0..(k + 1) /\ g[m] = LinesStep(g, ids, m)
            BY <2>1
        <3> QED
            BY <3>1
    <2>3. ASSUME NEW m \in 0..(k + 1) PROVE LinesStep(g, ids, m) = LinesStep(h, ids, m)
        <3>1. CASE m = 0
            BY <3>1 DEF LinesStep
        <3>2. CASE m # 0
            <4>1. m - 1 \in 0..k
                BY <3>2
            <4>2. h[m - 1] = g[m - 1]
                BY <2>2, <4>1
            <4> HIDE DEF h
            <4> QED
                BY <3>2, <4>2 DEF LinesStep
        <3> QED
            BY <3>1, <3>2
    <2>4. h = [m \in 0..(k + 1) |-> LinesStep(h, ids, m)]
        BY <2>3
    <2> HIDE DEF h
    <2> QED
        BY <2>4
<1> HIDE DEF P
<1>3. P(n)
    <2> SUFFICES ASSUME ~P(n) PROVE FALSE
        OBVIOUS
    <2> DEFINE T == {m \in Nat : ~P(m)}
    <2>1. PICK m \in T : \A k \in T : m <= k
        BY LeastNatural
    <2>2. m # 0 /\ m \in Nat /\ ~P(m)
        BY <1>1
    <2>3. m - 1 \in Nat /\ ~(m <= m - 1)
        BY <2>2
    <2>4. P(m - 1)
        BY <2>1, <2>3
    <2>5. P((m - 1) + 1)
        BY <1>2, <2>3, <2>4
    <2> QED
        BY <2>2, <2>5
<1> QED
    BY <1>3 DEF P

\* The lines of the first m exams are those of the first m - 1 and of the m-th.
LEMMA LinesEquation ==
    ASSUME NEW ids, Len(ids) \in Nat
    PROVE  /\ LinesFrom(ids)[0] = <<>>
           /\ \A n \in 1..Len(ids) : LinesFrom(ids)[n] = LinesFrom(ids)[n - 1] \o LinesOf(ids[n])
<1> DEFINE found == LinesFrom(ids)
           step(g, m) == LinesStep(g, ids, m)
<1>1. found = CHOOSE g : g = [m \in 0..Len(ids) |-> step(g, m)]
    BY DEF LinesFrom, LinesStep
<1>2. \E g : g = [m \in 0..Len(ids) |-> step(g, m)]
    BY LinesExist
<1>3. found = [m \in 0..Len(ids) |-> step(found, m)]
    <2> HIDE DEF step, found
    <2> QED
        BY <1>1, <1>2
<1> HIDE DEF found
<1>4. found[0] = <<>>
    BY <1>3 DEF LinesStep
<1>5. ASSUME NEW n \in 1..Len(ids) PROVE found[n] = found[n - 1] \o LinesOf(ids[n])
    <2>1. n \in 0..Len(ids) /\ n # 0
        OBVIOUS
    <2>2. found[n] = step(found, n)
        <3> HIDE DEF step
        <3> QED
            BY <1>3, <2>1
    <2> QED
        BY <2>1, <2>2 DEF LinesStep
<1> QED
    BY <1>4, <1>5 DEF found

\* The rooms of the lines are rooms of these exams.
RoomsOf(list, ids) ==
    /\ list \in Seq(Line)
    /\ \A i \in DOMAIN list : \E n \in DOMAIN ids : UsesRoom(ids[n], list[i].room)

\* They are rows of the table, of rooms one of the exams uses.
LEMMA LinesFromSound ==
    ASSUME WellTyped(Database), NEW S, NEW ids \in Seq(S)
    PROVE  RoomsOf(LinesFrom(ids)[Len(ids)], ids)
<1> DEFINE found == LinesFrom(ids)
           P(n) == RoomsOf(found[n], ids)
<1>1. Len(ids) \in Nat /\ DOMAIN ids = 1..Len(ids)
    OBVIOUS
<1>2. /\ found[0] = <<>>
      /\ \A n \in 1..Len(ids) : found[n] = found[n - 1] \o LinesOf(ids[n])
    BY <1>1, LinesEquation
<1> HIDE DEF found
<1>3. P(0)
    BY <1>2 DEF RoomsOf
<1>4. ASSUME NEW n \in 1..Len(ids), P(n - 1) PROVE P(n)
    <2> DEFINE a == found[n - 1]
               b == LinesOf(ids[n])
    <2>1. a \in Seq(Line) /\ b \in Seq(Line)
        BY <1>4, LinesOfExam DEF RoomsOf
    <2>2. found[n] = a \o b
        BY <1>2
    <2>3. RoomsOf(a, ids)
        BY <1>4
    <2>4. \A i \in DOMAIN b : UsesRoom(ids[n], b[i].room)
        BY LinesOfExam
    <2>5. n \in DOMAIN ids
        BY <1>1
    <2> HIDE DEF a, b
    <2>6. /\ a \o b \in Seq(Line) /\ Len(a \o b) = Len(a) + Len(b)
          /\ \A i \in 1..(Len(a) + Len(b)) :
                (a \o b)[i] = IF i <= Len(a) THEN a[i] ELSE b[i - Len(a)]
        BY <2>1, ConcatProperties
    <2>7. ASSUME NEW i \in DOMAIN (a \o b)
          PROVE  \E m \in DOMAIN ids : UsesRoom(ids[m], (a \o b)[i].room)
        <3>1. /\ i \in 1..(Len(a) + Len(b)) /\ Len(a) \in Nat /\ Len(b) \in Nat
              /\ DOMAIN a = 1..Len(a) /\ DOMAIN b = 1..Len(b)
            BY <2>1, <2>6
        <3>2. CASE i <= Len(a)
            <4>1. i \in DOMAIN a /\ (a \o b)[i] = a[i]
                BY <2>6, <3>1, <3>2
            <4> QED
                BY <2>3, <4>1 DEF RoomsOf
        <3>3. CASE ~(i <= Len(a))
            <4>1. i - Len(a) \in DOMAIN b /\ (a \o b)[i] = b[i - Len(a)]
                BY <2>6, <3>1, <3>3
            <4> QED
                BY <2>4, <2>5, <4>1
        <3> QED
            BY <3>2, <3>3
    <2>8. RoomsOf(a \o b, ids)
        BY <2>6, <2>7 DEF RoomsOf
    <2> QED
        BY <2>2, <2>8
<1> HIDE DEF P
<1>5. P(Len(ids))
    <2> SUFFICES ASSUME ~P(Len(ids)) PROVE FALSE
        OBVIOUS
    <2> DEFINE T == {m \in 0..Len(ids) : ~P(m)}
    <2>1. T \in SUBSET Nat /\ T # {}
        BY <1>1
    <2>2. PICK m \in T : \A k \in T : m <= k
        BY <2>1, LeastNatural
    <2>3. m \in 1..Len(ids) /\ ~P(m)
        BY <1>1, <1>3
    <2>4. m - 1 \in 0..Len(ids) /\ ~(m <= m - 1)
        BY <1>1, <2>3
    <2>5. P(m - 1)
        BY <2>2, <2>4
    <2> QED
        BY <1>4, <2>3, <2>5
<1> QED
    BY <1>5 DEF P, found

\* What a session allocates can be scanned, and only the rooms of its exams are in it.
LEMMA MergedFit ==
    ASSUME WellTyped(Database), NEW ids, NEW found, RoomsOf(found, ids), RoomsKnown(found)
    PROVE  /\ FitList(MergedAllocations(found), rooms)
           /\ \A i \in DOMAIN MergedAllocations(found) : \E n \in DOMAIN ids :
                 UsesRoom(ids[n], MergedAllocations(found)[i].room)
<1> DEFINE list == MergedAllocations(found)
           places == FirstPlaces(found)
<1>1. /\ DOMAIN list = places
      /\ \A i \in places : list[i].room = found[i].room
    BY DEF MergedAllocations
<1>2. DOMAIN found = 1..Len(found) /\ Len(found) \in Nat
    BY DEF RoomsOf
<1>3. /\ places \in SUBSET DOMAIN found
      /\ \A i \in places : \A j \in DOMAIN found : j < i => found[j].room # found[i].room
    BY DEF FirstPlaces
<1> HIDE DEF list, places
<1>4. IsFiniteSet(places) /\ places \in SUBSET Nat
    <2>1. IsFiniteSet(DOMAIN found)
        BY <1>2, FS_Interval
    <2>2. places \in SUBSET Nat
        BY <1>2, <1>3
    <2> QED
        BY <1>3, <2>1, <2>2, FS_Subset
<1>5. \A i, j \in places : found[i].room = found[j].room => i = j
    BY <1>3, <1>4
<1>6. \A i \in places : /\ found[i].room \in DOMAIN rooms
                        /\ \E n \in DOMAIN ids : UsesRoom(ids[n], found[i].room)
    BY <1>3 DEF RoomsOf, RoomsKnown
<1>7. \A r \in DOMAIN rooms : rooms[r] \in RoomRow
    BY TablesTyped
<1>8. FitList(list, rooms)
    BY <1>1, <1>4, <1>5, <1>6, <1>7 DEF FitList, RoomsDistinct
<1>9. \A i \in DOMAIN list : \E n \in DOMAIN ids : UsesRoom(ids[n], list[i].room)
    BY <1>1, <1>6
<1> QED
    BY <1>8, <1>9 DEF list
-----------------------------------------------------------------------------
(***************************************************************************)
(* A generation keeps the tables sound.                                    *)
(***************************************************************************)
LEMMA RosterSound ==
    ASSUME WellTyped(Database), NEW ids \in Seq(DOMAIN exams),
           \A x, y \in RosterOf(ids) : x.student = y.student => x = y
    PROVE  /\ Roster(RosterOf(ids))
           /\ \A x \in RosterOf(ids) : \E n \in DOMAIN ids :
                 x.exam = ids[n] /\ x.exam \in DOMAIN exams /\ x.course = exams[x.exam].course
<1> DEFINE roster == RosterOf(ids)
           of(e) == {[exam |-> e, course |-> exams[e].course, student |-> s] :
                       s \in exams[e].students}
<1>1. /\ \A e \in DOMAIN exams : exams[e].course \in Nat
                                 /\ exams[e].students \in SUBSET (DOMAIN students)
      /\ students \in Seq(Nat)
    BY TablesTyped
<1>2. \A n \in DOMAIN ids : ids[n] \in DOMAIN exams
    BY ElementOfSeq
<1>3. roster = UNION {of(e) : e \in Range(ids)}
    BY DEF RosterOf
<1>4. ASSUME NEW x \in roster
      PROVE  /\ x.course \in Nat /\ x.student \in DOMAIN students
             /\ \E n \in DOMAIN ids :
                   x.exam = ids[n] /\ x.exam \in DOMAIN exams /\ x.course = exams[x.exam].course
    <2>1. PICK e \in Range(ids) : x \in of(e)
        <3> HIDE DEF of
        <3> QED
            BY <1>3
    <2>2. PICK n \in DOMAIN ids : e = ids[n]
        BY DEF Range
    <2>3. PICK s \in exams[e].students :
              x = [exam |-> e, course |-> exams[e].course, student |-> s]
        BY <2>1
    <2>4. e \in DOMAIN exams
        BY <1>2, <2>2
    <2> QED
        BY <1>1, <2>2, <2>3, <2>4
<1>5. IsFiniteSet(roster)
    <2> DEFINE f == [x \in roster |-> x.student]
    <2>1. f \in [roster -> DOMAIN students]
        BY <1>4
    <2>2. \A x, y \in roster : f[x] = f[y] => x = y
        OBVIOUS
    <2> HIDE DEF f, roster
    <2>3. f \in Injection(roster, DOMAIN students)
        BY <2>1, <2>2 DEF Injection, IsInjective
    <2>4. IsFiniteSet(DOMAIN students)
        <3>1. DOMAIN students = 1..Len(students) /\ Len(students) \in Nat
            BY <1>1
        <3> QED
            BY <3>1, FS_Interval
    <2> QED
        BY <2>3, <2>4, FS_Injection
<1> QED
    BY <1>4, <1>5 DEF Roster

\* The assignments of a plan for these exams, or for this one.
PlanFor(plan, exam, ids) ==
    /\ plan \in SUBSET Assignment
    /\ \A z \in plan :
          /\ z.exam \in DOMAIN exams /\ z.room \in DOMAIN rooms /\ z.student \in DOMAIN students
          /\ z.seat \in UsableSeats(rooms[z.room])
          /\ \E n \in DOMAIN ids : UsesRoom(ids[n], z.room)
    /\ \A z, w \in plan : z.room = w.room /\ z.seat = w.seat => z = w
    /\ exam # 0 => \A z, w \in plan :
          SeatedBefore(exam, z, w) => students[z.student] < students[w.student]

\* What a strategy answers is a plan for the generation.
LEMMA SeatedWellIsPlan ==
    ASSUME WellTyped(Database), NEW ids \in Seq(DOMAIN exams),
           \A x, y \in RosterOf(ids) : x.student = y.student => x = y,
           NEW list, FitList(list, rooms),
           \A i \in DOMAIN list : \E n \in DOMAIN ids : UsesRoom(ids[n], list[i].room),
           NEW plan, SeatedWell(plan, RosterOf(ids), list, rooms)
    PROVE  PlanFor(plan, 0, ids)
<1>0. DOMAIN exams \in SUBSET Nat /\ DOMAIN rooms \in SUBSET Nat /\ DOMAIN students \in SUBSET Nat
    <2>1. /\ students \in Seq(Nat) /\ rooms \in Seq(RoomRow)
          /\ exams \in Seq([course : Nat, students : SUBSET (DOMAIN students)])
        BY TablesTyped
    <2>2. /\ DOMAIN students = 1..Len(students) /\ DOMAIN rooms = 1..Len(rooms)
          /\ DOMAIN exams = 1..Len(exams)
        BY <2>1, LenProperties
    <2> QED
        BY <2>2
<1>1. ASSUME NEW z \in plan
      PROVE  /\ z \in Assignment
             /\ z.exam \in DOMAIN exams /\ z.room \in DOMAIN rooms
             /\ z.student \in DOMAIN students
             /\ z.seat \in UsableSeats(rooms[z.room])
             /\ \E n \in DOMAIN ids : UsesRoom(ids[n], z.room)
    <2>1. PICK x \in RosterOf(ids), p \in Candidates(list, rooms) : z = Seated(x, p)
        BY DEF SeatedWell
    <2>2. x.exam \in DOMAIN exams /\ x.student \in DOMAIN students
        BY RosterSound DEF Roster
    <2>3. /\ p \in [order : Nat, room : DOMAIN rooms, seat : Nat]
          /\ p.order \in DOMAIN list /\ p.room = list[p.order].room
          /\ p.seat \in UsableSeats(rooms[p.room])
        BY SeatsFit
    <2>4. \E n \in DOMAIN ids : UsesRoom(ids[n], p.room)
        BY <2>3
    <2>5. z \in Assignment
        BY <1>0, <2>1, <2>2, <2>3 DEF Seated, Assignment
    <2> QED
        BY <2>1, <2>2, <2>3, <2>4, <2>5 DEF Seated
<1> QED
    BY <1>1 DEF PlanFor, SeatedWell

\* The plan for a single exam, in the order of the numbers.
LEMMA ExamPlan ==
    ASSUME WellTyped(Database), NEW e \in DOMAIN exams, RoomsKnown(LinesOf(e)), NEW plan,
           plan = SeatingOf(Ahead(RosterOf(<<e>>)), Candidates(LinesOf(e), rooms))
    PROVE  PlanFor(plan, e, <<e>>)
<1> DEFINE ids == <<e>>
           list == LinesOf(e)
           roster == RosterOf(ids)
<1>1. ids \in Seq(DOMAIN exams) /\ DOMAIN ids = {1} /\ ids[1] = e
    OBVIOUS
<1>2. roster = {[exam |-> e, course |-> exams[e].course, student |-> s] :
                  s \in exams[e].students}
    <2>1. Range(ids) = {e}
        BY <1>1 DEF Range
    <2> QED
        BY <2>1 DEF RosterOf
<1>3. \A x, y \in roster : x.student = y.student => x = y
    BY <1>2
<1>4. /\ FitList(list, rooms)
      /\ \A i \in DOMAIN list : UsesRoom(e, list[i].room)
      /\ \A m, n \in DOMAIN list : LineBefore(e, list[m].room, list[n].room) <=> m < n
    BY LinesOfFit, LinesOfExam
<1>5. /\ Roster(roster)
      /\ \A x \in roster : x.exam = e /\ x.course = exams[e].course
    <2> HIDE DEF ids
    <2>1. Roster(roster)
        BY <1>1, <1>3, RosterSound
    <2> QED
        BY <1>2, <2>1
<1>6. NumbersApart /\ exams[e].course \in Nat
    BY TablesTyped
<1> HIDE DEF ids, list, roster
<1>7. SeatedWell(plan, roster, list, rooms) /\ SeatedInOrder(plan, roster, list, rooms)
    BY <1>4, <1>5, <1>6, SequentialSeatedWell DEF ids, list, roster
<1>8. PlanFor(plan, 0, ids)
    BY <1>1, <1>3, <1>4, <1>7, SeatedWellIsPlan DEF roster
<1>9. ASSUME NEW z \in plan, NEW w \in plan, SeatedBefore(e, z, w)
      PROVE  students[z.student] < students[w.student]
    <2>1. PICK x \in roster, y \in roster, p \in Candidates(list, rooms),
               q \in Candidates(list, rooms) :
              z = Seated(x, p) /\ w = Seated(y, q) /\ (Before(p, q) => Earlier(x, y))
        BY <1>7 DEF SeatedInOrder
    <2>2. /\ p.order \in DOMAIN list /\ p.room = list[p.order].room /\ p.order \in Nat
          /\ q.order \in DOMAIN list /\ q.room = list[q.order].room /\ q.order \in Nat
        BY <1>4, SeatsFit
    <2>3. /\ z.room = p.room /\ z.seat = p.seat /\ w.room = q.room /\ w.seat = q.seat
          /\ z.student = x.student /\ w.student = y.student
        BY <2>1 DEF Seated
    <2>4. Before(p, q)
        <3>1. CASE LineBefore(e, z.room, w.room)
            BY <1>4, <2>2, <2>3, <3>1 DEF Before
        <3>2. CASE z.room = w.room /\ z.seat < w.seat
            <4>1. p.order = q.order
                BY <1>4, <2>2, <2>3, <3>2 DEF FitList, RoomsDistinct
            <4> QED
                BY <2>3, <3>2, <4>1 DEF Before
        <3> QED
            BY <1>9, <3>1, <3>2 DEF SeatedBefore
    <2>5. students[x.student] < students[y.student]
        BY <1>5, <1>6, <2>1, <2>4 DEF Earlier
    <2> QED
        BY <2>3, <2>5
<1> QED
    BY <1>8, <1>9 DEF PlanFor, ids

\* The plan for a session, of either strategy.
LEMMA SessionPlan ==
    ASSUME WellTyped(Database), NEW s \in DOMAIN sessions, NEW plan, NEW seats,
           RoomsKnown(LinesFrom(sessions[s])[Len(sessions[s])]),
           seats = Candidates(MergedAllocations(LinesFrom(sessions[s])[Len(sessions[s])]), rooms),
           \A x, y \in RosterOf(sessions[s]) : x.student = y.student => x = y,
           \/ plan = SeatingOf(Ahead(RosterOf(sessions[s])), seats)
           \/ plan \in AnySeatings(RosterOf(sessions[s]), seats)
    PROVE  PlanFor(plan, 0, sessions[s])
<1> DEFINE ids == sessions[s]
           found == LinesFrom(ids)[Len(ids)]
           list == MergedAllocations(found)
           roster == RosterOf(ids)
<1>1. ids \in Seq(DOMAIN exams) /\ NumbersApart
    BY TablesTyped
<1>2. \A x, y \in roster : x.student = y.student => x = y
    OBVIOUS
<1> HIDE DEF ids
<1>3. RoomsOf(found, ids) /\ RoomsKnown(found)
    BY <1>1, LinesFromSound DEF ids
<1> HIDE DEF found
<1>4. /\ FitList(list, rooms)
      /\ \A i \in DOMAIN list : \E n \in DOMAIN ids : UsesRoom(ids[n], list[i].room)
    BY <1>3, MergedFit
<1>5. Roster(roster)
    BY <1>1, <1>2, RosterSound
<1>6. seats = Candidates(list, rooms)
    BY DEF list, found, ids
<1>7. plan = SeatingOf(Ahead(roster), seats) \/ plan \in AnySeatings(roster, seats)
    BY DEF roster, ids
<1> HIDE DEF list, roster
<1>8. SeatedWell(plan, roster, list, rooms)
    <2>1. CASE plan = SeatingOf(Ahead(roster), seats)
        <3>1. SeatedWell(SeatingOf(Ahead(roster), Candidates(list, rooms)), roster, list, rooms)
            BY <1>1, <1>4, <1>5, SequentialSeatedWell
        <3> QED
            BY <1>6, <2>1, <3>1
    <2>2. CASE plan \in AnySeatings(roster, seats)
        <3>1. plan \in AnySeatings(roster, Candidates(list, rooms))
            BY <1>6, <2>2
        <3> QED
            BY <1>4, <3>1, ConstraintSeatedWell
    <2> QED
        BY <1>7, <2>1, <2>2
<1>9. PlanFor(plan, 0, ids)
    BY <1>1, <1>2, <1>4, <1>8, SeatedWellIsPlan DEF roster
<1> QED
    BY <1>9 DEF ids

\* The exams of the generation that is stored.
GenerationOf(exam, session, ids) ==
    \/ exam \in DOMAIN exams /\ session = 0 /\ ids = <<exam>>
    \/ exam = 0 /\ session \in DOMAIN sessions /\ ids = sessions[session]

RowsOfPlan(g, plan) ==
    {[generation |-> g, exam |-> a.exam, room |-> a.room, seat |-> a.seat,
      student |-> a.student] : a \in plan}

\* What a request is about to store is sound while the tables are those it read.
LEMMA PlannedSound ==
    ASSUME WellTyped(Database), resets \in Nat,
           NEW exam, NEW session, NEW ids, GenerationOf(exam, session, ids),
           NEW plan, PlanFor(plan, exam, ids), NEW row,
           row = [exam |-> exam, session |-> session, since |-> resets,
                  blocked |-> [r \in DOMAIN rooms |-> rooms[r].blocked]]
    PROVE  /\ row \in Generation /\ row.since = resets
           /\ plan \in SUBSET Assignment
           /\ \A z, w \in plan : z.room = w.room /\ z.seat = w.seat => z = w
           /\ GenerationSound(row)
           /\ \A z \in plan : SeatSound(row, z)
           /\ \A z, w \in plan : Ascends(row, z, w)
<1>2. /\ \A r \in DOMAIN rooms : rooms[r] \in RoomRow
      /\ DOMAIN rooms = 1..Len(rooms) /\ Len(rooms) \in Nat
      /\ DOMAIN exams = 1..Len(exams) /\ Len(exams) \in Nat
      /\ DOMAIN sessions = 1..Len(sessions) /\ Len(sessions) \in Nat
      /\ DOMAIN students = 1..Len(students) /\ Len(students) \in Nat
    <2>2. \A r \in DOMAIN rooms : rooms[r] \in RoomRow
        BY TablesTyped
    <2>3. /\ students \in Seq(Nat) /\ rooms \in Seq(RoomRow)
          /\ exams \in Seq([course : Nat, students : SUBSET (DOMAIN students)])
          /\ sessions \in Seq(Seq(DOMAIN exams))
        BY TablesTyped
    <2> QED
        BY <2>2, <2>3, LenProperties
<1>3. row \in Generation
    <2> DEFINE blocked == [r \in DOMAIN rooms |-> rooms[r].blocked]
    <2>1. blocked \in [1..Len(rooms) -> SUBSET Nat]
        BY <1>2 DEF RoomRow
    <2>2. blocked \in Seq(SUBSET Nat)
        BY <1>2, <2>1
    <2>3. exam \in Nat /\ session \in Nat
        BY <1>2 DEF GenerationOf
    <2> HIDE DEF blocked
    <2>4. row = [exam |-> exam, session |-> session, since |-> resets, blocked |-> blocked]
        BY DEF blocked
    <2> QED
        BY <2>2, <2>3, <2>4 DEF Generation
<1>6. /\ row.exam = exam /\ row.session = session
      /\ DOMAIN row.blocked = DOMAIN rooms
      /\ \A r \in DOMAIN rooms : row.blocked[r] = rooms[r].blocked
      /\ IdsOf(row) = ids
    BY <1>2 DEF GenerationOf, IdsOf
<1>7. ASSUME NEW z \in plan PROVE z \in Assignment /\ SeatSound(row, z)
    <2>1. /\ z.exam \in DOMAIN exams /\ z.room \in DOMAIN rooms /\ z.student \in DOMAIN students
          /\ z.seat \in UsableSeats(rooms[z.room])
          /\ \E n \in DOMAIN ids : UsesRoom(ids[n], z.room)
        BY DEF PlanFor
    <2>2. rooms[z.room].capacity \in Nat
        BY <1>2, <2>1 DEF RoomRow
    <2>3. z.seat \in 1..rooms[z.room].capacity /\ z.seat \notin rooms[z.room].blocked
        BY <2>1 DEF UsableSeats, SeatNumbers
    <2>4. z \in Assignment
        BY DEF PlanFor
    <2>5. SeatSound(row, z)
        BY <1>6, <2>1, <2>3 DEF SeatSound
    <2> QED
        BY <2>4, <2>5
<1>8. ASSUME NEW z \in plan, NEW w \in plan PROVE Ascends(row, z, w)
    BY <1>6 DEF PlanFor, Ascends
<1>9. GenerationSound(row)
    BY <1>6 DEF GenerationSound, GenerationOf
<1>10. \A z, w \in plan : z.room = w.room /\ z.seat = w.seat => z = w
    BY DEF PlanFor
<1> QED
    BY <1>3, <1>7, <1>8, <1>9, <1>10

\* The tables after a generation.
Stored(row, new) ==
    /\ generations' = Append(generations, row)
    /\ seatRows' = seatRows \cup new
    /\ students' = students /\ rooms' = rooms /\ exams' = exams
    /\ lines' = lines /\ sessions' = sessions
    /\ overtaken' = overtaken /\ resets' = resets

\* Storing the generation and its rows keeps the tables sound.
LEMMA StoredSound ==
    ASSUME TablesSound, NEW plan \in SUBSET Assignment, NEW row \in Generation,
           \A z, w \in plan : z.room = w.room /\ z.seat = w.seat => z = w,
           Current(row) => /\ GenerationSound(row)
                           /\ \A z \in plan : SeatSound(row, z)
                           /\ \A z, w \in plan : Ascends(row, z, w),
           Stored(row, RowsOfPlan(Len(generations) + 1, plan))
    PROVE  TablesSound'
<1> DEFINE g == Len(generations) + 1
           new == RowsOfPlan(g, plan)
<1>1. /\ generations \in Seq(Generation) /\ Len(generations) \in Nat
      /\ DOMAIN generations = 1..Len(generations) /\ g \in Nat /\ g \notin DOMAIN generations
    BY DEF TablesSound
<1>2. /\ generations' \in Seq(Generation)
      /\ DOMAIN generations' = DOMAIN generations \cup {g}
      /\ \A h \in DOMAIN generations : generations'[h] = generations[h]
      /\ generations'[g] = row
    <2>1. generations' = Append(generations, row)
        BY DEF Stored
    <2>2. /\ Append(generations, row) \in Seq(Generation)
          /\ Len(Append(generations, row)) = g
          /\ \A h \in 1..Len(generations) : Append(generations, row)[h] = generations[h]
          /\ Append(generations, row)[g] = row
        BY <1>1, AppendProperties
    <2>3. DOMAIN Append(generations, row) = 1..g
        BY <2>2
    <2> QED
        BY <1>1, <2>1, <2>2, <2>3
<1>3. /\ seatRows' = seatRows \cup new /\ students' = students /\ rooms' = rooms
      /\ exams' = exams /\ lines' = lines /\ sessions' = sessions
      /\ overtaken' = overtaken /\ resets' = resets
    BY DEF Stored
<1>4. ASSUME NEW x \in new
      PROVE  \E a \in plan : x = [generation |-> g, exam |-> a.exam, room |-> a.room,
                                  seat |-> a.seat, student |-> a.student]
    BY DEF RowsOfPlan
<1> HIDE DEF g, new
<1>5. ASSUME NEW x \in new
      PROVE  /\ x \in SeatRow /\ x.generation = g
             /\ Current(row) => SeatSound(row, x)
    <2>1. PICK a \in plan : x = [generation |-> g, exam |-> a.exam, room |-> a.room,
                                 seat |-> a.seat, student |-> a.student]
        BY <1>4
    <2>2. x \in SeatRow
        BY <1>1, <2>1 DEF SeatRow, Assignment
    <2>3. Current(row) => SeatSound(row, x)
        BY <2>1 DEF SeatSound
    <2> QED
        BY <2>1, <2>2, <2>3
<1>6. /\ WellTyped(Database)' /\ (~overtaken => Consistent(Database))'
    <2>1. Database' = Database
        BY <1>3 DEF Database
    <2> QED
        BY <1>3, <2>1 DEF TablesSound
<1>7. seatRows' \in SUBSET SeatRow
    BY <1>3, <1>5 DEF TablesSound
<1>8. \A other : Current(other)' <=> Current(other)
    BY <1>3 DEF Current
<1>9. GenerationsSound'
    <2>1. \A h \in DOMAIN generations :
              Current(generations[h]) => GenerationSound(generations[h])
        BY DEF TablesSound, GenerationsSound
    <2>2. \A h \in DOMAIN generations' :
              Current(generations'[h]) => GenerationSound(generations'[h])
        BY <1>2, <2>1
    <2> QED
        BY <1>3, <2>2 DEF GenerationsSound, GenerationSound, Current
<1>10. \A x \in seatRows : x.generation \in DOMAIN generations
    BY DEF TablesSound, RowsSound
<1>11. ASSUME NEW other, NEW x PROVE SeatSound(other, x) => SeatSound(other, x)'
    <2>1. IdsOf(other)' = IdsOf(other)
        BY <1>3 DEF IdsOf
    <2>2. \A e, r : UsesRoom(e, r)' <=> UsesRoom(e, r)
        BY <1>3 DEF UsesRoom
    <2> QED
        BY <1>3, <2>1, <2>2 DEF SeatSound
<1>12. ASSUME NEW x \in seatRows'
       PROVE  /\ x.generation \in DOMAIN generations'
              /\ Current(generations'[x.generation]) => SeatSound(generations'[x.generation], x)
    <2>2. CASE x \in seatRows
        <3>1. /\ x.generation \in DOMAIN generations
              /\ generations'[x.generation] = generations[x.generation]
            BY <1>2, <1>10, <2>2
        <3>2. Current(generations[x.generation]) => SeatSound(generations[x.generation], x)
            BY <2>2 DEF TablesSound, RowsSound, RowSound, IsCurrent
        <3> QED
            BY <1>2, <3>1, <3>2
    <2>3. CASE x \in new
        BY <1>2, <1>5, <2>3
    <2> QED
        BY <1>3, <2>2, <2>3
<1>13. ASSUME NEW x \in seatRows', NEW y \in seatRows', x.generation = y.generation
       PROVE  \/ /\ x \in seatRows /\ y \in seatRows
                 /\ generations'[x.generation] = generations[x.generation]
              \/ /\ x \in new /\ y \in new /\ generations'[x.generation] = row
    <2>2. \A z \in new : z.generation = g
        BY <1>5
    <2> QED
        BY <1>1, <1>2, <1>3, <1>13, <1>10, <2>2 DEF g
<1>14. ASSUME NEW x \in seatRows', NEW y \in seatRows' PROVE OwnSeat(x, y)'
    <2> SUFFICES ASSUME x.generation = y.generation, x.room = y.room, x.seat = y.seat
                 PROVE  x = y
        BY DEF OwnSeat
    <2>1. CASE x \in seatRows /\ y \in seatRows
        BY <2>1 DEF TablesSound, RowsSound, OwnSeat
    <2>2. CASE x \in new /\ y \in new
        <3>1. PICK a \in plan : x = [generation |-> g, exam |-> a.exam, room |-> a.room,
                                     seat |-> a.seat, student |-> a.student]
            BY <1>4, <2>2
        <3>2. PICK b \in plan : y = [generation |-> g, exam |-> b.exam, room |-> b.room,
                                     seat |-> b.seat, student |-> b.student]
            BY <1>4, <2>2
        <3>3. a = b
            BY <3>1, <3>2
        <3> QED
            BY <3>1, <3>2, <3>3
    <2> QED
        BY <1>13, <2>1, <2>2
<1>15. ASSUME NEW x \in seatRows', NEW y \in seatRows', Current(generations'[x.generation])
       PROVE  InOrder(x, y)'
    <2>1. \A e : SeatedBefore(e, x, y)' <=> SeatedBefore(e, x, y)
        BY <1>3 DEF SeatedBefore, LineBefore
    <2>2. SUFFICES ASSUME x.generation = y.generation,
                          generations'[x.generation].exam # 0,
                          SeatedBefore(generations'[x.generation].exam, x, y)
                   PROVE  students[x.student] < students[y.student]
        BY <1>3, <2>1 DEF InOrder, Ascends
    <2>3. CASE /\ x \in seatRows /\ y \in seatRows
               /\ generations'[x.generation] = generations[x.generation]
        <3>1. InOrder(x, y)
            BY <1>15, <2>3 DEF TablesSound, RowsSound, IsCurrent
        <3> QED
            BY <2>2, <2>3, <3>1 DEF InOrder, Ascends
    <2>4. CASE x \in new /\ y \in new /\ generations'[x.generation] = row
        <3>1. PICK a \in plan : x = [generation |-> g, exam |-> a.exam, room |-> a.room,
                                     seat |-> a.seat, student |-> a.student]
            BY <1>4, <2>4
        <3>2. PICK b \in plan : y = [generation |-> g, exam |-> b.exam, room |-> b.room,
                                     seat |-> b.seat, student |-> b.student]
            BY <1>4, <2>4
        <3>3. row.exam # 0 /\ SeatedBefore(row.exam, x, y) /\ Current(row)
            BY <1>15, <2>2, <2>4
        <3>4. SeatedBefore(row.exam, a, b)
            BY <3>1, <3>2, <3>3 DEF SeatedBefore
        <3>5. students[a.student] < students[b.student]
            BY <3>3, <3>4 DEF Ascends
        <3> QED
            BY <3>1, <3>2, <3>5
    <2> QED
        BY <1>13, <2>2, <2>3, <2>4
<1>16. RowsSound'
    <2>1. ASSUME NEW x \in seatRows', Current(generations'[x.generation]) PROVE RowSound(x)'
        <3>1. PICK other : other = generations'[x.generation]
            OBVIOUS
        <3>2. SeatSound(other, x)
            BY <1>12, <2>1, <3>1
        <3>3. SeatSound(other, x)'
            BY <1>11, <3>2
        <3> QED
            BY <1>12, <3>1, <3>3 DEF RowSound, SeatSound, IdsOf
    <2>2. \A x \in seatRows' : IsCurrent(x)' <=> Current(generations'[x.generation])
        BY <1>3 DEF IsCurrent, Current
    <2> QED
        BY <1>12, <1>14, <1>15, <2>1, <2>2 DEF RowsSound
<1> QED
    BY <1>2, <1>3, <1>6, <1>7, <1>9, <1>16 DEF TablesSound
-----------------------------------------------------------------------------
(***************************************************************************)
(* What a report has read, as long as no reset has to do with it.          *)
(***************************************************************************)
Listing == {"lines", "lookup", "students", "courses", "grids"}

Started ==
    /\ rep.stored # {} => rep.of \in DOMAIN generations /\ rep.stored = RowsOf(rep.of)
    /\ rep.at # "generation" => rep.of \in DOMAIN generations /\ rep.row = generations[rep.of]
    /\ rep.at \notin {"generation", "rows"} => rep.rows = RowsOf(rep.of) /\ rep.rows # {}
    /\ rep.at \in {"session", "session_exams"} => rep.row.exam = 0
    /\ rep.at \in {"header"} \cup Listing => rep.ids = IdsOf(rep.row)
    /\ rep.at = "students" => rep.kind # "map"
    /\ rep.at \in {"courses", "grids"} => rep.kind = "map"
    /\ rep.at # "grids" => rep.pages = <<>>
    /\ rep.at \notin {"lines", "lookup", "grids"} => rep.k = 1
    /\ rep.at \notin Listing => rep.order = <<>>

\* Rooms without repetitions; those of a single exam in the order of its lines.
RoomList(list) ==
    /\ \A i \in DOMAIN list : list[i].room \in DOMAIN rooms
    /\ \A i, j \in DOMAIN list : list[i].room = list[j].room => i = j
    /\ rep.row.exam # 0 => \A i, j \in DOMAIN list :
          i < j => LineBefore(rep.row.exam, list[i].room, list[j].room)

Named(order) == \A i \in DOMAIN order : order[i].code = rooms[order[i].room].code

ToCome(n, r) == \E m \in n..Len(rep.ids) : UsesRoom(rep.ids[m], r)

\* Every room in use is listed or still to be listed.
ListsRooms ==
    /\ rep.at \in Listing => RoomList(rep.order) /\ Named(rep.order)
    /\ rep.at \in {"lines", "lookup"} =>
          /\ rep.k \in 1..(Len(rep.ids) + 1)
          /\ rep.k = 1 => rep.order = <<>>
    /\ rep.at = "lines" =>
          \A x \in rep.rows : In(rep.order, x.room) \/ ToCome(rep.k, x.room)
    /\ rep.at = "lookup" =>
          /\ rep.k <= Len(rep.ids)
          /\ RoomList(rep.lines)
          /\ \A x \in rep.rows :
                In(rep.order, x.room) \/ In(rep.lines, x.room) \/ ToCome(rep.k + 1, x.room)
    /\ rep.at \in {"students", "courses", "grids"} => \A x \in rep.rows : In(rep.order, x.room)

\* A page of the seat map: everyone on it is printed at their seat, and who is not on
\* it has a seat that is blocked now.
PageFor(page, r, rows) ==
    /\ page.code = rooms[r].code
    /\ InRoom(rows, r) # {}
    /\ \A n \in DOMAIN page.cells : \E x \in InRoom(rows, r) : x.seat = n
    /\ \A x \in InRoom(rows, r) :
          /\ x.seat \in DOMAIN page.cells => page.cells[x.seat] = students[x.student]
          /\ x.seat \notin DOMAIN page.cells /\ page.grid => x.seat \in rooms[r].blocked

Draws ==
    rep.at = "grids" =>
        /\ rep.k \in 1..(Len(rep.order) + 1)
        /\ \A p, q \in DOMAIN rep.pages : rep.pages[p].code = rep.pages[q].code => p = q
        /\ \A p \in DOMAIN rep.pages : \E i \in 1..(rep.k - 1) :
              PageFor(rep.pages[p], rep.order[i].room, rep.rows)
        /\ \A i \in 1..(rep.k - 1) : InRoom(rep.rows, rep.order[i].room) # {} =>
              \E p \in DOMAIN rep.pages : rep.pages[p].code = rep.order[i].code

\* A report no reset has to do with: neither one during it, nor one between the plan
\* and the commit of its generation, nor one that fell into a schedule import.
Untouched ==
    /\ rep.since = resets /\ ~overtaken
    /\ rep.of \in DOMAIN generations => Current(generations[rep.of])

Fresh == Reading /\ Untouched

ReportSound == Fresh => Started /\ ListsRooms /\ Draws

ReportTyped ==
    /\ resets \in Nat
    /\ Reading => ReportFields

IInv == TablesSound /\ RunSound /\ ReportTyped /\ ReportSound

\* What other steps than a reset leave in place for a report.
Grown ==
    /\ rep.at # "sent" => rep' = rep
    /\ rep.at = "sent" => rep' = Idle
    /\ resets' = resets /\ overtaken' = overtaken
    /\ sessions' = sessions /\ students' = students
    /\ \A g \in DOMAIN generations :
          /\ g \in DOMAIN generations' /\ generations'[g] = generations[g]
          /\ RowsOf(g)' = RowsOf(g)
    /\ DOMAIN rooms' = DOMAIN rooms
    /\ \A r \in DOMAIN rooms : /\ rooms'[r].code = rooms[r].code
                               /\ rooms[r].blocked \in SUBSET rooms'[r].blocked
    /\ \A e, r : UsesRoom(e, r) => UsesRoom(e, r)'
    /\ \A e, r, q : LineBefore(e, r, q) => LineBefore(e, r, q)'

\* A report notices nothing of what others add.
LEMMA GrownKeepsReport ==
    ASSUME IInv, Grown
    PROVE  ReportTyped' /\ ReportSound'
<1>1. CASE ~Reading
    <2>1. ~Reading'
        BY <1>1 DEF Grown, Reading, Idle
    <2> QED
        BY <2>1 DEF ReportTyped, ReportSound, Fresh, IInv, Grown
<1>2. CASE Reading
    <2>1. rep' = rep /\ resets' = resets /\ rep \in ReportRecord
        BY <1>2 DEF Grown, Reading, IInv, ReportTyped, ReportFields
    <2>2. ReportTyped'
        BY <2>1 DEF ReportTyped, ReportFields, Reading, IInv
    <2>5. Fresh' => Fresh
        BY <2>1 DEF Grown, Fresh, Untouched, Reading, Current
    <2>3. SUFFICES ASSUME Fresh PROVE Started' /\ ListsRooms' /\ Draws'
        BY <2>2, <2>5 DEF ReportSound
    <2>4. Started /\ ListsRooms /\ Draws
        BY <2>3 DEF IInv, ReportSound
    <2>6. Started'
        <3>1. rep.of \in DOMAIN generations =>
                 /\ rep.of \in DOMAIN generations'
                 /\ generations'[rep.of] = generations[rep.of]
                 /\ RowsOf(rep.of)' = RowsOf(rep.of)
            BY <2>1 DEF Grown
        <3>2. IdsOf(rep.row)' = IdsOf(rep.row)
            BY <2>1 DEF Grown, IdsOf
        <3> QED
            BY <2>1, <2>4, <3>1, <3>2 DEF Started
    <2>7. ListsRooms'
        <3>2. rep.at \in Listing => RoomList(rep.order)' /\ Named(rep.order)'
            <4>1. rep.at \in Listing => RoomList(rep.order) /\ Named(rep.order)
                BY <2>4 DEF ListsRooms
            <4>2. RoomList(rep.order) /\ Named(rep.order) =>
                     RoomList(rep.order)' /\ Named(rep.order)'
                BY <2>1 DEF Grown, RoomList, Named
            <4> QED
                BY <4>1, <4>2
        <3>3. RoomList(rep.lines) => RoomList(rep.lines)'
            BY <2>1 DEF Grown, RoomList
        <3>4. \A n, r : ToCome(n, r) => ToCome(n, r)'
            BY <2>1 DEF Grown, ToCome
        <3> QED
            BY <2>1, <2>4, <3>2, <3>3, <3>4 DEF ListsRooms, In
    <2>8. Draws'
        <3>1. SUFFICES ASSUME rep.at = "grids" PROVE Draws'
            BY <2>1 DEF Draws
        <3>2. \A i \in 1..(rep.k - 1) : rep.order[i].room \in DOMAIN rooms
            <4>1. rep.k \in 1..(Len(rep.order) + 1) /\ RoomList(rep.order)
                BY <2>4, <3>1 DEF Draws, ListsRooms, Listing
            <4>2. rep.order \in Seq(Entry)
                BY <2>1 DEF ReportRecord
            <4>3. \A i \in 1..(rep.k - 1) : i \in DOMAIN rep.order
                BY <4>1, <4>2
            <4> QED
                BY <4>1, <4>3 DEF RoomList
        <3>3. ASSUME NEW page, NEW r \in DOMAIN rooms, PageFor(page, r, rep.rows)
              PROVE  PageFor(page, r, rep.rows)'
            BY <2>1, <3>3 DEF Grown, PageFor, InRoom
        <3>4. \A p \in DOMAIN rep.pages : \E i \in 1..(rep.k - 1) :
                 PageFor(rep.pages[p], rep.order[i].room, rep.rows)'
            BY <2>1, <2>4, <3>1, <3>2, <3>3 DEF Draws
        <3> QED
            BY <2>1, <2>4, <3>1, <3>4 DEF Draws, InRoom
    <2> QED
        BY <2>6, <2>7, <2>8
<1> QED
    BY <1>1, <1>2
-----------------------------------------------------------------------------
(***************************************************************************)
(* The steps of generate requests, imports and resets keep the invariant.  *)
(***************************************************************************)
\* What other steps than a generation's and a reset leave in place in the tables.
Extended ==
    /\ resets' = resets /\ overtaken' = overtaken
    /\ students' = students /\ exams' = exams /\ sessions' = sessions
    /\ generations' = generations /\ seatRows' = seatRows
    /\ DOMAIN rooms' = DOMAIN rooms
    /\ \A r \in DOMAIN rooms : /\ rooms'[r].code = rooms[r].code
                               /\ rooms'[r].capacity = rooms[r].capacity
                               /\ rooms[r].blocked \in SUBSET rooms'[r].blocked
    /\ \A e, r : UsesRoom(e, r) => UsesRoom(e, r)'
    /\ \A e, r, q : LineBefore(e, r, q) => LineBefore(e, r, q)'
    /\ \A e, r, q : LineBefore(e, r, q)' /\ UsesRoom(e, q) => LineBefore(e, r, q)

\* What was sound of a generation and of its rows still is.
LEMMA ExtendedKeeps ==
    ASSUME Extended, NEW row
    PROVE  /\ Current(row)' <=> Current(row)
           /\ GenerationSound(row) => GenerationSound(row)'
           /\ \A x : SeatSound(row, x) => SeatSound(row, x)'
           /\ \A x, y : SeatSound(row, y) /\ Ascends(row, x, y) => Ascends(row, x, y)'
<1>1. Current(row)' <=> Current(row)
    BY DEF Extended, Current
<1>2. GenerationSound(row) => GenerationSound(row)'
    BY DEF Extended, GenerationSound
<1>3. IdsOf(row)' = IdsOf(row)
    BY DEF Extended, IdsOf
<1>4. ASSUME NEW x, SeatSound(row, x) PROVE SeatSound(row, x)'
    BY <1>3, <1>4 DEF Extended, SeatSound
<1>5. ASSUME NEW x, NEW y, SeatSound(row, y), Ascends(row, x, y) PROVE Ascends(row, x, y)'
    <2>1. SUFFICES ASSUME row.exam # 0, SeatedBefore(row.exam, x, y)'
                   PROVE  students[x.student] < students[y.student]
        BY DEF Extended, Ascends
    <2>2. UsesRoom(row.exam, y.room)
        <3>1. PICK e : e = row.exam
            OBVIOUS
        <3>2. IdsOf(row) = <<e>>
            BY <2>1, <3>1 DEF IdsOf
        <3> QED
            BY <1>5, <3>1, <3>2 DEF SeatSound
    <2>3. SeatedBefore(row.exam, x, y)
        BY <2>1, <2>2 DEF Extended, SeatedBefore
    <2> QED
        BY <1>5, <2>1, <2>3 DEF Ascends
<1> QED
    BY <1>1, <1>2, <1>4, <1>5

\* The tables stay sound.
LEMMA ExtendedTables ==
    ASSUME TablesSound, Extended, WellTyped(Database)', ~overtaken => Consistent(Database)'
    PROVE  TablesSound'
<1>1. /\ generations' = generations /\ seatRows' = seatRows
      /\ resets' = resets /\ overtaken' = overtaken
    BY DEF Extended
<1>2. GenerationsSound'
    <2>1. ASSUME NEW g \in DOMAIN generations, Current(generations[g])'
          PROVE  GenerationSound(generations[g])'
        <3>1. PICK row : row = generations[g]
            OBVIOUS
        <3>2. row' = generations'[g]
            BY <1>1, <3>1
        <3>3. Current(row)
            BY <1>1, <2>1, <3>1, ExtendedKeeps DEF Current
        <3>4. GenerationSound(row)
            BY <3>1, <3>3 DEF TablesSound, GenerationsSound
        <3>5. GenerationSound(row)'
            BY <3>4, ExtendedKeeps
        <3> QED
            BY <1>1, <3>1, <3>5 DEF GenerationSound
    <2> QED
        BY <1>1, <2>1 DEF GenerationsSound
<1>3. ASSUME NEW x \in seatRows, IsCurrent(x)' PROVE RowSound(x)'
    <2>1. PICK row : row = generations[x.generation]
        OBVIOUS
    <2>2. IsCurrent(x)
        BY <1>1, <1>3 DEF IsCurrent, Current
    <2>3. x.generation \in DOMAIN generations /\ SeatSound(row, x)
        BY <2>1, <2>2 DEF TablesSound, RowsSound, RowSound
    <2>4. SeatSound(row, x)'
        BY <2>3, ExtendedKeeps
    <2> QED
        BY <1>1, <2>1, <2>3, <2>4 DEF RowSound, SeatSound, IdsOf
<1>4. ASSUME NEW x \in seatRows, NEW y \in seatRows, IsCurrent(x)' PROVE InOrder(x, y)'
    <2>1. PICK row : row = generations[x.generation]
        OBVIOUS
    <2>2. IsCurrent(x)
        BY <1>1, <1>4 DEF IsCurrent, Current
    <2>3. SUFFICES ASSUME x.generation = y.generation PROVE Ascends(row, x, y)'
        BY <1>1, <2>1 DEF InOrder, Ascends, SeatedBefore, LineBefore
    <2>4. IsCurrent(y)
        BY <2>2, <2>3 DEF IsCurrent
    <2>5. SeatSound(row, y)
        BY <2>1, <2>3, <2>4 DEF TablesSound, RowsSound, RowSound
    <2>6. Ascends(row, x, y)
        BY <2>1, <2>2, <2>3 DEF TablesSound, RowsSound, InOrder
    <2> QED
        BY <2>5, <2>6, ExtendedKeeps
<1>5. RowsSound'
    <2>1. \A x \in seatRows : x.generation \in DOMAIN generations
        BY DEF TablesSound, RowsSound
    <2>2. \A x, y \in seatRows : OwnSeat(x, y)
        BY DEF TablesSound, RowsSound
    <2> QED
        BY <1>1, <1>3, <1>4, <2>1, <2>2 DEF RowsSound, OwnSeat
<1> QED
    BY <1>1, <1>2, <1>5 DEF TablesSound

\* So does what a request is about to store.
LEMMA ExtendedRun ==
    ASSUME RunSound, Extended, run' = run
    PROVE  RunSound'
<1>1. PICK row, plan : row = run.row /\ plan = run.plan
    OBVIOUS
<1>2. resets' = resets
    BY DEF Extended
<1>3. RunTyped'
    BY <1>2 DEF RunSound, RunTyped
<1>4. ASSUME run # Idle, Current(row)'
      PROVE  /\ GenerationSound(row)'
             /\ \A z \in plan : SeatSound(row, z)'
             /\ \A z, w \in plan : Ascends(row, z, w)'
    <2>1. Current(row)
        BY <1>4, ExtendedKeeps
    <2>2. /\ GenerationSound(row)
          /\ \A z \in plan : SeatSound(row, z)
          /\ \A z, w \in plan : Ascends(row, z, w)
        BY <1>1, <1>4, <2>1 DEF RunSound
    <2> QED
        BY <2>2, ExtendedKeeps
<1>5. run # Idle => \A z, w \in plan : z.room = w.room /\ z.seat = w.seat => z = w
    BY <1>1 DEF RunSound
<1> QED
    BY <1>1, <1>3, <1>4, <1>5
    DEF RunSound, Current, GenerationSound, SeatSound, IdsOf, UsesRoom, Ascends,
        SeatedBefore, LineBefore

\* And a report.
LEMMA ExtendedGrown ==
    ASSUME Extended, RepLeft
    PROVE  Grown
<1>1. \A g : RowsOf(g)' = RowsOf(g)
    BY DEF Extended, RowsOf
<1> QED
    BY <1>1 DEF Extended, Grown, RepLeft

\* An import in one step.
LEMMA ExtendedStep ==
    ASSUME IInv, Extended, RepLeft, run' = run,
           WellTyped(Database)', ~overtaken => Consistent(Database)'
    PROVE  IInv'
<1>1. TablesSound' /\ RunSound'
    BY ExtendedTables, ExtendedRun DEF IInv
<1>2. Grown
    BY ExtendedGrown
<1> QED
    BY <1>1, <1>2, GrownKeepsReport DEF IInv

\* A request has its plan.
LEMMA PlaceStep ==
    ASSUME IInv, NEW exam, NEW session, NEW ids, GenerationOf(exam, session, ids),
           NEW plan, PlanFor(plan, exam, ids), Place(exam, session, plan)
    PROVE  IInv'
<1>1. PICK row :
          row = [exam |-> exam, session |-> session, since |-> resets,
                 blocked |-> [r \in DOMAIN rooms |-> rooms[r].blocked]]
    OBVIOUS
<1>2. /\ run'.row = row /\ run'.plan = plan /\ RepLeft
      /\ students' = students /\ rooms' = rooms /\ exams' = exams /\ lines' = lines
      /\ sessions' = sessions /\ generations' = generations /\ seatRows' = seatRows
      /\ overtaken' = overtaken /\ resets' = resets
    BY <1>1 DEF Place, tables, counters
<1>3. Extended
    BY <1>2 DEF Extended, UsesRoom, LineBefore
<1>4. TablesSound'
    <2>1. Database' = Database
        BY <1>2 DEF Database
    <2>2. WellTyped(Database)' /\ (~overtaken => Consistent(Database)')
        BY <2>1 DEF IInv, TablesSound
    <2> QED
        BY <1>3, <2>2, ExtendedTables DEF IInv
<1>5. WellTyped(Database) /\ resets \in Nat
    BY DEF IInv, TablesSound
<1>6. /\ row \in Generation /\ row.since = resets
      /\ plan \in SUBSET Assignment
      /\ \A z, w \in plan : z.room = w.room /\ z.seat = w.seat => z = w
      /\ GenerationSound(row)
      /\ \A z \in plan : SeatSound(row, z)
      /\ \A z, w \in plan : Ascends(row, z, w)
    BY <1>1, <1>5, PlannedSound
<1>7. RunTyped'
    BY <1>2, <1>5, <1>6 DEF RunTyped
<1>8. /\ GenerationSound(row)'
      /\ \A z \in plan : SeatSound(row, z)'
      /\ \A z, w \in plan : Ascends(row, z, w)'
    BY <1>3, <1>6, ExtendedKeeps
<1>9. RunSound'
    BY <1>2, <1>6, <1>7, <1>8
    DEF RunSound, Current, GenerationSound, SeatSound, IdsOf, UsesRoom, Ascends,
        SeatedBefore, LineBefore
<1>10. Grown
    BY <1>2, <1>3, ExtendedGrown
<1> QED
    BY <1>4, <1>9, <1>10, GrownKeepsReport DEF IInv

\* SeatingService.generate.
LEMMA GenerateExamStep ==
    ASSUME IInv, GenerateExam
    PROVE  IInv'
<1>1. PICK e \in DOMAIN exams :
          /\ RoomsKnown(LinesOf(e))
          /\ Place(e, 0, SeatingOf(Ahead(RosterOf(<<e>>)), Candidates(LinesOf(e), rooms)))
    BY DEF GenerateExam
<1> DEFINE plan == SeatingOf(Ahead(RosterOf(<<e>>)), Candidates(LinesOf(e), rooms))
<1>2. WellTyped(Database)
    BY DEF IInv, TablesSound
<1>3. PlanFor(plan, e, <<e>>)
    BY <1>1, <1>2, ExamPlan
<1>4. GenerationOf(e, 0, <<e>>)
    BY DEF GenerationOf
<1>5. Place(e, 0, plan)
    BY <1>1
<1> HIDE DEF plan
<1> QED
    BY <1>3, <1>4, <1>5, PlaceStep

\* SeatingService.generate_session.
LEMMA GenerateSessionStep ==
    ASSUME IInv, GenerateSession
    PROVE  IInv'
<1>1. PICK s \in DOMAIN sessions, strategy \in Strategies :
          LET roster == RosterOf(sessions[s])
              found == LinesFrom(sessions[s])[Len(sessions[s])]
              allocations == MergedAllocations(found)
              seats == Candidates(allocations, rooms)
          IN  /\ RoomsKnown(found)
              /\ \A x, y \in roster : x.student = y.student => x = y
              /\ \/ /\ strategy = "sequential"
                    /\ Place(0, s, SeatingOf(Ahead(roster), seats))
                 \/ /\ strategy = "constraint"
                    /\ \A i \in DOMAIN allocations : HasTopology(rooms[allocations[i].room])
                    /\ \E plan \in AnySeatings(roster, seats) : Place(0, s, plan)
    BY DEF GenerateSession
<1> DEFINE roster == RosterOf(sessions[s])
           found == LinesFrom(sessions[s])[Len(sessions[s])]
           seats == Candidates(MergedAllocations(found), rooms)
<1>2. PICK plan : /\ plan = SeatingOf(Ahead(roster), seats) \/ plan \in AnySeatings(roster, seats)
                  /\ Place(0, s, plan)
    BY <1>1
<1>3. RoomsKnown(found) /\ \A x, y \in roster : x.student = y.student => x = y
    BY <1>1
<1>4. WellTyped(Database)
    BY DEF IInv, TablesSound
<1>5. PICK places : places = seats
    OBVIOUS
<1>6. /\ places = Candidates(MergedAllocations(LinesFrom(sessions[s])[Len(sessions[s])]), rooms)
      /\ plan = SeatingOf(Ahead(RosterOf(sessions[s])), places)
            \/ plan \in AnySeatings(RosterOf(sessions[s]), places)
    BY <1>2, <1>5
<1>7. PlanFor(plan, 0, sessions[s])
    BY <1>3, <1>4, <1>6, SessionPlan
<1>8. GenerationOf(0, s, sessions[s])
    BY DEF GenerationOf
<1> QED
    BY <1>2, <1>7, <1>8, PlaceStep

\* The commit of a generation, whatever has been committed since it was planned.
LEMMA StoreStep ==
    ASSUME IInv, Store
    PROVE  IInv'
<1>1. PICK row, plan, g : row = run.row /\ plan = run.plan /\ g = Len(generations) + 1
    OBVIOUS
<1>2. Stored(row, RowsOfPlan(g, plan)) /\ run' = Idle /\ RepLeft /\ run # Idle
    BY <1>1 DEF Store, Stored, RowsOfPlan
<1>3. TablesSound'
    <2>1. /\ row \in Generation /\ plan \in SUBSET Assignment
          /\ \A z, w \in plan : z.room = w.room /\ z.seat = w.seat => z = w
          /\ Current(row) => /\ GenerationSound(row)
                             /\ \A z \in plan : SeatSound(row, z)
                             /\ \A z, w \in plan : Ascends(row, z, w)
        BY <1>1, <1>2 DEF IInv, RunSound, RunTyped
    <2> QED
        BY <1>1, <1>2, <2>1, StoredSound DEF IInv
<1>4. RunSound'
    BY <1>2 DEF RunSound, RunTyped
<1>5. /\ generations \in Seq(Generation) /\ Len(generations) \in Nat
      /\ DOMAIN generations = 1..Len(generations)
    BY DEF IInv, TablesSound
<1>6. ASSUME NEW h \in DOMAIN generations
      PROVE  /\ h \in DOMAIN generations' /\ generations'[h] = generations[h]
             /\ RowsOf(h)' = RowsOf(h)
    <2>1. generations' = Append(generations, row)
        BY <1>2 DEF Stored
    <2>2. h \in DOMAIN generations' /\ generations'[h] = generations[h]
        BY <1>5, <2>1
    <2>3. \A x \in RowsOfPlan(g, plan) : x.generation # h
        BY <1>1, <1>5 DEF RowsOfPlan
    <2>4. seatRows' = seatRows \cup RowsOfPlan(g, plan)
        BY <1>2 DEF Stored
    <2> QED
        BY <2>2, <2>3, <2>4 DEF RowsOf
<1>7. /\ sessions' = sessions /\ students' = students /\ rooms' = rooms /\ lines' = lines
      /\ resets' = resets /\ overtaken' = overtaken
    BY <1>2 DEF Stored
<1>8. Grown
    BY <1>2, <1>6, <1>7 DEF Grown, RepLeft, UsesRoom, LineBefore
<1> QED
    BY <1>3, <1>4, <1>8, GrownKeepsReport DEF IInv

\* An import that changes one room.
LEMMA ImportStep ==
    ASSUME IInv, NEW r \in DOMAIN rooms, NEW room \in RoomRow, Import(r, room),
           room.code = rooms[r].code, room.capacity = rooms[r].capacity,
           rooms[r].blocked \in SUBSET room.blocked
    PROVE  IInv'
<1>1. /\ rooms' = [rooms EXCEPT ![r] = room]
      /\ students' = students /\ exams' = exams /\ lines' = lines /\ sessions' = sessions
      /\ generations' = generations /\ seatRows' = seatRows /\ resets' = resets /\ RepLeft
      /\ run' = run /\ overtaken' = overtaken
    BY DEF Import
<1>2. TablesSound
    BY DEF IInv
<1>3. rooms \in Seq(RoomRow)
    BY <1>2, TablesTyped DEF TablesSound
<1>4. /\ rooms' \in Seq(RoomRow) /\ DOMAIN rooms' = DOMAIN rooms
      /\ \A q \in DOMAIN rooms : /\ rooms'[q].code = rooms[q].code
                                 /\ rooms'[q].capacity = rooms[q].capacity
                                 /\ rooms[q].blocked \in SUBSET rooms'[q].blocked
    <2>1. rooms' \in Seq(RoomRow) /\ DOMAIN rooms' = DOMAIN rooms
        BY <1>1, <1>3
    <2>2. \A q \in DOMAIN rooms : rooms'[q] = IF q = r THEN room ELSE rooms[q]
        BY <1>1, <1>3
    <2> QED
        BY <2>1, <2>2
<1>5. /\ Database'.students = students /\ Database'.rooms = rooms'
      /\ Database'.exams = exams /\ Database'.lines = lines /\ Database'.sessions = sessions
    BY <1>1 DEF Database
<1>6. WellTyped(Database')
    <2>1. WellTyped(Database)
        BY <1>2 DEF TablesSound
    <2>2. \A p, q \in DOMAIN rooms : rooms'[p].code = rooms'[q].code => p = q
        BY <1>4, <2>1, TablesTyped
    <2>3. /\ students \in Seq(Nat)
          /\ \A s, t \in DOMAIN students : students[s] = students[t] => s = t
          /\ exams \in Seq([course : Nat, students : SUBSET (DOMAIN students)])
          /\ lines \in Seq([exam : Nat, room : Nat, allocated : Nat])
          /\ \A i, j \in DOMAIN lines :
                lines[i].exam = lines[j].exam /\ lines[i].room = lines[j].room => i = j
          /\ sessions \in Seq(Seq(DOMAIN exams))
          /\ \A s \in DOMAIN sessions : sessions[s] # <<>>
        BY <2>1 DEF WellTyped, Database
    <2>4. /\ rooms' \in Seq(RoomRow)
          /\ \A p, q \in DOMAIN rooms' : rooms'[p].code = rooms'[q].code => p = q
        BY <1>4, <2>2
    <2> QED
        BY <1>5, <2>3, <2>4 DEF WellTyped, RoomRow
<1>7. ~overtaken => Consistent(Database')
    <2>1. ASSUME ~overtaken PROVE Consistent(Database')
        <3>1. Consistent(Database)
            BY <1>2, <2>1 DEF TablesSound
        <3>2. /\ \A e \in DOMAIN exams : exams[e].course # 0
              /\ \A i \in DOMAIN lines :
                    lines[i].exam \in DOMAIN exams /\ lines[i].room \in DOMAIN rooms
            BY <3>1, TablesResolve
        <3> QED
            BY <1>4, <1>5, <1>6, <3>2 DEF Consistent
    <2> QED
        BY <2>1
<1>8. Extended
    BY <1>1, <1>4 DEF Extended, UsesRoom, LineBefore
<1> QED
    BY <1>1, <1>6, <1>7, <1>8, ExtendedStep

\* A room file that completes a room.
LEMMA BackfillStep ==
    ASSUME IInv, BackfillLayout \/ BackfillBlocked
    PROVE  IInv'
<1>1. \A r \in DOMAIN rooms : rooms[r] \in RoomRow
    BY TablesTyped DEF IInv, TablesSound
<1>2. CASE BackfillLayout
    <2>1. PICK r \in DOMAIN rooms :
              Import(r, [rooms[r] EXCEPT !.rows = 1, !.columns = rooms[r].capacity])
        BY <1>2 DEF BackfillLayout
    <2>2. PICK room : room = [rooms[r] EXCEPT !.rows = 1, !.columns = rooms[r].capacity]
        OBVIOUS
    <2>3. /\ room \in RoomRow /\ room.code = rooms[r].code /\ room.capacity = rooms[r].capacity
          /\ rooms[r].blocked \in SUBSET room.blocked
        BY <1>1, <2>2 DEF RoomRow
    <2>4. Import(r, room)
        BY <2>1, <2>2
    <2> QED
        BY <2>3, <2>4, ImportStep
<1>3. CASE BackfillBlocked
    <2> PICK r \in DOMAIN rooms : \E m \in 1..rooms[r].capacity :
              /\ rooms[r].blocked = {}
              /\ Import(r, [rooms[r] EXCEPT !.blocked = {m}])
        BY <1>3 DEF BackfillBlocked
    <2>1. PICK n \in 1..rooms[r].capacity :
              /\ rooms[r].blocked = {}
              /\ Import(r, [rooms[r] EXCEPT !.blocked = {n}])
        OBVIOUS
    <2>2. PICK room : room = [rooms[r] EXCEPT !.blocked = {n}]
        OBVIOUS
    <2>3. /\ room \in RoomRow /\ room.code = rooms[r].code /\ room.capacity = rooms[r].capacity
          /\ rooms[r].blocked \in SUBSET room.blocked
        BY <1>1, <2>1, <2>2 DEF RoomRow
    <2>4. Import(r, room)
        BY <2>1, <2>2
    <2> QED
        BY <2>3, <2>4, ImportStep
<1> QED
    BY <1>2, <1>3

\* A schedule file that adds a room to an exam.
LEMMA AddLineStep ==
    ASSUME IInv, AddLine
    PROVE  IInv'
<1>1. PICK e \in DOMAIN exams, r \in DOMAIN rooms :
          /\ \A i \in DOMAIN lines : lines[i].exam = e => lines[i].room # r
          /\ lines' = Append(lines, [exam |-> e, room |-> r, allocated |-> LateAllocation])
    BY DEF AddLine
<1>2. /\ students' = students /\ rooms' = rooms /\ exams' = exams /\ sessions' = sessions
      /\ generations' = generations /\ seatRows' = seatRows /\ resets' = resets /\ RepLeft
      /\ run' = run /\ overtaken' = overtaken
    BY DEF AddLine
<1> DEFINE line == [exam |-> e, room |-> r, allocated |-> LateAllocation]
           n == Len(lines) + 1
<1>3. TablesSound /\ WellTyped(Database)
    BY DEF IInv, TablesSound
<1>4. lines \in Seq(Line) /\ line \in Line
    <2>1. /\ lines \in Seq(Line) /\ rooms \in Seq(RoomRow)
          /\ exams \in Seq([course : Nat, students : SUBSET (DOMAIN students)])
        BY <1>3, TablesTyped
    <2>2. DOMAIN exams = 1..Len(exams) /\ DOMAIN rooms = 1..Len(rooms)
        BY <2>1, LenProperties
    <2>3. e \in Nat /\ r \in Nat /\ LateAllocation \in Nat
        BY <2>2, LoadsAreConsistent DEF LoadsAssumption
    <2> QED
        BY <2>1, <2>3 DEF Line
<1>5. /\ lines' \in Seq(Line)
      /\ DOMAIN lines = 1..Len(lines) /\ Len(lines) \in Nat /\ n \notin DOMAIN lines
      /\ DOMAIN lines' = DOMAIN lines \cup {n}
      /\ \A i \in DOMAIN lines : lines'[i] = lines[i]
      /\ lines'[n] = line
    <2>1. lines' = Append(lines, line)
        BY <1>1
    <2> HIDE DEF line
    <2>2. /\ Append(lines, line) \in Seq(Line)
          /\ Len(Append(lines, line)) = Len(lines) + 1
          /\ \A i \in 1..Len(lines) : Append(lines, line)[i] = lines[i]
          /\ Append(lines, line)[Len(lines) + 1] = line
        BY <1>4, AppendProperties
    <2>3. DOMAIN lines = 1..Len(lines) /\ Len(lines) \in Nat
        BY <1>4
    <2>4. DOMAIN Append(lines, line) = 1..(Len(lines) + 1)
        BY <2>2
    <2> QED
        BY <2>1, <2>2, <2>3, <2>4
<1>6. \A x, q : UsesRoom(x, q) => UsesRoom(x, q)'
    BY <1>5 DEF UsesRoom
<1>7. \A x, p, q : LineBefore(x, p, q) => LineBefore(x, p, q)'
    BY <1>5 DEF LineBefore
<1>8. ASSUME NEW x, NEW p, NEW q, LineBefore(x, p, q)', UsesRoom(x, q)
      PROVE  LineBefore(x, p, q)
    <2>1. PICK i \in DOMAIN lines', j \in DOMAIN lines' :
              /\ i < j
              /\ lines'[i].exam = x /\ lines'[i].room = p
              /\ lines'[j].exam = x /\ lines'[j].room = q
        BY <1>8 DEF LineBefore
    <2>2. j # n
        BY <1>1, <1>5, <1>8, <2>1 DEF UsesRoom
    <2>3. j \in DOMAIN lines /\ i \in DOMAIN lines
        BY <1>5, <2>1, <2>2
    <2> QED
        BY <1>5, <2>1, <2>3 DEF LineBefore
<1>9. /\ Database'.students = students /\ Database'.rooms = rooms
      /\ Database'.exams = exams /\ Database'.lines = lines' /\ Database'.sessions = sessions
    BY <1>2 DEF Database
<1>10. WellTyped(Database')
    <2>1. \A i, j \in DOMAIN lines' :
              lines'[i].exam = lines'[j].exam /\ lines'[i].room = lines'[j].room => i = j
        <3>1. \A i, j \in DOMAIN lines :
                  lines[i].exam = lines[j].exam /\ lines[i].room = lines[j].room => i = j
            BY <1>3, TablesTyped
        <3>2. lines'[n].exam = e /\ lines'[n].room = r
            BY <1>5
        <3> HIDE DEF line, n
        <3>3. \A i \in DOMAIN lines : ~(lines'[i].exam = e /\ lines'[i].room = r)
            BY <1>1, <1>5
        <3> QED
            BY <1>5, <3>1, <3>2, <3>3
    <2>2. /\ students \in Seq(Nat)
          /\ \A s, t \in DOMAIN students : students[s] = students[t] => s = t
          /\ rooms \in Seq(RoomRow)
          /\ \A p, q \in DOMAIN rooms : rooms[p].code = rooms[q].code => p = q
          /\ exams \in Seq([course : Nat, students : SUBSET (DOMAIN students)])
          /\ sessions \in Seq(Seq(DOMAIN exams))
          /\ \A s \in DOMAIN sessions : sessions[s] # <<>>
        BY <1>3 DEF WellTyped, Database, RoomRow
    <2>3. lines' \in Seq(Line)
        BY <1>5
    <2> QED
        BY <1>9, <2>1, <2>2, <2>3 DEF WellTyped, RoomRow, Line
<1>11. ~overtaken => Consistent(Database')
    <2>1. ASSUME ~overtaken PROVE Consistent(Database')
        <3>1. Consistent(Database)
            BY <1>3, <2>1 DEF TablesSound
        <3>2. /\ \A x \in DOMAIN exams : exams[x].course # 0
              /\ \A i \in DOMAIN lines :
                    lines[i].exam \in DOMAIN exams /\ lines[i].room \in DOMAIN rooms
            BY <3>1, TablesResolve
        <3>3. lines'[n].exam = e /\ lines'[n].room = r
            BY <1>5
        <3> HIDE DEF line, n
        <3>4. \A i \in DOMAIN lines' :
                  lines'[i].exam \in DOMAIN exams /\ lines'[i].room \in DOMAIN rooms
            BY <1>5, <3>2, <3>3
        <3> QED
            BY <1>9, <1>10, <3>2, <3>4 DEF Consistent
    <2> QED
        BY <2>1
<1> HIDE DEF line, n
<1>12. Extended
    BY <1>2, <1>6, <1>7, <1>8 DEF Extended
<1> QED
    BY <1>2, <1>10, <1>11, <1>12, ExtendedStep

\* A database without rows.
LEMMA EmptyIsConsistent ==
    Consistent([students |-> <<>>, rooms |-> <<>>, exams |-> <<>>, lines |-> <<>>,
                sessions |-> <<>>])
<1>1. \A S : <<>> \in Seq(S)
    OBVIOUS
<1>2. DOMAIN <<>> = {}
    OBVIOUS
<1> QED
    BY <1>1, <1>2 DEF Consistent, WellTyped

\* No report that was under way is fresh any more, and no request's plan current.
LEMMA ResetStep ==
    ASSUME IInv, Reset
    PROVE  IInv'
<1>1. /\ students' = <<>> /\ rooms' = <<>> /\ exams' = <<>> /\ lines' = <<>> /\ sessions' = <<>>
      /\ generations' = <<>> /\ seatRows' = {} /\ resets' = resets + 1 /\ RepLeft
      /\ overtaken' \in BOOLEAN /\ run' = run
    BY DEF Reset, Loaded
<1>2. resets \in Nat
    BY DEF IInv, TablesSound
<1>3. TablesSound'
    <2>1. Consistent(Database)'
        BY <1>1, EmptyIsConsistent DEF Database
    <2>2. WellTyped(Database)'
        BY <2>1 DEF Consistent
    <2>3. DOMAIN generations' = {} /\ generations' \in Seq(Generation)
        BY <1>1
    <2>4. resets' \in Nat
        BY <1>1, <1>2
    <2>5. GenerationsSound' /\ RowsSound'
        BY <1>1, <2>3 DEF GenerationsSound, RowsSound
    <2> QED
        BY <1>1, <2>1, <2>2, <2>3, <2>4, <2>5 DEF TablesSound
<1>4. RunSound'
    <2>1. run # Idle => run.row \in Generation /\ run.row.since \in Nat /\ run.row.since <= resets
        BY DEF IInv, RunSound, RunTyped, Generation
    <2>2. run # Idle => run.row.since <= resets + 1 /\ run.row.since # resets + 1
        BY <1>2, <2>1
    <2>3. RunTyped'
        BY <1>1, <2>2 DEF IInv, RunSound, RunTyped
    <2>4. run # Idle => ~Current(run.row)'
        BY <1>1, <2>2 DEF Current
    <2> QED
        BY <1>1, <2>3, <2>4 DEF IInv, RunSound
<1>5. Reading' => Reading /\ rep' = rep
    BY <1>1 DEF Reading, RepLeft, Idle
<1>6. Reading => rep.since \in Nat /\ rep.since <= resets
    BY DEF IInv, ReportTyped, ReportFields, ReportRecord
<1>7. ReportTyped'
    BY <1>1, <1>2, <1>5, <1>6 DEF IInv, ReportTyped, ReportFields
<1>8. ~Fresh'
    BY <1>1, <1>2, <1>5, <1>6 DEF Fresh, Untouched
<1> QED
    BY <1>3, <1>4, <1>7, <1>8 DEF IInv, ReportSound

\* Without exams no sound generation and no plan is current.
LEMMA NothingCurrent ==
    ASSUME IInv, exams = <<>>
    PROVE  /\ \A g \in DOMAIN generations : ~Current(generations[g])
           /\ \A x \in seatRows : ~IsCurrent(x)
           /\ run # Idle => ~Current(run.row)
<1>1. TablesSound /\ WellTyped(Database)
    BY DEF IInv, TablesSound
<1>2. ASSUME NEW row, GenerationSound(row) PROVE FALSE
    <2>1. DOMAIN exams = {}
        OBVIOUS
    <2>2. PICK s \in DOMAIN sessions : TRUE
        BY <1>2, <2>1 DEF GenerationSound
    <2>3. sessions[s] \in Seq({}) /\ sessions[s] # <<>>
        BY <1>1, <2>1, TablesTyped
    <2>4. PICK ids : ids \in Seq({}) /\ ids # <<>>
        BY <2>3
    <2>5. Len(ids) # 0 /\ Len(ids) \in Nat
        BY <2>4
    <2>6. ids[1] \in {}
        <3>1. 1 \in 1..Len(ids)
            BY <2>5
        <3> QED
            BY <2>4, <3>1, ElementOfSeq
    <2> QED
        BY <2>6
<1>3. \A g \in DOMAIN generations : ~Current(generations[g])
    BY <1>1, <1>2 DEF TablesSound, GenerationsSound
<1>4. \A x \in seatRows : ~IsCurrent(x)
    BY <1>1, <1>3 DEF TablesSound, RowsSound, IsCurrent
<1>5. run # Idle => ~Current(run.row)
    BY <1>2 DEF IInv, RunSound
<1> QED
    BY <1>3, <1>4, <1>5

\* What is loaded then concerns no current generation and no fresh report.
LEMMA ReloadStep ==
    ASSUME IInv, Reload
    PROVE  IInv'
<1>1. PICK load :
          /\ load \in Loads \/ (overtaken /\ load \in OvertakenLoads)
          /\ students' = load.students /\ rooms' = load.rooms /\ exams' = load.exams
          /\ lines' = load.lines /\ sessions' = load.sessions
    BY DEF Reload, Loaded
<1>2. /\ generations' = generations /\ seatRows' = seatRows /\ resets' = resets /\ RepLeft
      /\ run' = run /\ overtaken' = overtaken /\ exams = <<>>
    BY DEF Reload, counters
<1>3. /\ \A g \in DOMAIN generations : ~Current(generations[g])
      /\ \A x \in seatRows : ~IsCurrent(x)
      /\ run # Idle => ~Current(run.row)
    BY <1>2, NothingCurrent
<1>4. TablesSound
    BY DEF IInv
<1>5. TablesSound'
    <2>1. load \in Loads => Consistent(load)
        BY LoadsAreConsistent DEF LoadsAssumption
    <2>2. WellTyped(load)
        BY <1>1, <2>1, LoadsAreConsistent DEF LoadsAssumption, Consistent
    <2>3. WellTyped(Database)'
        BY <1>1, <2>2 DEF WellTyped, Database
    <2>4. ~overtaken => Consistent(Database)'
        BY <1>1, <2>1, <2>3 DEF Consistent, Database
    <2>5. GenerationsSound'
        BY <1>2, <1>3 DEF GenerationsSound, Current
    <2>6. RowsSound'
        <3>1. /\ \A x \in seatRows : x.generation \in DOMAIN generations
              /\ \A x, y \in seatRows : OwnSeat(x, y)
            BY <1>4 DEF TablesSound, RowsSound
        <3>2. \A x \in seatRows : ~IsCurrent(x)'
            BY <1>2, <1>3 DEF IsCurrent, Current
        <3> QED
            BY <1>2, <3>1, <3>2 DEF RowsSound, OwnSeat
    <2> QED
        BY <1>2, <1>4, <2>3, <2>4, <2>5, <2>6 DEF TablesSound
<1>6. RunSound'
    BY <1>2, <1>3 DEF IInv, RunSound, RunTyped, Current
<1>7. Reading' => Reading /\ rep' = rep
    BY <1>2 DEF Reading, RepLeft, Idle
<1>8. ReportTyped'
    BY <1>2, <1>7 DEF IInv, ReportTyped, ReportFields
<1>9. ReportSound'
    <2> SUFFICES ASSUME Fresh' PROVE Started' /\ ListsRooms' /\ Draws'
        BY DEF ReportSound
    <2>1. Fresh /\ rep' = rep
        BY <1>2, <1>7 DEF Fresh, Untouched, Current
    <2>2. Started
        BY <2>1 DEF IInv, ReportSound
    <2>3. rep.of \notin DOMAIN generations
        BY <1>3, <2>1 DEF Fresh, Untouched
    <2>4. rep.at = "generation" /\ rep.stored = {}
        BY <2>2, <2>3 DEF Started
    <2> QED
        BY <2>1, <2>2, <2>4 DEF Started, ListsRooms, Draws, Listing
<1> QED
    BY <1>5, <1>6, <1>8, <1>9 DEF IInv
-----------------------------------------------------------------------------
(***************************************************************************)
(* The steps of a report keep the invariant.                               *)
(***************************************************************************)
LEMMA QuietTables ==
    ASSUME TablesSound, RunSound, UNCHANGED <<tables, run, overtaken, resets>>
    PROVE  TablesSound' /\ RunSound'
<1>1. /\ students' = students /\ rooms' = rooms /\ exams' = exams /\ lines' = lines
      /\ sessions' = sessions /\ generations' = generations /\ seatRows' = seatRows
      /\ run' = run /\ overtaken' = overtaken /\ resets' = resets
    BY DEF tables
<1>2. Extended
    BY <1>1 DEF Extended, UsesRoom, LineBefore
<1>3. Database' = Database
    BY <1>1 DEF Database
<1>4. WellTyped(Database)' /\ (~overtaken => Consistent(Database)')
    BY <1>3 DEF TablesSound
<1> QED
    BY <1>1, <1>2, <1>4, ExtendedTables, ExtendedRun

\* A step that ends the report.
LEMMA EndStep ==
    ASSUME IInv, UNCHANGED <<tables, run, overtaken, resets>>, rep'.at \in {"idle", "sent"}
    PROVE  IInv'
<1>1. TablesSound' /\ RunSound'
    BY QuietTables DEF IInv
<1>2. ReportTyped' /\ ReportSound'
    BY DEF IInv, ReportTyped, ReportSound, Reading, Fresh
<1> QED
    BY <1>1, <1>2 DEF IInv

\* What is visible of the tables in a step of the report.
LEMMA Unchanged ==
    ASSUME NEW report, Becomes(report)
    PROVE  /\ students' = students /\ rooms' = rooms /\ exams' = exams /\ lines' = lines
           /\ sessions' = sessions /\ generations' = generations /\ seatRows' = seatRows
           /\ resets' = resets /\ overtaken' = overtaken /\ rep' = report
           /\ UNCHANGED <<tables, run, overtaken, resets>>
BY DEF Becomes, tables, counters

\* A step that answers.
LEMMA SendStep ==
    ASSUME IInv, Reading, NEW answer, Send(answer)
    PROVE  IInv' /\ rep'.at = "sent" /\ rep'.answer = answer /\ rep'.kind = rep.kind
           /\ rep'.stored = rep.stored /\ rep'.pages = rep.pages
<1>1. PICK report : report = [rep EXCEPT !.at = "sent", !.answer = answer]
    OBVIOUS
<1>2. Becomes(report)
    BY <1>1 DEF Send
<1>3. rep' = report /\ UNCHANGED <<tables, run, overtaken, resets>>
    BY <1>2, Unchanged
<1>4. rep \in ReportRecord
    BY DEF IInv, ReportTyped, ReportFields
<1>5. /\ report.at = "sent" /\ report.answer = answer /\ report.kind = rep.kind
      /\ report.stored = rep.stored /\ report.pages = rep.pages
    BY <1>1, <1>4 DEF ReportRecord
<1>6. rep'.at = "sent"
    BY <1>3, <1>5
<1>7. IInv'
    BY <1>3, <1>6, EndStep
<1> QED
    BY <1>3, <1>5, <1>7

\* A step to another stage.
LEMMA StageStep ==
    ASSUME IInv, Reading, UNCHANGED <<tables, run, overtaken, resets>>,
           rep' \in ReportRecord, rep'.since = rep.since, rep'.of = rep.of,
           rep'.row \in Generation,
           Fresh => Started' /\ ListsRooms' /\ Draws'
    PROVE  IInv'
<1>1. TablesSound' /\ RunSound'
    BY QuietTables DEF IInv
<1>2. ReportTyped'
    BY DEF IInv, ReportTyped, ReportFields
<1>3. Fresh' => Fresh
    BY DEF Fresh, Untouched, Current, tables
<1> QED
    BY <1>1, <1>2, <1>3 DEF IInv, ReportSound

\* What a fresh report relies on.
LEMMA FreshFacts ==
    ASSUME IInv, Fresh
    PROVE  /\ rep \in ReportRecord /\ Started /\ ListsRooms /\ Draws
           /\ rep.of \in DOMAIN generations => GenerationSound(generations[rep.of])
           /\ \A x \in RowsOf(rep.of) : RowSound(x) /\ x.generation = rep.of
           /\ Consistent(Database)
<1>1. rep \in ReportRecord /\ Started /\ ListsRooms /\ Draws /\ Consistent(Database)
    BY DEF IInv, Fresh, Untouched, ReportTyped, ReportFields, ReportSound, TablesSound
<1>2. rep.of \in DOMAIN generations => Current(generations[rep.of])
    BY DEF Fresh, Untouched
<1>3. rep.of \in DOMAIN generations => GenerationSound(generations[rep.of])
    BY <1>2 DEF IInv, TablesSound, GenerationsSound
<1>4. \A x \in RowsOf(rep.of) : RowSound(x) /\ x.generation = rep.of
    BY <1>2 DEF IInv, TablesSound, RowsSound, RowsOf, IsCurrent
<1> QED
    BY <1>1, <1>3, <1>4

\* A new report has read nothing.
LEMMA RequestStep ==
    ASSUME IInv, Request
    PROVE  IInv'
<1>1. PICK kind \in Kinds, g \in 1..MaxGenerations :
          rep' = [kind |-> kind, of |-> g, at |-> "generation", row |-> <<>>,
                  rows |-> {}, ids |-> <<>>, k |-> 1, lines |-> <<>>, order |-> <<>>,
                  pages |-> <<>>, answer |-> "none", since |-> resets,
                  stored |-> RowsOf(g)]
    BY DEF Request
<1>2. /\ students' = students /\ rooms' = rooms /\ exams' = exams /\ lines' = lines
      /\ sessions' = sessions /\ generations' = generations /\ seatRows' = seatRows
      /\ resets' = resets /\ UNCHANGED <<tables, run, overtaken, resets>>
    BY DEF Request, tables, counters
<1>3. TablesSound' /\ RunSound'
    BY <1>2, QuietTables DEF IInv
<1>4. g \in Nat
    OBVIOUS
<1>5. /\ RowsOf(g) \in SUBSET SeatRow
      /\ RowsOf(g) # {} => g \in DOMAIN generations
    BY DEF IInv, TablesSound, RowsSound, RowsOf
<1>6. ReportTyped'
    BY <1>1, <1>2, <1>4, <1>5 DEF IInv, ReportTyped, ReportFields, ReportRecord, Stages
<1>7. Started'
    BY <1>1, <1>2, <1>5 DEF Started, RowsOf, Listing
<1>8. ListsRooms' /\ Draws'
    BY <1>1 DEF ListsRooms, Draws, Listing
<1> QED
    BY <1>3, <1>6, <1>7, <1>8 DEF IInv, ReportSound

\* The generation row is read.
LEMMA LoadGenerationStep ==
    ASSUME IInv, LoadGeneration
    PROVE  IInv'
<1>1. rep.at = "generation" /\ Reading
    BY DEF LoadGeneration, At, Reading
<1>2. CASE rep.of \notin DOMAIN generations
    BY <1>1, <1>2, SendStep DEF LoadGeneration
<1>3. CASE rep.of \in DOMAIN generations
    <2>1. PICK report : report = [Goto("rows") EXCEPT !.row = generations[rep.of]]
        OBVIOUS
    <2>2. Becomes(report)
        BY <1>3, <2>1 DEF LoadGeneration
    <2>3. /\ generations' = generations /\ seatRows' = seatRows
          /\ rep' = report /\ UNCHANGED <<tables, run, overtaken, resets>>
        BY <2>2, Unchanged
    <2>4. rep \in ReportRecord /\ generations[rep.of] \in Generation
        BY <1>1, <1>3 DEF IInv, ReportTyped, ReportFields, TablesSound
    <2>5. /\ report = [rep EXCEPT !.at = "rows", !.row = generations[rep.of]]
          /\ report \in ReportRecord /\ report.since = rep.since /\ report.of = rep.of
          /\ report.row \in Generation
        BY <2>1, <2>4 DEF ReportRecord, Goto, Stages
    <2>6. ASSUME Fresh PROVE Started' /\ ListsRooms' /\ Draws'
        <3>1. Started
            BY <2>6, FreshFacts
        <3>2. Started'
            BY <1>1, <1>3, <2>3, <2>4, <2>5, <3>1 DEF Started, RowsOf, Listing, ReportRecord
        <3>3. ListsRooms' /\ Draws'
            BY <2>3, <2>4, <2>5 DEF ListsRooms, Draws, Listing, ReportRecord
        <3> QED
            BY <3>2, <3>3
    <2> QED
        BY <1>1, <2>3, <2>5, <2>6, StageStep
<1> QED
    BY <1>2, <1>3

\* The rows of the generation are read, which nobody changes any more.
LEMMA LoadAssignmentsStep ==
    ASSUME IInv, LoadAssignments
    PROVE  IInv'
<1>1. rep.at = "rows" /\ Reading
    BY DEF LoadAssignments, At, Reading
<1>2. CASE RowsOf(rep.of) = {}
    BY <1>1, <1>2, SendStep DEF LoadAssignments
<1>3. CASE RowsOf(rep.of) # {}
    <2>1. PICK stage, ids :
              /\ \/ rep.row.exam # 0 /\ stage = "header" /\ ids = <<rep.row.exam>>
                 \/ rep.row.exam = 0 /\ stage = "session" /\ ids = <<>>
              /\ Becomes([Goto(stage) EXCEPT !.rows = RowsOf(rep.of), !.ids = ids])
        BY <1>3 DEF LoadAssignments
    <2>2. PICK report : report = [Goto(stage) EXCEPT !.rows = RowsOf(rep.of), !.ids = ids]
        OBVIOUS
    <2>3. /\ generations' = generations /\ seatRows' = seatRows
          /\ rep' = report /\ UNCHANGED <<tables, run, overtaken, resets>>
        BY <2>1, <2>2, Unchanged
    <2>4. rep \in ReportRecord /\ rep.row \in Generation /\ RowsOf(rep.of) \in SUBSET SeatRow
        BY <1>1 DEF IInv, ReportTyped, ReportFields, TablesSound, RowsOf
    <2>5. ids \in Seq(Nat) /\ stage \in Stages
        <3>1. PICK e : e = rep.row.exam
            OBVIOUS
        <3>2. e \in Nat /\ (ids = <<e>> \/ ids = <<>>)
            BY <2>1, <2>4, <3>1 DEF Generation
        <3>3. ids \in Seq(Nat)
            <4>1. e \in Nat
                BY <3>2
            <4>2. <<e>> \in Seq(Nat) /\ <<>> \in Seq(Nat)
                BY <4>1
            <4> QED
                BY <3>2, <4>2
        <3>4. stage \in Stages
            BY <2>1 DEF Stages
        <3> QED
            BY <3>3, <3>4
    <2>6. /\ report = [rep EXCEPT !.at = stage, !.rows = RowsOf(rep.of), !.ids = ids]
          /\ report \in ReportRecord /\ report.since = rep.since /\ report.of = rep.of
          /\ report.row = rep.row
        BY <2>2, <2>4, <2>5 DEF ReportRecord, Goto
    <2>7. ASSUME Fresh PROVE Started' /\ ListsRooms' /\ Draws'
        <3>1. Started
            BY <2>7, FreshFacts
        <3>2. Started'
            BY <1>1, <1>3, <2>1, <2>3, <2>4, <2>6, <3>1 DEF Started, RowsOf, Listing, IdsOf,
               ReportRecord
        <3>3. ListsRooms' /\ Draws'
            BY <2>1, <2>3, <2>4, <2>6 DEF ListsRooms, Draws, Listing, ReportRecord
        <3> QED
            BY <3>2, <3>3
    <2> QED
        BY <1>1, <2>3, <2>4, <2>6, <2>7, StageStep
<1> QED
    BY <1>2, <1>3

\* The session row is read.
LEMMA LoadSessionStep ==
    ASSUME IInv, LoadSession
    PROVE  IInv'
<1>1. rep.at = "session" /\ Reading
    BY DEF LoadSession, At, Reading
<1>2. CASE rep.row.session \notin DOMAIN sessions
    BY <1>1, <1>2, SendStep DEF LoadSession
<1>3. CASE rep.row.session \in DOMAIN sessions
    <2>1. PICK report : report = Goto("session_exams")
        OBVIOUS
    <2>2. Becomes(report)
        BY <1>3, <2>1 DEF LoadSession
    <2>3. /\ generations' = generations /\ seatRows' = seatRows
          /\ rep' = report /\ UNCHANGED <<tables, run, overtaken, resets>>
        BY <2>2, Unchanged
    <2>4. rep \in ReportRecord /\ rep.row \in Generation
        BY <1>1 DEF IInv, ReportTyped, ReportFields
    <2>5. /\ report = [rep EXCEPT !.at = "session_exams"]
          /\ report \in ReportRecord /\ report.since = rep.since /\ report.of = rep.of
          /\ report.row = rep.row
        BY <2>1, <2>4 DEF ReportRecord, Goto, Stages
    <2>6. ASSUME Fresh PROVE Started' /\ ListsRooms' /\ Draws'
        <3>1. Started
            BY <2>6, FreshFacts
        <3>2. Started'
            BY <1>1, <2>3, <2>4, <2>5, <3>1 DEF Started, RowsOf, Listing, ReportRecord
        <3>3. ListsRooms' /\ Draws'
            BY <2>3, <2>4, <2>5 DEF ListsRooms, Draws, Listing, ReportRecord
        <3> QED
            BY <3>2, <3>3
    <2> QED
        BY <1>1, <2>3, <2>4, <2>5, <2>6, StageStep
<1> QED
    BY <1>2, <1>3

\* A session's generation finds its session.
LEMMA SessionOnFile ==
    ASSUME IInv, Fresh, rep.at \in {"session", "session_exams"}
    PROVE  rep.row.exam = 0 /\ rep.row.session \in DOMAIN sessions
<1>1. /\ rep.of \in DOMAIN generations /\ rep.row = generations[rep.of]
      /\ rep.row.exam = 0
    BY FreshFacts DEF Started
<1>2. GenerationSound(rep.row)
    BY <1>1, FreshFacts
<1>3. 0 \notin DOMAIN exams
    <2>1. exams \in Seq([course : Nat, students : SUBSET (DOMAIN students)])
        BY TablesTyped DEF IInv, TablesSound
    <2>2. DOMAIN exams = 1..Len(exams)
        BY <2>1, LenProperties
    <2> QED
        BY <2>2
<1> QED
    BY <1>1, <1>2, <1>3 DEF GenerationSound

\* The exams of the session are read.
LEMMA LoadSessionExamsStep ==
    ASSUME IInv, LoadSessionExams
    PROVE  IInv'
<1>1. rep.at = "session_exams" /\ Reading
    BY DEF LoadSessionExams, At, Reading
<1>2. PICK ids : ids = IF rep.row.session \in DOMAIN sessions THEN sessions[rep.row.session]
                       ELSE <<>>
    OBVIOUS
<1>3. PICK report : report = [Goto("header") EXCEPT !.ids = ids]
    OBVIOUS
<1>4. Becomes(report)
    BY <1>2, <1>3 DEF LoadSessionExams
<1>5. /\ generations' = generations /\ seatRows' = seatRows /\ sessions' = sessions
      /\ rep' = report /\ UNCHANGED <<tables, run, overtaken, resets>>
    BY <1>4, Unchanged
<1>6. rep \in ReportRecord /\ rep.row \in Generation
    BY <1>1 DEF IInv, ReportTyped, ReportFields
<1>7. ids \in Seq(Nat)
    <2>1. /\ exams \in Seq([course : Nat, students : SUBSET (DOMAIN students)])
          /\ \A s \in DOMAIN sessions : sessions[s] \in Seq(DOMAIN exams)
        BY TablesTyped DEF IInv, TablesSound
    <2>2. DOMAIN exams \in SUBSET Nat
        <3>1. DOMAIN exams = 1..Len(exams)
            BY <2>1, LenProperties
        <3> QED
            BY <3>1
    <2>3. ids \in Seq(DOMAIN exams)
        <3>1. CASE rep.row.session \in DOMAIN sessions
            BY <1>2, <2>1, <3>1
        <3>2. CASE rep.row.session \notin DOMAIN sessions
            BY <1>2, <3>2, EmptySeq
        <3> QED
            BY <3>1, <3>2
    <2> QED
        BY <2>2, <2>3, SeqMonotonic
<1>8. /\ report = [rep EXCEPT !.at = "header", !.ids = ids]
      /\ report \in ReportRecord /\ report.since = rep.since /\ report.of = rep.of
      /\ report.row = rep.row
    BY <1>3, <1>6, <1>7 DEF ReportRecord, Goto, Stages
<1>9. ASSUME Fresh PROVE Started' /\ ListsRooms' /\ Draws'
    <2>1. Started
        BY <1>9, FreshFacts
    <2>2. rep.row.exam = 0 /\ ids = sessions[rep.row.session]
        BY <1>1, <1>2, <1>9, SessionOnFile
    <2>3. Started'
        BY <1>1, <1>5, <1>6, <1>8, <2>1, <2>2 DEF Started, RowsOf, Listing, IdsOf, ReportRecord
    <2>4. ListsRooms' /\ Draws'
        BY <1>5, <1>6, <1>8 DEF ListsRooms, Draws, Listing, ReportRecord
    <2> QED
        BY <2>3, <2>4
<1> QED
    BY <1>1, <1>5, <1>6, <1>8, <1>9, StageStep

\* The exams of a generation are on file, and each assignment is in a room of one.
LEMMA ExamsOnFile ==
    ASSUME IInv, Fresh, rep.at \in {"header"} \cup Listing
    PROVE  /\ rep.ids = IdsOf(rep.row) /\ rep.rows = RowsOf(rep.of)
           /\ \A n \in DOMAIN rep.ids : rep.ids[n] \in DOMAIN exams /\ CourseKnown(rep.ids[n])
           /\ rep.row.exam # 0 => rep.ids = <<rep.row.exam>>
           /\ \A x \in rep.rows : RowSound(x) /\ \E n \in DOMAIN rep.ids : UsesRoom(rep.ids[n], x.room)
<1>1. /\ rep.of \in DOMAIN generations /\ rep.row = generations[rep.of]
      /\ rep.ids = IdsOf(rep.row) /\ rep.rows = RowsOf(rep.of)
      /\ \A x \in RowsOf(rep.of) : RowSound(x) /\ x.generation = rep.of
    BY FreshFacts DEF Started, Listing
<1>2. GenerationSound(rep.row)
    BY <1>1, FreshFacts
<1>3. /\ exams \in Seq([course : Nat, students : SUBSET (DOMAIN students)])
      /\ \A s \in DOMAIN sessions : sessions[s] \in Seq(DOMAIN exams)
    BY TablesTyped DEF IInv, TablesSound
<1>4. 0 \notin DOMAIN exams
    <2>1. DOMAIN exams = 1..Len(exams)
        BY <1>3, LenProperties
    <2> QED
        BY <2>1
<1>5. rep.row.exam # 0 => rep.ids = <<rep.row.exam>>
    BY <1>1 DEF IdsOf
<1>6. ASSUME NEW n \in DOMAIN rep.ids PROVE rep.ids[n] \in DOMAIN exams
    <2>1. CASE rep.row.exam # 0
        <3>1. rep.row.exam \in DOMAIN exams
            BY <1>2, <2>1 DEF GenerationSound
        <3>2. rep.ids[n] = rep.row.exam
            BY <1>5, <2>1
        <3> QED
            BY <3>1, <3>2
    <2>2. CASE rep.row.exam = 0
        <3>1. rep.ids = sessions[rep.row.session] /\ rep.row.session \in DOMAIN sessions
            BY <1>1, <1>2, <1>4, <2>2 DEF GenerationSound, IdsOf
        <3>2. rep.ids \in Seq(DOMAIN exams)
            BY <1>3, <3>1
        <3> QED
            BY <3>2, ElementOfSeq
    <2> QED
        BY <2>1, <2>2
<1>7. \A x \in rep.rows : RowSound(x) /\ \E n \in DOMAIN rep.ids : UsesRoom(rep.ids[n], x.room)
    BY <1>1 DEF RowSound, SeatSound
<1>8. \A n \in DOMAIN rep.ids : CourseKnown(rep.ids[n])
    BY <1>6, FreshFacts, TablesResolve DEF CourseKnown
<1> QED
    BY <1>1, <1>5, <1>6, <1>7, <1>8

\* The exams and their courses are read.
LEMMA LoadHeaderStep ==
    ASSUME IInv, LoadHeader
    PROVE  IInv'
<1>1. rep.at = "header" /\ Reading
    BY DEF LoadHeader, At, Reading
<1>2. CASE ~\A i \in DOMAIN rep.ids : CourseKnown(rep.ids[i])
    BY <1>1, <1>2, SendStep DEF LoadHeader
<1>3. CASE \A i \in DOMAIN rep.ids : CourseKnown(rep.ids[i])
    <2>1. PICK report : report = Goto("lines")
        OBVIOUS
    <2>2. Becomes(report)
        BY <1>3, <2>1 DEF LoadHeader
    <2>3. /\ generations' = generations /\ seatRows' = seatRows /\ sessions' = sessions
          /\ rooms' = rooms /\ lines' = lines
          /\ rep' = report /\ UNCHANGED <<tables, run, overtaken, resets>>
        BY <2>2, Unchanged
    <2>4. rep \in ReportRecord /\ rep.row \in Generation
        BY <1>1 DEF IInv, ReportTyped, ReportFields
    <2>5. /\ report = [rep EXCEPT !.at = "lines"]
          /\ report \in ReportRecord /\ report.since = rep.since /\ report.of = rep.of
          /\ report.row = rep.row
        BY <2>1, <2>4 DEF ReportRecord, Goto, Stages
    <2>6. ASSUME Fresh PROVE Started' /\ ListsRooms' /\ Draws'
        <3>1. Started
            BY <2>6, FreshFacts
        <3>2. Started'
            BY <1>1, <2>3, <2>4, <2>5, <3>1 DEF Started, RowsOf, Listing, IdsOf, ReportRecord
        <3>3. rep.k = 1 /\ rep.order = <<>> /\ DOMAIN rep.ids = 1..Len(rep.ids)
              /\ Len(rep.ids) \in Nat
            BY <1>1, <2>4, <3>1 DEF Started, Listing, ReportRecord
        <3>4. \A x \in rep.rows : ToCome(1, x.room)
            BY <1>1, <2>6, <3>3, ExamsOnFile DEF ToCome
        <3>5. ListsRooms'
            BY <2>3, <2>4, <2>5, <3>3, <3>4 DEF ListsRooms, Listing, RoomList, Named, ToCome,
               UsesRoom, ReportRecord
        <3>6. Draws'
            BY <2>3, <2>4, <2>5 DEF Draws, ReportRecord
        <3> QED
            BY <3>2, <3>5, <3>6
    <2> QED
        BY <1>1, <2>3, <2>4, <2>5, <2>6, StageStep
<1> QED
    BY <1>2, <1>3

\* The rooms of the next exam.
LEMMA ListRoomsStep ==
    ASSUME IInv, ListRooms
    PROVE  IInv'
<1>1. rep.at = "lines" /\ Reading /\ ~Finished
    BY DEF ListRooms, At, Reading
<1>2. PICK e : e = rep.ids[rep.k]
    OBVIOUS
<1>3. PICK found : found = LinesOf(e)
    OBVIOUS
<1>4. PICK report : report = [Goto("lookup") EXCEPT !.lines = found]
    OBVIOUS
<1>5. Becomes(report)
    BY <1>2, <1>3, <1>4 DEF ListRooms
<1>6. /\ generations' = generations /\ seatRows' = seatRows /\ sessions' = sessions
      /\ rooms' = rooms /\ lines' = lines
      /\ rep' = report /\ UNCHANGED <<tables, run, overtaken, resets>>
    BY <1>5, Unchanged
<1>7. rep \in ReportRecord /\ rep.row \in Generation
    BY <1>1 DEF IInv, ReportTyped, ReportFields
<1>8. /\ found \in Seq(Line)
      /\ \A n \in DOMAIN found : UsesRoom(e, found[n].room)
      /\ \A r : UsesRoom(e, r) => In(found, r)
      /\ \A m, n \in DOMAIN found : found[m].room = found[n].room => m = n
      /\ \A m, n \in DOMAIN found : m < n => LineBefore(e, found[m].room, found[n].room)
    BY <1>3, LinesOfExam DEF IInv, TablesSound
<1>9. /\ report = [rep EXCEPT !.at = "lookup", !.lines = found]
      /\ report \in ReportRecord /\ report.since = rep.since /\ report.of = rep.of
      /\ report.row = rep.row
    BY <1>4, <1>7, <1>8 DEF ReportRecord, Goto, Stages
<1>10. ASSUME Fresh PROVE Started' /\ ListsRooms' /\ Draws'
    <2>1. Started /\ ListsRooms
        BY <1>10, FreshFacts
    <2>2. Started'
        BY <1>1, <1>6, <1>7, <1>9, <2>1 DEF Started, RowsOf, Listing, IdsOf, ReportRecord
    <2>3. /\ rep.k \in 1..(Len(rep.ids) + 1) /\ Len(rep.ids) \in Nat /\ rep.k <= Len(rep.ids)
          /\ RoomList(rep.order) /\ Named(rep.order) /\ (rep.k = 1 => rep.order = <<>>)
        BY <1>1, <1>7, <2>1 DEF ListsRooms, Listing, Finished, ReportRecord
    <2>4. rep.row.exam # 0 => e = rep.row.exam
        <3>1. rep.row.exam # 0 => rep.ids = <<rep.row.exam>>
            BY <1>1, <1>10, ExamsOnFile DEF Listing
        <3>2. ASSUME rep.row.exam # 0 PROVE rep.k = 1
            <4>1. Len(rep.ids) = 1
                <5>1. PICK e1 : rep.ids = <<e1>>
                    BY <3>1, <3>2
                <5> QED
                    BY <5>1
            <4> QED
                BY <2>3, <4>1
        <3> QED
            BY <1>2, <3>1, <3>2
    <2>5. RoomList(found)
        <3>1. \A n \in DOMAIN found : found[n].room \in DOMAIN rooms
            BY <1>8, <1>10, FreshFacts, TablesResolve
        <3> QED
            BY <1>8, <2>4, <3>1 DEF RoomList
    <2>6. ASSUME NEW x \in rep.rows
          PROVE  In(rep.order, x.room) \/ In(found, x.room) \/ ToCome(rep.k + 1, x.room)
        <3>1. In(rep.order, x.room) \/ ToCome(rep.k, x.room)
            BY <1>1, <2>1 DEF ListsRooms
        <3>2. ASSUME ToCome(rep.k, x.room) PROVE In(found, x.room) \/ ToCome(rep.k + 1, x.room)
            <4>1. PICK m \in rep.k..Len(rep.ids) : UsesRoom(rep.ids[m], x.room)
                BY <3>2 DEF ToCome
            <4>2. CASE m = rep.k
                BY <1>2, <1>8, <4>1, <4>2
            <4>3. CASE m # rep.k
                <5>1. m \in (rep.k + 1)..Len(rep.ids)
                    BY <2>3, <4>3
                <5> QED
                    BY <4>1, <5>1 DEF ToCome
            <4> QED
                BY <4>2, <4>3
        <3> QED
            BY <3>1, <3>2
    <2>7. /\ report.order = rep.order /\ report.lines = found /\ report.k = rep.k
          /\ report.ids = rep.ids /\ report.rows = rep.rows /\ report.at = "lookup"
        BY <1>7, <1>9 DEF ReportRecord
    <2>8. ListsRooms'
        BY <1>6, <1>9, <2>3, <2>5, <2>6, <2>7
        DEF ListsRooms, Listing, RoomList, Named, ToCome, In, UsesRoom, LineBefore
    <2>9. Draws'
        BY <1>6, <2>7 DEF Draws
    <2> QED
        BY <2>2, <2>8, <2>9
<1> QED
    BY <1>1, <1>6, <1>7, <1>9, <1>10, StageStep

\* What the rooms of one more exam add: the unseen ones, in their order.
LEMMA RoomsAdded ==
    ASSUME NEW S, NEW order \in Seq(S), NEW found \in Seq(S),
           \A i, j \in DOMAIN order : order[i].room = order[j].room => i = j,
           \A i, j \in DOMAIN found : found[i].room = found[j].room => i = j,
           NEW all, all = FirstAppearances(order, found)
    PROVE  /\ all \in Seq(S)
           /\ \A n \in DOMAIN all : \/ \E i \in DOMAIN order : all[n] = order[i]
                                    \/ \E i \in DOMAIN found : all[n] = found[i]
           /\ \A r : In(order, r) \/ In(found, r) => In(all, r)
           /\ \A m, n \in DOMAIN all : all[m].room = all[n].room => m = n
           /\ order = <<>> => \A m, n \in DOMAIN all : m < n =>
                 \E i, j \in DOMAIN found : i < j /\ all[m] = found[i] /\ all[n] = found[j]
<1> DEFINE unseen == {n \in DOMAIN found : \A i \in DOMAIN order : order[i].room # found[n].room}
           new == Chosen(found, unseen)
           at(n) == ChosenAt(unseen, n)
           c == Len(order)
<1>1. unseen \in SUBSET (DOMAIN found)
    OBVIOUS
<1>2. \A n \in unseen : \A i \in DOMAIN order : order[i].room # found[n].room
    OBVIOUS
<1>3. \A n \in DOMAIN found : n \notin unseen => In(order, found[n].room)
    BY DEF In
<1>4. all = order \o new
    BY DEF FirstAppearances
<1> HIDE DEF unseen
<1>5. /\ new \in Seq(S)
      /\ \A n \in DOMAIN new : at(n) \in unseen /\ new[n] = found[at(n)]
      /\ \A m, n \in DOMAIN new : m < n => at(m) < at(n)
      /\ \A i \in unseen : \E n \in DOMAIN new : at(n) = i
    <2>1. PICK list : list = Chosen(found, unseen)
        OBVIOUS
    <2>2. /\ list \in Seq(S)
          /\ \A n \in DOMAIN list :
                ChosenAt(unseen, n) \in unseen /\ list[n] = found[ChosenAt(unseen, n)]
          /\ \A m, n \in DOMAIN list : m < n => ChosenAt(unseen, m) < ChosenAt(unseen, n)
          /\ \A i \in unseen : \E n \in DOMAIN list : ChosenAt(unseen, n) = i
        BY <1>1, <2>1, ChosenOrder
    <2> QED
        BY <2>1, <2>2
<1> HIDE DEF new, at
<1>6. /\ all \in Seq(S) /\ c \in Nat /\ Len(new) \in Nat
      /\ DOMAIN order = 1..c /\ DOMAIN new = 1..Len(new) /\ DOMAIN all = 1..(c + Len(new))
      /\ \A n \in 1..(c + Len(new)) : all[n] = IF n <= c THEN order[n] ELSE new[n - c]
    BY <1>4, <1>5, ConcatProperties
<1> HIDE DEF c
<1>7. ASSUME NEW n \in DOMAIN all
      PROVE  \/ n \in DOMAIN order /\ all[n] = order[n]
             \/ ~(n <= c) /\ n - c \in DOMAIN new /\ all[n] = found[at(n - c)] /\ at(n - c) \in unseen
    BY <1>5, <1>6
<1>8. \A n \in DOMAIN all : \/ \E i \in DOMAIN order : all[n] = order[i]
                            \/ \E i \in DOMAIN found : all[n] = found[i]
    BY <1>1, <1>7
<1>9. ASSUME NEW r, In(order, r) PROVE In(all, r)
    <2>1. PICK i \in DOMAIN order : order[i].room = r
        BY <1>9 DEF In
    <2>2. i \in DOMAIN all /\ all[i] = order[i]
        BY <1>6, <2>1
    <2> QED
        BY <2>1, <2>2 DEF In
<1>10. ASSUME NEW r, In(found, r) PROVE In(all, r)
    <2>1. PICK i \in DOMAIN found : found[i].room = r
        BY <1>10 DEF In
    <2>2. CASE i \notin unseen
        BY <1>3, <1>9, <2>1, <2>2
    <2>3. CASE i \in unseen
        <3>1. PICK n \in DOMAIN new : at(n) = i
            BY <1>5, <2>3
        <3>2. new[n] = found[i]
            BY <1>5, <3>1
        <3>3. n + c \in DOMAIN all /\ all[n + c] = new[n]
            BY <1>6
        <3> QED
            BY <2>1, <3>2, <3>3 DEF In
    <2> QED
        BY <2>2, <2>3
<1>11. ASSUME NEW m \in DOMAIN all, NEW n \in DOMAIN all, all[m].room = all[n].room PROVE m = n
    <2>1. CASE m \in DOMAIN order /\ n \in DOMAIN order
        BY <1>6, <1>11, <2>1
    <2>2. CASE m \notin DOMAIN order /\ n \notin DOMAIN order
        <3>1. /\ m - c \in DOMAIN new /\ all[m] = found[at(m - c)] /\ at(m - c) \in unseen
              /\ n - c \in DOMAIN new /\ all[n] = found[at(n - c)] /\ at(n - c) \in unseen
            BY <1>7, <2>2
        <3>2. at(m - c) = at(n - c)
            BY <1>1, <1>11, <3>1
        <3>3. /\ unseen \in SUBSET Nat /\ m - c \in Nat /\ n - c \in Nat
            BY <1>1, <1>6, <3>1
        <3>4. ~(m - c < n - c) /\ ~(n - c < m - c)
            BY <1>5, <3>1, <3>2, <3>3
        <3> QED
            BY <1>6, <3>3, <3>4
    <2>3. CASE m \in DOMAIN order /\ n \notin DOMAIN order
        <3>1. all[m] = order[m]
            BY <1>6, <2>3
        <3>2. all[n] = found[at(n - c)] /\ at(n - c) \in unseen
            BY <1>7, <2>3
        <3> QED
            BY <1>2, <1>11, <2>3, <3>1, <3>2
    <2>4. CASE m \notin DOMAIN order /\ n \in DOMAIN order
        <3>1. all[n] = order[n]
            BY <1>6, <2>4
        <3>2. all[m] = found[at(m - c)] /\ at(m - c) \in unseen
            BY <1>7, <2>4
        <3> QED
            BY <1>2, <1>11, <2>4, <3>1, <3>2
    <2> QED
        BY <2>1, <2>2, <2>3, <2>4
<1>12. ASSUME order = <<>>, NEW m \in DOMAIN all, NEW n \in DOMAIN all, m < n
       PROVE  \E i, j \in DOMAIN found : i < j /\ all[m] = found[i] /\ all[n] = found[j]
    <2>1. c = 0
        BY <1>12 DEF c
    <2>2. /\ m \in DOMAIN new /\ all[m] = found[at(m)] /\ at(m) \in unseen
          /\ n \in DOMAIN new /\ all[n] = found[at(n)] /\ at(n) \in unseen
        <3>1. m \in DOMAIN new /\ all[m] = new[m] /\ n \in DOMAIN new /\ all[n] = new[n]
            BY <1>6, <2>1
        <3> QED
            BY <1>5, <3>1
    <2>3. at(m) < at(n)
        BY <1>5, <1>12, <2>2
    <2> QED
        BY <1>1, <2>2, <2>3
<1> QED
    BY <1>6, <1>8, <1>9, <1>10, <1>11, <1>12

\* Rooms added to a list of rooms make a list of rooms.
LEMMA AddedIsList ==
    ASSUME NEW S, NEW order \in Seq(S), NEW found \in Seq(S)
    PROVE  FirstAppearances(order, found) \in Seq(S)
<1> DEFINE unseen == {n \in DOMAIN found : \A i \in DOMAIN order : order[i].room # found[n].room}
<1>1. unseen \in SUBSET (DOMAIN found)
    OBVIOUS
<1>2. FirstAppearances(order, found) = order \o Chosen(found, unseen)
    BY DEF FirstAppearances
<1> HIDE DEF unseen
<1>3. Chosen(found, unseen) \in Seq(S)
    BY <1>1, ChosenIsSequence
<1> QED
    BY <1>2, <1>3, ConcatProperties

\* The rooms of one more exam are listed, where they were not listed before.
LEMMA LookUpRoomsStep ==
    ASSUME IInv, LookUpRooms
    PROVE  IInv'
<1>1. rep.at = "lookup" /\ Reading
    BY DEF LookUpRooms, At, Reading
<1>2. CASE ~\A i \in DOMAIN rep.lines : rep.lines[i].room \in DOMAIN rooms
    BY <1>1, <1>2, SendStep DEF LookUpRooms
<1>3. CASE \A i \in DOMAIN rep.lines : rep.lines[i].room \in DOMAIN rooms
    <2>1. PICK found : found = [i \in DOMAIN rep.lines |-> RoomOf(rep.lines[i].room)]
        OBVIOUS
    <2>2. PICK all : all = FirstAppearances(rep.order, found)
        OBVIOUS
    <2>3. PICK report : report = [Goto("lines") EXCEPT !.k = @ + 1, !.order = all]
        OBVIOUS
    <2>4. rep \in ReportRecord /\ rep.row \in Generation
        BY <1>1 DEF IInv, ReportTyped, ReportFields
    <2>5. report = [Goto("lines") EXCEPT !.k = @ + 1,
                                         !.order = FirstAppearances(@, InLineOrder(found))]
        BY <2>2, <2>3, <2>4 DEF InLineOrder, Goto, ReportRecord
    <2>6. Becomes(report)
        BY <1>3, <2>1, <2>5 DEF LookUpRooms
    <2>7. /\ generations' = generations /\ seatRows' = seatRows /\ sessions' = sessions
          /\ rooms' = rooms /\ lines' = lines
          /\ rep' = report /\ UNCHANGED <<tables, run, overtaken, resets>>
        BY <2>6, Unchanged
    <2>8. /\ found \in Seq(Entry) /\ DOMAIN found = DOMAIN rep.lines
          /\ \A i \in DOMAIN found : /\ found[i].room = rep.lines[i].room
                                     /\ found[i].code = rooms[rep.lines[i].room].code
        <3>1. rep.lines \in Seq(Line)
            BY <2>4 DEF ReportRecord
        <3>2. DOMAIN rep.lines = 1..Len(rep.lines) /\ Len(rep.lines) \in Nat
            BY <3>1
        <3>3. \A r \in DOMAIN rooms : rooms[r].code \in STRING /\ r \in Nat
            <4>1. rooms \in Seq(RoomRow) /\ \A r \in DOMAIN rooms : rooms[r] \in RoomRow
                BY TablesTyped DEF IInv, TablesSound
            <4> QED
                BY <4>1 DEF RoomRow
        <3>4. \A i \in DOMAIN rep.lines : RoomOf(rep.lines[i].room) \in Entry
            BY <1>3, <3>3 DEF RoomOf, Entry
        <3>5. found \in [1..Len(rep.lines) -> Entry]
            BY <2>1, <3>2, <3>4
        <3>6. found \in Seq(Entry)
            BY <3>2, <3>5
        <3> QED
            BY <2>1, <3>6 DEF RoomOf
    <2>9. rep.order \in Seq(Entry) /\ rep.k \in Nat
        BY <2>4 DEF ReportRecord
    <2>10. all \in Seq(Entry)
        BY <2>2, <2>8, <2>9, AddedIsList
    <2>11. /\ report = [rep EXCEPT !.at = "lines", !.k = rep.k + 1, !.order = all]
           /\ report \in ReportRecord /\ report.since = rep.since /\ report.of = rep.of
           /\ report.row = rep.row
        <3>1. Goto("lines") \in ReportRecord
            BY <2>4 DEF ReportRecord, Goto, Stages
        <3>2. report = [Goto("lines") EXCEPT !.k = Goto("lines").k + 1, !.order = all]
            BY <2>3
        <3>3. Goto("lines").k = rep.k
            BY <2>4 DEF ReportRecord, Goto
        <3>4. report = [rep EXCEPT !.at = "lines", !.k = rep.k + 1, !.order = all]
            BY <2>4, <3>2, <3>3 DEF ReportRecord, Goto
        <3>5. rep.k + 1 \in Nat \ {0}
            BY <2>9
        <3>6. report \in ReportRecord
            BY <2>4, <2>10, <3>4, <3>5 DEF ReportRecord, Stages
        <3> QED
            BY <2>4, <3>4, <3>6 DEF ReportRecord
    <2>12. ASSUME Fresh PROVE Started' /\ ListsRooms' /\ Draws'
        <3>1. Started /\ ListsRooms
            BY <2>12, FreshFacts
        <3>2. Started'
            BY <1>1, <2>4, <2>7, <2>11, <3>1 DEF Started, RowsOf, Listing, IdsOf, ReportRecord
        <3>3. /\ rep.k \in 1..(Len(rep.ids) + 1) /\ Len(rep.ids) \in Nat /\ rep.k <= Len(rep.ids)
              /\ RoomList(rep.order) /\ Named(rep.order) /\ (rep.k = 1 => rep.order = <<>>)
              /\ RoomList(rep.lines)
            BY <1>1, <2>4, <3>1 DEF ListsRooms, Listing, ReportRecord
        <3>4. rep.row.exam # 0 => rep.order = <<>>
            <4>1. rep.row.exam # 0 => rep.ids = <<rep.row.exam>>
                BY <1>1, <2>12, ExamsOnFile DEF Listing
            <4>2. ASSUME rep.row.exam # 0 PROVE rep.k = 1
                <5>1. PICK e1 : rep.ids = <<e1>>
                    BY <4>1, <4>2
                <5>2. Len(rep.ids) = 1
                    BY <5>1
                <5> QED
                    BY <3>3, <5>2
            <4> QED
                BY <3>3, <4>2
        <3>5. /\ \A i, j \in DOMAIN rep.order : rep.order[i].room = rep.order[j].room => i = j
              /\ \A i, j \in DOMAIN found : found[i].room = found[j].room => i = j
            BY <2>8, <3>3 DEF RoomList
        <3>6. /\ \A n \in DOMAIN all : \/ \E i \in DOMAIN rep.order : all[n] = rep.order[i]
                                       \/ \E i \in DOMAIN found : all[n] = found[i]
              /\ \A r : In(rep.order, r) \/ In(found, r) => In(all, r)
              /\ \A m, n \in DOMAIN all : all[m].room = all[n].room => m = n
              /\ rep.order = <<>> => \A m, n \in DOMAIN all : m < n =>
                    \E i, j \in DOMAIN found : i < j /\ all[m] = found[i] /\ all[n] = found[j]
            BY <2>2, <2>8, <2>9, <3>5, RoomsAdded
        <3>7. RoomList(all)
            <4>1. \A n \in DOMAIN all : all[n].room \in DOMAIN rooms
                BY <1>3, <2>8, <3>3, <3>6 DEF RoomList
            <4>2. ASSUME rep.row.exam # 0, NEW m \in DOMAIN all, NEW n \in DOMAIN all, m < n
                  PROVE  LineBefore(rep.row.exam, all[m].room, all[n].room)
                <5>1. PICK i \in DOMAIN found, j \in DOMAIN found :
                          i < j /\ all[m] = found[i] /\ all[n] = found[j]
                    BY <3>4, <3>6, <4>2
                <5>2. LineBefore(rep.row.exam, rep.lines[i].room, rep.lines[j].room)
                    BY <2>8, <3>3, <4>2, <5>1 DEF RoomList
                <5> QED
                    BY <2>8, <5>1, <5>2
            <4> QED
                BY <3>6, <4>1, <4>2 DEF RoomList
        <3>8. Named(all)
            BY <2>8, <3>3, <3>6 DEF Named
        <3>9. ASSUME NEW x \in rep.rows PROVE In(all, x.room) \/ ToCome(rep.k + 1, x.room)
            <4>1. \/ In(rep.order, x.room) \/ In(rep.lines, x.room)
                  \/ ToCome(rep.k + 1, x.room)
                BY <1>1, <3>1 DEF ListsRooms
            <4>2. In(rep.lines, x.room) => In(found, x.room)
                BY <2>8 DEF In
            <4> QED
                BY <3>6, <4>1, <4>2
        <3>10. /\ report.order = all /\ report.k = rep.k + 1
               /\ report.ids = rep.ids /\ report.rows = rep.rows /\ report.at = "lines"
            BY <2>4, <2>11 DEF ReportRecord
        <3>11. ListsRooms'
            BY <2>7, <2>11, <3>3, <3>7, <3>8, <3>9, <3>10
            DEF ListsRooms, Listing, RoomList, Named, ToCome, In, UsesRoom, LineBefore
        <3>12. Draws'
            BY <2>7, <3>10 DEF Draws
        <3> QED
            BY <3>2, <3>11, <3>12
    <2> QED
        BY <1>1, <2>4, <2>7, <2>11, <2>12, StageStep
<1> QED
    BY <1>2, <1>3

\* The list is complete.
LEMMA RoomsListedStep ==
    ASSUME IInv, RoomsListed
    PROVE  IInv'
<1>1. rep.at = "lines" /\ Reading /\ Finished
    BY DEF RoomsListed, At, Reading
<1>2. PICK stage : /\ \/ rep.kind = "map" /\ stage = "courses"
                      \/ rep.kind # "map" /\ stage = "students"
                   /\ Becomes([Goto(stage) EXCEPT !.k = 1])
    BY DEF RoomsListed
<1>3. PICK report : report = [Goto(stage) EXCEPT !.k = 1]
    OBVIOUS
<1>4. /\ generations' = generations /\ seatRows' = seatRows /\ sessions' = sessions
      /\ rooms' = rooms /\ lines' = lines
      /\ rep' = report /\ UNCHANGED <<tables, run, overtaken, resets>>
    BY <1>2, <1>3, Unchanged
<1>5. rep \in ReportRecord /\ rep.row \in Generation
    BY <1>1 DEF IInv, ReportTyped, ReportFields
<1>6. /\ report = [rep EXCEPT !.at = stage, !.k = 1]
      /\ report \in ReportRecord /\ report.since = rep.since /\ report.of = rep.of
      /\ report.row = rep.row
    <2>1. stage \in Stages /\ 1 \in Nat \ {0}
        BY <1>2 DEF Stages
    <2>2. report = [rep EXCEPT !.at = stage, !.k = 1]
        BY <1>3, <1>5 DEF ReportRecord, Goto
    <2> QED
        BY <1>5, <2>1, <2>2 DEF ReportRecord
<1>7. ASSUME Fresh PROVE Started' /\ ListsRooms' /\ Draws'
    <2>1. Started /\ ListsRooms
        BY <1>7, FreshFacts
    <2>2. Started'
        BY <1>1, <1>2, <1>4, <1>5, <1>6, <2>1 DEF Started, RowsOf, Listing, IdsOf, ReportRecord
    <2>3. RoomList(rep.order) /\ Named(rep.order) /\ rep.k > Len(rep.ids)
          /\ Len(rep.ids) \in Nat /\ rep.k \in Nat
        BY <1>1, <1>5, <2>1 DEF ListsRooms, Listing, Finished, ReportRecord
    <2>4. \A x \in rep.rows : In(rep.order, x.room)
        <3>1. \A x \in rep.rows : In(rep.order, x.room) \/ ToCome(rep.k, x.room)
            BY <1>1, <2>1 DEF ListsRooms
        <3>2. \A r : ~ToCome(rep.k, r)
            BY <2>3 DEF ToCome
        <3> QED
            BY <3>1, <3>2
    <2>5. /\ report.order = rep.order /\ report.rows = rep.rows
          /\ report.at \in {"students", "courses"}
        BY <1>2, <1>5, <1>6 DEF ReportRecord
    <2>6. ListsRooms'
        BY <1>4, <1>6, <2>3, <2>4, <2>5 DEF ListsRooms, Listing, RoomList, Named, In, LineBefore
    <2>7. Draws'
        BY <1>4, <2>5 DEF Draws
    <2> QED
        BY <2>2, <2>6, <2>7
<1> QED
    BY <1>1, <1>4, <1>5, <1>6, <1>7, StageStep

\* The courses of a seat map are read.
LEMMA LoadCoursesStep ==
    ASSUME IInv, LoadCourses
    PROVE  IInv'
<1>1. rep.at = "courses" /\ Reading
    BY DEF LoadCourses, At, Reading
<1>2. CASE ~\A x \in rep.rows : CourseKnown(x.exam)
    BY <1>1, <1>2, SendStep DEF LoadCourses
<1>3. CASE \A x \in rep.rows : CourseKnown(x.exam)
    <2>1. PICK report : report = Goto("grids")
        OBVIOUS
    <2>2. Becomes(report)
        BY <1>3, <2>1 DEF LoadCourses
    <2>3. /\ generations' = generations /\ seatRows' = seatRows /\ sessions' = sessions
          /\ rooms' = rooms /\ lines' = lines
          /\ rep' = report /\ UNCHANGED <<tables, run, overtaken, resets>>
        BY <2>2, Unchanged
    <2>4. rep \in ReportRecord /\ rep.row \in Generation
        BY <1>1 DEF IInv, ReportTyped, ReportFields
    <2>5. /\ report = [rep EXCEPT !.at = "grids"]
          /\ report \in ReportRecord /\ report.since = rep.since /\ report.of = rep.of
          /\ report.row = rep.row
        BY <2>1, <2>4 DEF ReportRecord, Goto, Stages
    <2>6. ASSUME Fresh PROVE Started' /\ ListsRooms' /\ Draws'
        <3>1. Started /\ ListsRooms
            BY <2>6, FreshFacts
        <3>2. Started'
            BY <1>1, <2>3, <2>4, <2>5, <3>1 DEF Started, RowsOf, Listing, IdsOf, ReportRecord
        <3>3. /\ RoomList(rep.order) /\ Named(rep.order)
              /\ \A x \in rep.rows : In(rep.order, x.room)
            BY <1>1, <3>1 DEF ListsRooms, Listing
        <3>4. /\ report.order = rep.order /\ report.rows = rep.rows /\ report.at = "grids"
              /\ report.k = 1 /\ report.pages = <<>> /\ Len(rep.order) \in Nat
            BY <1>1, <2>4, <2>5, <3>1 DEF ReportRecord, Started, Listing
        <3>5. ListsRooms'
            BY <2>3, <2>5, <3>3, <3>4 DEF ListsRooms, Listing, RoomList, Named, In, LineBefore
        <3>6. Draws'
            BY <2>3, <3>4 DEF Draws
        <3> QED
            BY <3>2, <3>5, <3>6
    <2> QED
        BY <1>1, <2>3, <2>4, <2>5, <2>6, StageStep
<1> QED
    BY <1>2, <1>3
-----------------------------------------------------------------------------
(***************************************************************************)
(* Pages.                                                                  *)
(***************************************************************************)
OnePerSeat(rows) == \A x, y \in rows : x.seat = y.seat => x = y

\* A cell shows a student who sits there.
LEMMA CellsShowStudents ==
    ASSUME NEW rows
    PROVE  /\ DOMAIN CellsOf(rows) = {x.seat : x \in rows}
           /\ \A n \in DOMAIN CellsOf(rows) : \E x \in rows :
                 x.seat = n /\ CellsOf(rows)[n] = students[x.student]
           /\ OnePerSeat(rows) => \A x \in rows : CellsOf(rows)[x.seat] = students[x.student]
<1> DEFINE sitter(n) == CHOOSE x \in rows : x.seat = n
<1>1. \A x \in rows : sitter(x.seat) \in rows /\ sitter(x.seat).seat = x.seat
    OBVIOUS
<1>2. /\ DOMAIN CellsOf(rows) = {x.seat : x \in rows}
      /\ \A x \in rows : CellsOf(rows)[x.seat] = students[sitter(x.seat).student]
    BY DEF CellsOf
<1> HIDE DEF sitter
<1>3. OnePerSeat(rows) => \A x \in rows : sitter(x.seat) = x
    BY <1>1 DEF OnePerSeat
<1> QED
    BY <1>1, <1>2, <1>3

\* The rows a report is drawn from.
LEMMA RowsOnFile ==
    ASSUME IInv, Fresh, rep.at \in Listing
    PROVE  /\ rep.rows # {} /\ rep.rows = RowsOf(rep.of) /\ rep.rows \in SUBSET SeatRow
           /\ \A x \in rep.rows : /\ x.student \in DOMAIN students
                                  /\ students[x.student] \in Nat
                                  /\ x.exam \in DOMAIN exams /\ CourseKnown(x.exam)
                                  /\ x.room \in DOMAIN rooms
                                  /\ x.seat \in 1..rooms[x.room].capacity
           /\ \A r : OnePerSeat(InRoom(rep.rows, r))
<1>1. /\ rep.rows # {} /\ rep.rows = RowsOf(rep.of) /\ rep \in ReportRecord
      /\ \A x \in RowsOf(rep.of) : RowSound(x) /\ x.generation = rep.of
    BY FreshFacts DEF Started, Listing
<1>2. rep.rows \in SUBSET SeatRow
    BY <1>1 DEF ReportRecord
<1>3. \A x, y \in RowsOf(rep.of) : OwnSeat(x, y)
    BY DEF IInv, TablesSound, RowsSound, RowsOf
<1>4. \A r : OnePerSeat(InRoom(rep.rows, r))
    BY <1>1, <1>3 DEF OnePerSeat, InRoom, OwnSeat
<1>5. \A s \in DOMAIN students : students[s] \in Nat
    <2>1. students \in Seq(Nat)
        BY TablesTyped DEF IInv, TablesSound
    <2> QED
        BY <2>1
<1>6. \A x \in rep.rows : SeatSound(generations[x.generation], x)
    BY <1>1 DEF RowSound
<1>7. \A x \in rep.rows : CourseKnown(x.exam)
    BY <1>6, FreshFacts, TablesResolve DEF CourseKnown, SeatSound
<1> QED
    BY <1>1, <1>2, <1>4, <1>5, <1>6, <1>7 DEF SeatSound

\* The page drawn for a room, whatever is on file by now.
LEMMA PageTyped ==
    ASSUME NEW rows \in SUBSET SeatRow, NEW entry \in Entry, Drawable(entry, rows),
           rooms \in Seq(RoomRow), students \in Seq(Nat),
           NEW page, page = [code |-> entry.code, grid |-> HasTopology(rooms[entry.room]),
                             cells |-> CellsOf(Visible(rooms[entry.room], rows))]
    PROVE  page \in MapPage
<1>1. PICK seen : seen = Visible(rooms[entry.room], rows)
    OBVIOUS
<1>2. PICK cells : cells = CellsOf(seen)
    OBVIOUS
<1>3. page = [code |-> entry.code, grid |-> HasTopology(rooms[entry.room]), cells |-> cells]
    BY <1>1, <1>2
<1>4. rooms[entry.room] \in RoomRow
    BY DEF Drawable
<1>5. /\ seen \in SUBSET rows
      /\ \A x \in seen : HasTopology(rooms[entry.room])
                         /\ x.seat \in UsableSeats(rooms[entry.room])
    BY <1>1 DEF Visible
<1>6. /\ DOMAIN cells = {x.seat : x \in seen}
      /\ \A n \in DOMAIN cells : \E x \in seen : x.seat = n /\ cells[n] = students[x.student]
    <2>1. /\ DOMAIN CellsOf(seen) = {x.seat : x \in seen}
          /\ \A n \in DOMAIN CellsOf(seen) : \E x \in seen :
                x.seat = n /\ CellsOf(seen)[n] = students[x.student]
        BY CellsShowStudents
    <2> QED
        BY <1>2, <2>1
<1>7. \A x \in seen : x.student \in DOMAIN students
    <2>1. \A x \in seen : x.seat <= rooms[entry.room].capacity
        <3>1. rooms[entry.room].capacity \in Nat
            BY <1>4 DEF RoomRow
        <3>2. \A x \in seen : x.seat \in 1..rooms[entry.room].capacity
            BY <1>5 DEF UsableSeats, SeatNumbers
        <3> QED
            BY <3>1, <3>2
    <2> QED
        BY <1>5, <2>1 DEF Drawable, StudentsKnown
<1>8. \A s \in DOMAIN students : students[s] \in Nat
    OBVIOUS
<1>9. DOMAIN cells \in SUBSET Nat /\ \A n \in DOMAIN cells : cells[n] \in Nat
    <2>1. \A x \in rows : x.seat \in Nat
        BY DEF SeatRow
    <2> QED
        BY <1>5, <1>6, <1>7, <1>8, <2>1
<1>10. cells \in UNION {[S -> Nat] : S \in SUBSET Nat}
    <2>1. cells = [n \in DOMAIN cells |-> cells[n]]
        BY <1>2 DEF CellsOf
    <2>2. cells \in [DOMAIN cells -> Nat]
        BY <1>9, <2>1
    <2> QED
        BY <1>9, <2>2
<1>11. entry.code \in STRING /\ HasTopology(rooms[entry.room]) \in BOOLEAN
    BY DEF Entry, HasTopology
<1> QED
    BY <1>3, <1>10, <1>11 DEF MapPage

\* As long as nothing was reset, it is the page of that room.
LEMMA PageDrawn ==
    ASSUME NEW rows, NEW r, OnePerSeat(InRoom(rows, r)), InRoom(rows, r) # {},
           \A x \in InRoom(rows, r) : x.seat \in 1..rooms[r].capacity,
           NEW page, page = [code |-> rooms[r].code, grid |-> HasTopology(rooms[r]),
                             cells |-> CellsOf(Visible(rooms[r], InRoom(rows, r)))]
    PROVE  PageFor(page, r, rows)
<1>1. PICK seen : seen = Visible(rooms[r], InRoom(rows, r))
    OBVIOUS
<1>2. PICK cells : cells = CellsOf(seen)
    OBVIOUS
<1>3. /\ page.code = rooms[r].code /\ page.grid = HasTopology(rooms[r])
      /\ page.cells = cells
    BY <1>1, <1>2
<1>4. /\ seen \in SUBSET InRoom(rows, r)
      /\ \A x \in InRoom(rows, r) : HasTopology(rooms[r]) /\ x.seat \in UsableSeats(rooms[r])
                                     <=> x \in seen
    BY <1>1 DEF Visible
<1>5. OnePerSeat(seen)
    BY <1>4 DEF OnePerSeat
<1>6. /\ DOMAIN cells = {x.seat : x \in seen}
      /\ \A n \in DOMAIN cells : \E x \in seen : x.seat = n /\ cells[n] = students[x.student]
    <2>1. /\ DOMAIN CellsOf(seen) = {x.seat : x \in seen}
          /\ \A n \in DOMAIN CellsOf(seen) : \E x \in seen :
                x.seat = n /\ CellsOf(seen)[n] = students[x.student]
        BY CellsShowStudents
    <2> QED
        BY <1>2, <2>1
<1>7. ASSUME NEW x \in InRoom(rows, r), x.seat \notin DOMAIN cells, HasTopology(rooms[r])
      PROVE  x.seat \in rooms[r].blocked
    <2>1. x.seat \notin UsableSeats(rooms[r])
        BY <1>4, <1>6, <1>7
    <2> QED
        BY <2>1 DEF UsableSeats, SeatNumbers
<1>8. \A n \in DOMAIN cells : \E x \in InRoom(rows, r) : x.seat = n
    BY <1>4, <1>6
<1>9. ASSUME NEW x \in InRoom(rows, r), x.seat \in DOMAIN cells
      PROVE  cells[x.seat] = students[x.student]
    <2>1. PICK y \in seen : y.seat = x.seat /\ cells[x.seat] = students[y.student]
        BY <1>6, <1>9
    <2>2. y = x
        BY <1>4, <2>1 DEF OnePerSeat
    <2> QED
        BY <2>1, <2>2
<1> QED
    BY <1>3, <1>7, <1>8, <1>9 DEF PageFor

\* What a report that draws room after room is about to draw.
LEMMA NextRoom ==
    ASSUME IInv, Fresh, rep.at = "grids", rep.k <= Len(rep.order)
    PROVE  /\ rep.k \in DOMAIN rep.order
           /\ rep.order[rep.k].room \in DOMAIN rooms
           /\ rep.order[rep.k] = [room |-> rep.order[rep.k].room,
                                  code |-> rooms[rep.order[rep.k].room].code]
           /\ \A i \in 1..(rep.k - 1) :
                 i \in DOMAIN rep.order /\ rep.order[i].code # rep.order[rep.k].code
<1>1. /\ rep \in ReportRecord /\ RoomList(rep.order) /\ Named(rep.order)
      /\ rep.k \in 1..(Len(rep.order) + 1)
    BY FreshFacts DEF ListsRooms, Draws, Listing
<1>2. rep.order \in Seq(Entry)
    BY <1>1 DEF ReportRecord
<1>3. /\ DOMAIN rep.order = 1..Len(rep.order) /\ Len(rep.order) \in Nat
      /\ \A i \in DOMAIN rep.order : rep.order[i] \in Entry
    BY <1>2
<1>4. /\ rep.k \in DOMAIN rep.order
      /\ \A i \in 1..(rep.k - 1) : i \in DOMAIN rep.order /\ i # rep.k
    BY <1>1, <1>3
<1>5. /\ rep.order[rep.k] \in Entry /\ rep.order[rep.k].room \in DOMAIN rooms
      /\ rep.order[rep.k].code = rooms[rep.order[rep.k].room].code
    BY <1>1, <1>3, <1>4 DEF RoomList, Named
<1>6. \A r, q \in DOMAIN rooms : rooms[r].code = rooms[q].code => r = q
    BY TablesTyped DEF IInv, TablesSound
<1>7. \A i \in 1..(rep.k - 1) : rep.order[i].code # rep.order[rep.k].code
    BY <1>1, <1>4, <1>6 DEF RoomList, Named
<1> QED
    BY <1>4, <1>5, <1>7 DEF Entry

\* A room in which nobody sits is passed over.
LEMMA PassRoomStep ==
    ASSUME IInv, rep.at = "grids", rep.k <= Len(rep.order),
           InRoom(rep.rows, rep.order[rep.k].room) = {},
           Becomes([rep EXCEPT !.k = @ + 1])
    PROVE  IInv'
<1>1. Reading
    BY DEF Reading
<1>2. PICK report : report = [rep EXCEPT !.k = @ + 1]
    OBVIOUS
<1>3. /\ generations' = generations /\ seatRows' = seatRows /\ sessions' = sessions
      /\ rooms' = rooms /\ lines' = lines /\ students' = students
      /\ rep' = report /\ UNCHANGED <<tables, run, overtaken, resets>>
    BY <1>2, Unchanged
<1>4. rep \in ReportRecord /\ rep.row \in Generation /\ rep.k \in Nat
    BY <1>1 DEF IInv, ReportTyped, ReportFields, ReportRecord
<1>5. /\ report = [rep EXCEPT !.k = rep.k + 1]
      /\ report \in ReportRecord /\ report.since = rep.since /\ report.of = rep.of
      /\ report.row = rep.row
    <2>1. rep.k + 1 \in Nat \ {0}
        BY <1>4
    <2>2. report = [rep EXCEPT !.k = rep.k + 1]
        BY <1>2
    <2> QED
        BY <1>4, <2>1, <2>2 DEF ReportRecord
<1>6. ASSUME Fresh PROVE Started' /\ ListsRooms' /\ Draws'
    <2>1. Started /\ ListsRooms /\ Draws
        BY <1>6, FreshFacts
    <2>2. Started'
        BY <1>3, <1>4, <1>5, <2>1 DEF Started, RowsOf, Listing, IdsOf, ReportRecord
    <2>3. /\ report.order = rep.order /\ report.rows = rep.rows /\ report.at = rep.at
          /\ report.k = rep.k + 1 /\ report.pages = rep.pages /\ Len(rep.order) \in Nat
        <3>1. rep.order \in Seq(Entry)
            BY <1>4 DEF ReportRecord
        <3> QED
            BY <1>4, <1>5, <3>1 DEF ReportRecord
    <2>4. ListsRooms'
        <3>1. /\ RoomList(rep.order) /\ Named(rep.order)
              /\ \A x \in rep.rows : In(rep.order, x.room)
            BY <2>1 DEF ListsRooms, Listing
        <3> QED
            BY <1>3, <1>5, <2>3, <3>1 DEF ListsRooms, Listing, RoomList, Named, In, LineBefore
    <2>5. Draws'
        <3>1. rep.k \in 1..(Len(rep.order) + 1)
            BY <2>1 DEF Draws
        <3>2. /\ rep.k + 1 \in 1..(Len(rep.order) + 1)
              /\ \A i \in 1..(rep.k - 1) : i \in 1..((rep.k + 1) - 1)
              /\ \A i \in 1..((rep.k + 1) - 1) : i = rep.k \/ i \in 1..(rep.k - 1)
            BY <2>3, <3>1
        <3>4. ASSUME NEW p \in DOMAIN rep.pages
              PROVE  \E i \in 1..((rep.k + 1) - 1) :
                        PageFor(rep.pages[p], rep.order[i].room, rep.rows)'
            <4>1. PICK i \in 1..(rep.k - 1) : PageFor(rep.pages[p], rep.order[i].room, rep.rows)
                BY <2>1 DEF Draws
            <4>2. PageFor(rep.pages[p], rep.order[i].room, rep.rows)'
                BY <1>3, <2>3, <4>1 DEF PageFor, InRoom
            <4> QED
                BY <3>2, <4>2
        <3>5. \A i \in 1..((rep.k + 1) - 1) : InRoom(rep.rows, rep.order[i].room) # {} =>
                 \E p \in DOMAIN rep.pages : rep.pages[p].code = rep.order[i].code
            BY <2>1, <3>2 DEF Draws
        <3>6. \A p, q \in DOMAIN rep.pages : rep.pages[p].code = rep.pages[q].code => p = q
            BY <2>1 DEF Draws
        <3> QED
            BY <1>3, <2>3, <3>2, <3>4, <3>5, <3>6 DEF Draws, InRoom, PageFor
    <2> QED
        BY <2>2, <2>4, <2>5
<1> QED
    BY <1>1, <1>3, <1>4, <1>5, <1>6, StageStep

\* The page of a room is put behind those of the rooms before it.
LEMMA DrawPageStep ==
    ASSUME IInv, rep.at = "grids", rep.k <= Len(rep.order),
           NEW page,
           page \in MapPage,
           Fresh => /\ PageFor(page, rep.order[rep.k].room, rep.rows)
                    /\ page.code = rep.order[rep.k].code,
           Becomes([rep EXCEPT !.k = @ + 1, !.pages = Append(@, page)])
    PROVE  IInv'
<1>1. Reading
    BY DEF Reading
<1>2. PICK report : report = [rep EXCEPT !.k = @ + 1, !.pages = Append(@, page)]
    OBVIOUS
<1>3. /\ generations' = generations /\ seatRows' = seatRows /\ sessions' = sessions
      /\ rooms' = rooms /\ lines' = lines /\ students' = students
      /\ rep' = report /\ UNCHANGED <<tables, run, overtaken, resets>>
    BY <1>2, Unchanged
<1>4. rep \in ReportRecord /\ rep.row \in Generation /\ rep.k \in Nat
      /\ rep.pages \in Seq(MapPage)
    BY <1>1 DEF IInv, ReportTyped, ReportFields, ReportRecord
<1>5. PICK pages : pages = Append(rep.pages, page)
    OBVIOUS
<1>6. /\ pages \in Seq(MapPage) /\ rep.k + 1 \in Nat
      /\ Len(rep.pages) \in Nat /\ DOMAIN rep.pages = 1..Len(rep.pages)
      /\ DOMAIN pages = 1..(Len(rep.pages) + 1)
      /\ \A p \in 1..Len(rep.pages) : pages[p] = rep.pages[p]
      /\ pages[Len(rep.pages) + 1] = page
    BY <1>4, <1>5
<1>7. report = [rep EXCEPT !.k = rep.k + 1, !.pages = pages]
    BY <1>2, <1>4, <1>5 DEF ReportRecord
<1>8. report \in ReportRecord /\ report.since = rep.since /\ report.of = rep.of /\ report.row = rep.row
    <2>1. rep.k + 1 \in Nat \ {0}
        BY <1>4
    <2> QED
        BY <1>4, <1>6, <1>7, <2>1 DEF ReportRecord
<1>9. ASSUME Fresh PROVE Started' /\ ListsRooms' /\ Draws'
    <2>1. Started /\ ListsRooms /\ Draws
        BY <1>9, FreshFacts
    <2>2. Started'
        BY <1>3, <1>4, <1>7, <2>1 DEF Started, RowsOf, Listing, IdsOf, ReportRecord
    <2>3. /\ report.order = rep.order /\ report.rows = rep.rows /\ report.at = rep.at
          /\ report.k = rep.k + 1 /\ report.pages = pages /\ Len(rep.order) \in Nat
        <3>1. rep.order \in Seq(Entry)
            BY <1>4 DEF ReportRecord
        <3> QED
            BY <1>4, <1>7, <3>1 DEF ReportRecord
    <2>4. ListsRooms'
        <3>1. /\ RoomList(rep.order) /\ Named(rep.order)
              /\ \A x \in rep.rows : In(rep.order, x.room)
            BY <2>1 DEF ListsRooms, Listing
        <3> QED
            BY <1>3, <1>7, <1>8, <2>3, <3>1
            DEF ListsRooms, Listing, RoomList, Named, In, LineBefore
    <2>5. Draws'
        <3>1. rep.k \in 1..(Len(rep.order) + 1)
            BY <2>1 DEF Draws
        <3>2. /\ rep.k + 1 \in 1..(Len(rep.order) + 1)
              /\ \A i \in 1..(rep.k - 1) : i \in 1..((rep.k + 1) - 1)
              /\ \A i \in 1..((rep.k + 1) - 1) : i = rep.k \/ i \in 1..(rep.k - 1)
              /\ rep.k \in 1..((rep.k + 1) - 1)
            BY <2>3, <3>1
        <3>3. ASSUME NEW p \in DOMAIN pages, NEW i,
                     PageFor(pages[p], rep.order[i].room, rep.rows)
              PROVE  PageFor(pages[p], rep.order[i].room, rep.rows)'
            BY <1>3, <2>3, <3>3 DEF PageFor, InRoom
        <3>4. \A p \in DOMAIN rep.pages : \E i \in 1..(rep.k - 1) :
                 PageFor(rep.pages[p], rep.order[i].room, rep.rows)
            BY <2>1 DEF Draws
        <3>5. ASSUME NEW p \in DOMAIN pages
              PROVE  \E i \in 1..((rep.k + 1) - 1) : PageFor(pages[p], rep.order[i].room, rep.rows)'
            <4>1. PICK i \in 1..((rep.k + 1) - 1) : PageFor(pages[p], rep.order[i].room, rep.rows)
                <5>1. CASE p = Len(rep.pages) + 1
                    BY <1>6, <1>9, <3>2, <5>1
                <5>2. CASE p \in DOMAIN rep.pages
                    BY <1>6, <3>2, <3>4, <5>2
                <5> QED
                    BY <1>6, <5>1, <5>2
            <4> QED
                BY <3>3, <4>1
        <3>6. ASSUME NEW i \in 1..((rep.k + 1) - 1), InRoom(rep.rows, rep.order[i].room) # {}
              PROVE  \E p \in DOMAIN pages : pages[p].code = rep.order[i].code
            <4>1. CASE i = rep.k
                <5>1. Len(rep.pages) + 1 \in DOMAIN pages
                    BY <1>6
                <5> QED
                    BY <1>6, <1>9, <4>1, <5>1
            <4>2. CASE i \in 1..(rep.k - 1)
                <5>1. PICK p \in DOMAIN rep.pages : rep.pages[p].code = rep.order[i].code
                    BY <2>1, <3>6, <4>2 DEF Draws
                <5>2. p \in DOMAIN pages /\ pages[p] = rep.pages[p]
                    BY <1>6
                <5> QED
                    BY <5>1, <5>2
            <4> QED
                BY <3>2, <4>1, <4>2
        <3>7. ASSUME NEW p \in DOMAIN rep.pages PROVE rep.pages[p].code # page.code
            <4>1. PICK i \in 1..(rep.k - 1) : PageFor(rep.pages[p], rep.order[i].room, rep.rows)
                BY <3>4
            <4>2. i \in DOMAIN rep.order /\ rep.order[i].code # rep.order[rep.k].code
                BY <1>9, NextRoom
            <4>3. rep.order[i].code = rooms[rep.order[i].room].code
                BY <2>1, <4>2 DEF ListsRooms, Listing, Named
            <4>4. rep.pages[p].code = rooms[rep.order[i].room].code
                BY <4>1 DEF PageFor
            <4> QED
                BY <1>9, <4>2, <4>3, <4>4
        <3>8. \A p, q \in DOMAIN pages : pages[p].code = pages[q].code => p = q
            <4>1. \A p, q \in DOMAIN rep.pages : rep.pages[p].code = rep.pages[q].code => p = q
                BY <2>1 DEF Draws
            <4>2. \A p \in DOMAIN pages : p = Len(rep.pages) + 1 \/ p \in DOMAIN rep.pages
                BY <1>6
            <4>3. \A p \in DOMAIN rep.pages : pages[p] = rep.pages[p]
                BY <1>6
            <4> QED
                BY <1>6, <3>7, <4>1, <4>2, <4>3
        <3>9. /\ rep'.k = rep.k + 1 /\ rep'.order = rep.order /\ rep'.pages = pages
              /\ rep'.rows = rep.rows /\ rep'.at = "grids"
            BY <1>3, <2>3
        <3>10. \A i \in 1..((rep.k + 1) - 1) : InRoom(rep'.rows, rep'.order[i].room) # {} =>
                  \E p \in DOMAIN pages : pages[p].code = rep.order[i].code
            BY <3>6, <3>9 DEF InRoom
        <3> QED
            BY <3>2, <3>5, <3>8, <3>9, <3>10 DEF Draws, InRoom
    <2> QED
        BY <2>2, <2>4, <2>5
<1> QED
    BY <1>1, <1>3, <1>4, <1>7, <1>8, <1>9, StageStep

\* A fresh report can draw every room.
LEMMA FreshDrawable ==
    ASSUME IInv, Fresh, rep.at = "grids", rep.k <= Len(rep.order)
    PROVE  Drawable(rep.order[rep.k], InRoom(rep.rows, rep.order[rep.k].room))
<1>1. rep.order[rep.k].room \in DOMAIN rooms
    BY NextRoom
<1>2. \A x \in rep.rows : x.student \in DOMAIN students
    BY RowsOnFile DEF Listing
<1> QED
    BY <1>1, <1>2 DEF Drawable, StudentsKnown, InRoom

\* One more room of a seat map is drawn, or passed over.
LEMMA DrawRoomStep ==
    ASSUME IInv, DrawRoom
    PROVE  IInv'
<1>1. rep.at = "grids" /\ rep.k <= Len(rep.order) /\ Reading
    BY DEF DrawRoom, At, Reading
<1>2. PICK entry : entry = rep.order[rep.k]
    OBVIOUS
<1>3. PICK rows : rows = InRoom(rep.rows, entry.room)
    OBVIOUS
<1>4. CASE rows = {} /\ Becomes([rep EXCEPT !.k = @ + 1])
    BY <1>1, <1>2, <1>3, <1>4, PassRoomStep
<1>5. CASE rows # {} /\ ~Drawable(entry, rows) /\ Send("AssertionError")
    BY <1>1, <1>5, SendStep
<1>6. ASSUME rows # {}, Drawable(entry, rows),
             NEW page,
             page = [code |-> entry.code, grid |-> HasTopology(rooms[entry.room]),
                     cells |-> CellsOf(Visible(rooms[entry.room], rows))],
             Becomes([rep EXCEPT !.k = @ + 1, !.pages = Append(@, page)])
      PROVE  IInv'
    <2>1. rep \in ReportRecord /\ TablesSound
        BY <1>1 DEF IInv, ReportTyped, ReportFields
    <2>2. rooms \in Seq(RoomRow) /\ students \in Seq(Nat)
        BY <2>1, TablesTyped DEF TablesSound
    <2>3. rep.order \in Seq(Entry) /\ rep.k \in Nat \ {0} /\ rep.rows \in SUBSET SeatRow
        BY <2>1 DEF ReportRecord
    <2>4. rows \in SUBSET SeatRow
        BY <1>3, <2>3 DEF InRoom
    <2>5. entry \in Entry
        <3>1. rep.k \in 1..Len(rep.order) /\ Len(rep.order) \in Nat
            BY <1>1, <2>3
        <3> QED
            BY <1>2, <2>3, <3>1
    <2>6. page \in MapPage
        BY <1>6, <2>2, <2>4, <2>5, PageTyped
    <2>7. ASSUME Fresh
          PROVE  PageFor(page, entry.room, rep.rows) /\ page.code = entry.code
        <3>1. /\ entry.room \in DOMAIN rooms
              /\ entry.code = rooms[entry.room].code
            BY <1>1, <1>2, <2>7, NextRoom
        <3>2. /\ OnePerSeat(InRoom(rep.rows, entry.room))
              /\ \A x \in InRoom(rep.rows, entry.room) : x.seat \in 1..rooms[entry.room].capacity
            BY <1>1, <2>7, RowsOnFile DEF Listing, InRoom
        <3>3. PageFor(page, entry.room, rep.rows)
            BY <1>3, <1>6, <3>1, <3>2, PageDrawn
        <3> QED
            BY <1>6, <3>3
    <2> QED
        BY <1>1, <1>2, <1>6, <2>6, <2>7, DrawPageStep
<1> QED
    BY <1>1, <1>2, <1>3, <1>4, <1>5, <1>6 DEF DrawRoom

\* A list answers at once.
LEMMA PrintListsStep ==
    ASSUME IInv, PrintLists
    PROVE  IInv' /\ rep'.at = "sent"
<1>1. rep.at = "students" /\ Reading
    BY DEF PrintLists, At, Reading
<1>2. CASE ~StudentsKnown(rep.rows)
    BY <1>1, <1>2, SendStep DEF PrintLists
<1>3. CASE StudentsKnown(rep.rows)
    <2>1. PICK pages : Becomes([Goto("sent") EXCEPT !.answer = "ok", !.pages = pages])
        BY <1>3 DEF PrintLists
    <2>2. PICK report : report = [Goto("sent") EXCEPT !.answer = "ok", !.pages = pages]
        OBVIOUS
    <2>3. rep' = report /\ UNCHANGED <<tables, run, overtaken, resets>>
        BY <2>1, <2>2, Unchanged
    <2>4. rep \in ReportRecord
        BY <1>1 DEF IInv, ReportTyped, ReportFields
    <2>5. report.at = "sent"
        BY <2>2, <2>4 DEF ReportRecord, Goto
    <2> QED
        BY <2>3, <2>5, EndStep
<1> QED
    BY <1>2, <1>3

\* A report that was sent is gone.
LEMMA LeaveStep ==
    ASSUME IInv, Leave
    PROVE  IInv'
<1>1. rep'.at = "idle" /\ UNCHANGED <<tables, run, overtaken, resets>>
    BY DEF Leave, Idle, counters
<1> QED
    BY <1>1, EndStep

\* A seat map answers after its last room.
LEMMA SendMapStep ==
    ASSUME IInv, SendMap
    PROVE  IInv'
<1>1. Reading /\ Send("ok")
    BY DEF SendMap, At, Reading
<1> QED
    BY <1>1, SendStep

\* A database as loaded, before anything is asked of it.
LEMMA InitSound ==
    ASSUME Init
    PROVE  IInv
<1>1. PICK load \in Loads :
          /\ students = load.students /\ rooms = load.rooms /\ exams = load.exams
          /\ lines = load.lines /\ sessions = load.sessions
    BY DEF Init
<1>2. Consistent(load)
    BY LoadsAreConsistent DEF LoadsAssumption
<1>3. Consistent(Database)
    <2>1. Database = [students |-> load.students, rooms |-> load.rooms, exams |-> load.exams,
                      lines |-> load.lines, sessions |-> load.sessions]
        BY <1>1 DEF Database
    <2> QED
        BY <1>2, <2>1 DEF Consistent, WellTyped
<1>4. /\ generations = <<>> /\ seatRows = {} /\ run = Idle /\ resets = 0 /\ overtaken = FALSE
      /\ ~Reading
    BY DEF Init, Idle, Reading
<1>5. TablesSound
    <2>1. WellTyped(Database)
        BY <1>3 DEF Consistent
    <2>2. generations \in Seq(Generation) /\ DOMAIN generations = {}
        BY <1>4
    <2>3. GenerationsSound /\ RowsSound
        BY <1>4, <2>2 DEF GenerationsSound, RowsSound
    <2> QED
        BY <1>3, <1>4, <2>1, <2>2, <2>3 DEF TablesSound
<1>6. RunSound
    BY <1>4 DEF RunSound, RunTyped
<1> QED
    BY <1>4, <1>5, <1>6 DEF IInv, ReportTyped, ReportSound, Fresh

\* One step per action.
LEMMA NextSound ==
    ASSUME IInv, [Next]_vars
    PROVE  IInv'
<1>1. CASE GenerateExam
    BY <1>1, GenerateExamStep
<1>2. CASE GenerateSession
    BY <1>2, GenerateSessionStep
<1>3. CASE BackfillLayout \/ BackfillBlocked
    BY <1>3, BackfillStep
<1>4. CASE AddLine
    BY <1>4, AddLineStep
<1>5. CASE Reset
    BY <1>5, ResetStep
<1>6. CASE Reload
    BY <1>6, ReloadStep
<1>7. CASE Request
    BY <1>7, RequestStep
<1>8. CASE Report
    BY <1>8, LoadGenerationStep, LoadAssignmentsStep, LoadSessionStep, LoadSessionExamsStep,
       LoadHeaderStep, ListRoomsStep, LookUpRoomsStep, RoomsListedStep, PrintListsStep,
       LoadCoursesStep, DrawRoomStep, SendMapStep DEF Report
<1>9. CASE Leave
    BY <1>9, LeaveStep
<1>11. CASE Store
    BY <1>11, StoreStep
<1>10. CASE UNCHANGED vars
    <2>1. UNCHANGED <<tables, run, overtaken, resets>> /\ rep' = rep
        BY <1>10 DEF vars, counters
    <2>2. CASE Reading
        <3>1. rep' \in ReportRecord /\ rep'.since = rep.since
            BY <2>1, <2>2 DEF IInv, ReportTyped, ReportFields
        <3>2. TablesSound' /\ RunSound'
            BY <2>1, QuietTables DEF IInv
        <3>3. ReportTyped'
            BY <2>1 DEF IInv, ReportTyped, ReportFields, Reading
        <3>4. Grown
            BY <2>1, <2>2 DEF Grown, Reading, tables, RowsOf, UsesRoom, LineBefore
        <3> QED
            BY <3>2, <3>4, GrownKeepsReport DEF IInv
    <2>3. CASE ~Reading
        BY <2>1, <2>3, EndStep DEF Reading
    <2> QED
        BY <2>2, <2>3
<1> QED
    BY <1>1, <1>2, <1>3, <1>4, <1>5, <1>6, <1>7, <1>8, <1>9, <1>10, <1>11 DEF Next

\* What a report has read of the tables stays true of them, and what a request is about
\* to store fits them, until a reset.
THEOREM Invariant == Spec => []IInv
<1>1. Init => IInv
    BY InitSound
<1>2. IInv /\ [Next]_vars => IInv'
    BY NextSound
<1> QED
    BY <1>1, <1>2, PTL DEF Spec

\* The tables and a report hold values of their kinds, whatever is imported, generated,
\* reset and loaded again.
THEOREM TypeCorrect == Spec => []TypeOK
<1>1. IInv => TypeOK
    BY DEF IInv, TypeOK, TablesSound, RunSound, ReportTyped
<1> QED
    BY <1>1, Invariant, PTL
-----------------------------------------------------------------------------
(***************************************************************************)
(* What a report that was sent says.  The definitions are the parts of the *)
(* properties of module Reports, as predicates of the pages.               *)
(***************************************************************************)
TruthOf(g) ==
    {[code |-> rooms[x.room].code, seat |-> x.seat, number |-> students[x.student]] :
       x \in RowsOf(g)}

TruthAt(g, code) == {x \in TruthOf(g) : x.code = code}

PrintedAt(page) ==
    {[code |-> page.code, seat |-> n, number |-> page.cells[n]] : n \in DOMAIN page.cells}

RoomsOnce(g, pages) ==
    /\ \A i, j \in DOMAIN pages : pages[i].code = pages[j].code => i = j
    /\ {page.code : page \in Range(pages)} = {x.code : x \in TruthOf(g)}

SeatsShown(g, pages) ==
    \A page \in Range(pages) : PrintedAt(page) = TruthAt(g, page.code)

NoOtherSeats(g, pages) ==
    \A page \in Range(pages) : PrintedAt(page) \subseteq TruthAt(g, page.code)

Counted(g, pages) ==
    \A page \in Range(pages) : page.count = Cardinality(TruthAt(g, page.code))

RangesApart(g, pages) ==
    /\ \A page \in Range(pages), x \in TruthOf(g) :
          x.code = page.code <=> x.number \in page.first..page.last
    /\ \A i, j \in DOMAIN pages : i < j => pages[i].last < pages[j].first

BlockedSince(g, pages) ==
    \A page \in Range(pages), x \in RowsOf(g) :
        page.grid /\ page.code = rooms[x.room].code /\ x.seat \notin DOMAIN page.cells =>
            x.seat \in rooms[x.room].blocked \ generations[g].blocked[x.room]

Answers(kind, g, pages) ==
    /\ pages # <<>>
    /\ RoomsOnce(g, pages)
    /\ kind = "seating" => SeatsShown(g, pages)
    /\ kind = "map" => NoOtherSeats(g, pages) /\ BlockedSince(g, pages)
    /\ kind = "ranges" => Counted(g, pages)
    /\ kind = "ranges" /\ generations[g].exam # 0 => RangesApart(g, pages)

Answered ==
    rep.at = "sent" /\ Untouched =>
        /\ rep.stored # {} => rep.answer = "ok"
        /\ rep.answer = "ok" => Answers(rep.kind, rep.of, rep.pages)

\* The truth about a room is what its rows say.
LEMMA TruthInRoom ==
    ASSUME IInv, NEW g, \A x \in RowsOf(g) : x.room \in DOMAIN rooms,
           NEW r \in DOMAIN rooms
    PROVE  TruthAt(g, rooms[r].code) =
               {[code |-> rooms[r].code, seat |-> x.seat, number |-> students[x.student]] :
                  x \in InRoom(RowsOf(g), r)}
<1>1. \A s, q \in DOMAIN rooms : rooms[s].code = rooms[q].code => s = q
    BY TablesTyped DEF IInv, TablesSound
<1>2. \A x \in RowsOf(g) : rooms[x.room].code = rooms[r].code <=> x.room = r
    BY <1>1
<1> QED
    BY <1>2 DEF TruthAt, TruthOf, InRoom

\* Each room in use once: what it takes.
LEMMA RoomsPrinted ==
    ASSUME NEW g, NEW pages,
           \A i, j \in DOMAIN pages : pages[i].code = pages[j].code => i = j,
           \A p \in DOMAIN pages : \E x \in RowsOf(g) : pages[p].code = rooms[x.room].code,
           \A x \in RowsOf(g) : \E p \in DOMAIN pages : pages[p].code = rooms[x.room].code
    PROVE  RoomsOnce(g, pages)
<1>1. \A x \in TruthOf(g) : \E y \in RowsOf(g) : x.code = rooms[y.room].code
    BY DEF TruthOf
<1>2. ASSUME NEW y \in RowsOf(g)
      PROVE  \E x \in TruthOf(g) : x.code = rooms[y.room].code
    <2>1. [code |-> rooms[y.room].code, seat |-> y.seat, number |-> students[y.student]]
             \in TruthOf(g)
        BY DEF TruthOf
    <2> QED
        BY <2>1
<1>3. \A page : page \in Range(pages) <=> \E p \in DOMAIN pages : page = pages[p]
    BY DEF Range
<1>4. {page.code : page \in Range(pages)} = {x.code : x \in TruthOf(g)}
    BY <1>1, <1>2, <1>3
<1> QED
    BY <1>4 DEF RoomsOnce

\* The rooms a list has a page or a line for.
LEMMA OccupiedRooms ==
    ASSUME IInv, Fresh, rep.at \in Listing, \A x \in rep.rows : In(rep.order, x.room),
           NEW order, order = Occupied(rep.order, rep.rows)
    PROVE  /\ \A i \in DOMAIN order : /\ order[i].room \in DOMAIN rooms
                                      /\ order[i].code = rooms[order[i].room].code
                                      /\ InRoom(rep.rows, order[i].room) # {}
           /\ \A x \in rep.rows : In(order, x.room)
           /\ RoomList(order)
           /\ DOMAIN order \in SUBSET Nat
<1> DEFINE taken == {i \in DOMAIN rep.order : InRoom(rep.rows, rep.order[i].room) # {}}
<1>1. RoomList(rep.order) /\ Named(rep.order) /\ rep \in ReportRecord
    BY FreshFacts DEF ListsRooms
<1>2. rep.order \in Seq(Entry)
    BY <1>1 DEF ReportRecord
<1>3. order = Chosen(rep.order, taken) /\ taken \in SUBSET (DOMAIN rep.order)
    BY DEF Occupied
<1>4. \A i \in taken : InRoom(rep.rows, rep.order[i].room) # {}
    OBVIOUS
<1>5. \A i \in DOMAIN rep.order : InRoom(rep.rows, rep.order[i].room) # {} => i \in taken
    OBVIOUS
<1>6. DOMAIN rep.order \in SUBSET Nat
    BY <1>2
<1> HIDE DEF taken
<1>7. /\ order \in Seq(Entry)
      /\ DOMAIN order = 1..Cardinality(taken)
      /\ \A n \in DOMAIN order : /\ ChosenAt(taken, n) \in taken
                                 /\ order[n] = rep.order[ChosenAt(taken, n)]
      /\ \A m, n \in DOMAIN order : m < n => ChosenAt(taken, m) < ChosenAt(taken, n)
      /\ \A i \in taken : \E n \in DOMAIN order : ChosenAt(taken, n) = i
    BY <1>2, <1>3, ChosenOrder
<1>8. DOMAIN order \in SUBSET Nat
    BY <1>7
<1>9. \A i \in DOMAIN order : /\ order[i].room \in DOMAIN rooms
                              /\ order[i].code = rooms[order[i].room].code
                              /\ InRoom(rep.rows, order[i].room) # {}
    BY <1>1, <1>3, <1>4, <1>7 DEF RoomList, Named
<1>10. ASSUME NEW x \in rep.rows PROVE In(order, x.room)
    <2>1. PICK i \in DOMAIN rep.order : rep.order[i].room = x.room
        BY DEF In
    <2>2. x \in InRoom(rep.rows, x.room)
        BY DEF InRoom
    <2>3. PICK n \in DOMAIN order : ChosenAt(taken, n) = i
        BY <1>5, <1>7, <2>1, <2>2
    <2> QED
        BY <1>7, <2>1, <2>3 DEF In
<1>11. \A i, j \in DOMAIN order : order[i].room = order[j].room => i = j
    <2>1. ASSUME NEW i \in DOMAIN order, NEW j \in DOMAIN order,
                 order[i].room = order[j].room
          PROVE  i = j
        <3>1. ChosenAt(taken, i) = ChosenAt(taken, j)
            BY <1>1, <1>3, <1>7, <2>1 DEF RoomList
        <3>2. ChosenAt(taken, i) \in Nat
            BY <1>3, <1>6, <1>7
        <3> QED
            BY <1>7, <1>8, <3>1, <3>2
    <2> QED
        BY <2>1
<1>12. ASSUME rep.row.exam # 0, NEW i \in DOMAIN order, NEW j \in DOMAIN order, i < j
       PROVE  LineBefore(rep.row.exam, order[i].room, order[j].room)
    BY <1>1, <1>3, <1>7, <1>12 DEF RoomList
<1> QED
    BY <1>8, <1>9, <1>10, <1>11, <1>12 DEF RoomList

\* A room of the seating list shows the room's students.
LEMMA ListPageShowsRoom ==
    ASSUME IInv, NEW g, \A x \in RowsOf(g) : x.room \in DOMAIN rooms,
           NEW r \in DOMAIN rooms, OnePerSeat(InRoom(RowsOf(g), r)),
           NEW page, page = [code |-> rooms[r].code, cells |-> CellsOf(InRoom(RowsOf(g), r))]
    PROVE  PrintedAt(page) = TruthAt(g, page.code)
<1>1. PICK here : here = InRoom(RowsOf(g), r)
    OBVIOUS
<1>2. PICK cells : cells = CellsOf(here)
    OBVIOUS
<1>3. page.code = rooms[r].code /\ page.cells = cells
    BY <1>1, <1>2
<1>4. /\ DOMAIN CellsOf(here) = {x.seat : x \in here}
      /\ \A x \in here : CellsOf(here)[x.seat] = students[x.student]
    BY <1>1, CellsShowStudents
<1>5. /\ DOMAIN cells = {x.seat : x \in here}
      /\ \A x \in here : cells[x.seat] = students[x.student]
    BY <1>2, <1>4
<1>6. TruthAt(g, rooms[r].code) =
          {[code |-> rooms[r].code, seat |-> x.seat, number |-> students[x.student]] :
             x \in here}
    BY <1>1, TruthInRoom
<1>7. PrintedAt(page) =
          {[code |-> rooms[r].code, seat |-> n, number |-> cells[n]] : n \in DOMAIN cells}
    BY <1>3 DEF PrintedAt
<1>8. ASSUME NEW t PROVE t \in PrintedAt(page) <=> t \in TruthAt(g, page.code)
    <2>1. t \in PrintedAt(page) <=>
             \E x \in here : t = [code |-> rooms[r].code, seat |-> x.seat,
                                  number |-> cells[x.seat]]
        BY <1>5, <1>7
    <2>2. t \in TruthAt(g, page.code) <=>
             \E x \in here : t = [code |-> rooms[r].code, seat |-> x.seat,
                                  number |-> students[x.student]]
        BY <1>3, <1>6
    <2> QED
        BY <1>5, <2>1, <2>2
<1> QED
    BY <1>8

\* As many seats as students, and as many rows.
LEMMA TruthCounted ==
    ASSUME IInv, NEW g, \A x \in RowsOf(g) : x.room \in DOMAIN rooms,
           NEW r \in DOMAIN rooms, OnePerSeat(InRoom(RowsOf(g), r)),
           rooms[r].capacity \in Nat,
           \A x \in InRoom(RowsOf(g), r) : x.seat \in 1..rooms[r].capacity
    PROVE  Cardinality(InRoom(RowsOf(g), r)) = Cardinality(TruthAt(g, rooms[r].code))
<1>1. PICK here : here = InRoom(RowsOf(g), r)
    OBVIOUS
<1>2. PICK truth : truth = TruthAt(g, rooms[r].code)
    OBVIOUS
<1>3. truth = {[code |-> rooms[r].code, seat |-> x.seat, number |-> students[x.student]] :
                 x \in here}
    BY <1>1, <1>2, TruthInRoom
<1>4. /\ \A x \in here : x.seat \in 1..rooms[r].capacity
      /\ \A x, y \in here : x.seat = y.seat => x = y
    BY <1>1 DEF OnePerSeat
<1>5. IsFiniteSet(here)
    <2>1. PICK seatOf : seatOf = [x \in here |-> x.seat]
        OBVIOUS
    <2>2. seatOf \in Injection(here, 1..rooms[r].capacity)
        BY <1>4, <2>1 DEF Injection, IsInjective
    <2>3. IsFiniteSet(1..rooms[r].capacity)
        BY FS_Interval
    <2> QED
        BY <2>2, <2>3, FS_Injection
<1>6. PICK f : f = [x \in here |-> [code |-> rooms[r].code, seat |-> x.seat,
                                    number |-> students[x.student]]]
    OBVIOUS
<1>7. f \in Bijection(here, truth)
    <2>1. f \in [here -> truth]
        BY <1>3, <1>6
    <2>2. \A x \in here : f[x].seat = x.seat
        BY <1>6
    <2>3. \A x, y \in here : f[x] = f[y] => x = y
        BY <1>4, <2>2
    <2>4. \A t \in truth : \E x \in here : f[x] = t
        BY <1>3, <1>6
    <2> QED
        BY <2>1, <2>3, <2>4 DEF Bijection, Injection, Surjection, IsInjective
<1> QED
    BY <1>1, <1>2, <1>5, <1>7, FS_Bijection DEF ExistsBijection

\* The range of a room runs from the number of its lowest seat to that of its highest.
LEMMA RangeEnds ==
    ASSUME NEW rows \in SUBSET SeatRow, rows # {}, OnePerSeat(rows), NEW c \in Nat,
           \A x \in rows : x.seat \in 1..c
    PROVE  \E low, high \in rows :
              /\ \A x \in rows : low.seat <= x.seat /\ x.seat <= high.seat
              /\ CellsOf(rows)[Min({x.seat : x \in rows})] = students[low.student]
              /\ CellsOf(rows)[Max({x.seat : x \in rows})] = students[high.student]
<1>1. PICK seats : seats = {x.seat : x \in rows}
    OBVIOUS
<1>2. seats # {} /\ seats \in SUBSET (1..c) /\ seats \in SUBSET Nat
    BY <1>1
<1>3. Min(seats) \in seats /\ \A n \in seats : Min(seats) <= n
    <2>1. \E m \in seats : \A n \in seats : m <= n
        BY <1>2, LeastNatural
    <2> QED
        BY <2>1 DEF Min
<1>4. Max(seats) \in seats /\ \A n \in seats : n <= Max(seats)
    <2>1. \E m \in seats : \A n \in seats : n <= m
        BY <1>2, GreatestNatural
    <2>2. \E m \in seats : \A n \in seats : m >= n
        BY <1>2, <2>1
    <2>3. Max(seats) \in seats /\ \A n \in seats : Max(seats) >= n
        BY <2>2 DEF Max
    <2> QED
        BY <1>2, <2>3
<1>5. PICK low \in rows : low.seat = Min(seats)
    BY <1>1, <1>3
<1>6. PICK high \in rows : high.seat = Max(seats)
    BY <1>1, <1>4
<1>7. \A x \in rows : CellsOf(rows)[x.seat] = students[x.student]
    BY CellsShowStudents
<1>8. \A x \in rows : low.seat <= x.seat /\ x.seat <= high.seat
    BY <1>1, <1>3, <1>4, <1>5, <1>6
<1> QED
    BY <1>1, <1>5, <1>6, <1>7, <1>8

\* A list with a page for each occupied room, in their order, has each room once.
LEMMA ListedOnce ==
    ASSUME IInv, NEW g, NEW order, NEW pages, DOMAIN pages = DOMAIN order,
           \A i \in DOMAIN order : /\ order[i].room \in DOMAIN rooms
                                   /\ pages[i].code = rooms[order[i].room].code
                                   /\ \E x \in RowsOf(g) : x.room = order[i].room,
           \A i, j \in DOMAIN order : order[i].room = order[j].room => i = j,
           \A x \in RowsOf(g) : In(order, x.room)
    PROVE  RoomsOnce(g, pages)
<1>1. \A s, q \in DOMAIN rooms : rooms[s].code = rooms[q].code => s = q
    BY TablesTyped DEF IInv, TablesSound
<1>2. \A i, j \in DOMAIN pages : pages[i].code = pages[j].code => i = j
    BY <1>1
<1>3. \A p \in DOMAIN pages : \E x \in RowsOf(g) : pages[p].code = rooms[x.room].code
    OBVIOUS
<1>4. \A x \in RowsOf(g) : \E p \in DOMAIN pages : pages[p].code = rooms[x.room].code
    BY DEF In
<1> QED
    BY <1>2, <1>3, <1>4, RoomsPrinted

\* The range of each room runs from a lowest to a highest of its seats.
Spans(g, r, page) ==
    \E low, high \in InRoom(RowsOf(g), r) :
        /\ \A x \in InRoom(RowsOf(g), r) : low.seat <= x.seat /\ x.seat <= high.seat
        /\ page.first = students[low.student]
        /\ page.last = students[high.student]

\* Students in the order of their seats, rooms in the order of their lines: the range of
\* a room holds its own students only.
LEMMA RangesOfOneExam ==
    ASSUME IInv, NEW g, NEW e, NEW order, NEW pages,
           DOMAIN pages = DOMAIN order, DOMAIN order \in SUBSET Nat,
           \A x \in RowsOf(g) : /\ x.room \in DOMAIN rooms /\ x.seat \in Nat
                                /\ students[x.student] \in Nat
                                /\ In(order, x.room),
           \A x, y \in RowsOf(g) :
              SeatedBefore(e, x, y) => students[x.student] < students[y.student],
           \A r : OnePerSeat(InRoom(RowsOf(g), r)),
           \A i \in DOMAIN order : /\ order[i].room \in DOMAIN rooms
                                   /\ pages[i].code = rooms[order[i].room].code
                                   /\ Spans(g, order[i].room, pages[i]),
           \A i, j \in DOMAIN order :
              i < j => LineBefore(e, order[i].room, order[j].room)
    PROVE  RangesApart(g, pages)
<1>1. \A s, q \in DOMAIN rooms : rooms[s].code = rooms[q].code => s = q
    BY TablesTyped DEF IInv, TablesSound
<1>2. ASSUME NEW i \in DOMAIN order, NEW x \in RowsOf(g), x.room = order[i].room
      PROVE  /\ pages[i].first <= students[x.student]
             /\ students[x.student] <= pages[i].last
    <2>1. PICK low \in InRoom(RowsOf(g), order[i].room),
               high \in InRoom(RowsOf(g), order[i].room) :
             /\ \A y \in InRoom(RowsOf(g), order[i].room) :
                   low.seat <= y.seat /\ y.seat <= high.seat
             /\ pages[i].first = students[low.student]
             /\ pages[i].last = students[high.student]
        BY DEF Spans
    <2>2. x \in InRoom(RowsOf(g), order[i].room)
        BY <1>2 DEF InRoom
    <2>3. low \in RowsOf(g) /\ high \in RowsOf(g) /\ low.room = x.room /\ high.room = x.room
        BY <1>2 DEF InRoom
    <2>4. students[low.student] <= students[x.student]
        <3>1. CASE low.seat = x.seat
            <4>1. low = x
                BY <2>2, <3>1 DEF OnePerSeat
            <4> QED
                BY <4>1
        <3>2. CASE low.seat < x.seat
            BY <2>3, <3>2 DEF SeatedBefore
        <3> QED
            BY <2>1, <2>2, <2>3, <3>1, <3>2
    <2>5. students[x.student] <= students[high.student]
        <3>1. CASE high.seat = x.seat
            <4>1. high = x
                BY <2>2, <3>1 DEF OnePerSeat
            <4> QED
                BY <4>1
        <3>2. CASE x.seat < high.seat
            BY <2>3, <3>2 DEF SeatedBefore
        <3> QED
            BY <2>1, <2>2, <2>3, <3>1, <3>2
    <2> QED
        BY <2>1, <2>4, <2>5
<1>3. ASSUME NEW i \in DOMAIN order
      PROVE  \E low, high \in RowsOf(g) :
                /\ low.room = order[i].room /\ high.room = order[i].room
                /\ pages[i].first = students[low.student]
                /\ pages[i].last = students[high.student]
    BY DEF Spans, InRoom
<1>4. ASSUME NEW i \in DOMAIN order, NEW j \in DOMAIN order, i < j
      PROVE  pages[i].last < pages[j].first
    <2>1. PICK high \in RowsOf(g) :
             high.room = order[i].room /\ pages[i].last = students[high.student]
        BY <1>3
    <2>2. PICK low \in RowsOf(g) :
             low.room = order[j].room /\ pages[j].first = students[low.student]
        BY <1>3
    <2>3. SeatedBefore(e, high, low)
        BY <1>4, <2>1, <2>2 DEF SeatedBefore
    <2> QED
        BY <2>1, <2>2, <2>3
<1>5. ASSUME NEW i \in DOMAIN order
      PROVE  pages[i].first \in Nat /\ pages[i].last \in Nat
    BY <1>3
<1>6. ASSUME NEW i \in DOMAIN order, NEW x \in RowsOf(g)
      PROVE  rooms[x.room].code = pages[i].code
                <=> students[x.student] \in pages[i].first..pages[i].last
    <2>1. rooms[x.room].code = pages[i].code <=> x.room = order[i].room
        BY <1>1
    <2>2. x.room = order[i].room
             => students[x.student] \in pages[i].first..pages[i].last
        BY <1>2, <1>5
    <2>3. PICK j \in DOMAIN order : order[j].room = x.room
        BY DEF In
    <2>4. /\ pages[j].first <= students[x.student] /\ students[x.student] <= pages[j].last
          /\ students[x.student] \in Nat
          /\ pages[j].first \in Nat /\ pages[j].last \in Nat
          /\ pages[i].first \in Nat /\ pages[i].last \in Nat
        BY <1>2, <1>5, <2>3
    <2>5. CASE i = j
        BY <2>1, <2>2, <2>3, <2>5
    <2>6. CASE i < j
        <3>1. pages[i].last < pages[j].first
            BY <1>4, <2>6
        <3>2. ~(students[x.student] <= pages[i].last)
            BY <2>4, <3>1
        <3>3. students[x.student] \notin pages[i].first..pages[i].last
            BY <3>2
        <3> QED
            BY <2>1, <2>2, <3>3
    <2>7. CASE j < i
        <3>1. pages[j].last < pages[i].first
            BY <1>4, <2>7
        <3>2. ~(pages[i].first <= students[x.student])
            BY <2>4, <3>1
        <3>3. students[x.student] \notin pages[i].first..pages[i].last
            BY <3>2
        <3> QED
            BY <2>1, <2>2, <3>3
    <2> QED
        BY <2>5, <2>6, <2>7
<1>7. ASSUME NEW page \in Range(pages), NEW t \in TruthOf(g)
      PROVE  t.code = page.code <=> t.number \in page.first..page.last
    <2>1. PICK i \in DOMAIN order : page = pages[i]
        BY DEF Range
    <2>2. PICK x \in RowsOf(g) :
             t.code = rooms[x.room].code /\ t.number = students[x.student]
        BY DEF TruthOf
    <2> QED
        BY <1>6, <2>1, <2>2
<1> QED
    BY <1>4, <1>7 DEF RangesApart

\* The numbers of a single exam's rows ascend with their rooms and seats.
LEMMA RowsAscend ==
    ASSUME IInv, NEW g, generations[g].exam # 0, Current(generations[g])
    PROVE  \A x, y \in RowsOf(g) :
              SeatedBefore(generations[g].exam, x, y) =>
                  students[x.student] < students[y.student]
<1>1. \A x, y \in seatRows : IsCurrent(x) => InOrder(x, y)
    BY DEF IInv, TablesSound, RowsSound
<1> QED
    BY <1>1 DEF InOrder, Ascends, IsCurrent, RowsOf

\* A seating list, or the ID ranges, of a report that is fresh when it prints them.
LEMMA ListAnswers ==
    ASSUME IInv, Fresh, rep.at = "students",
           NEW order, order = Occupied(rep.order, rep.rows),
           NEW pages,
           pages = [i \in DOMAIN order |->
                       IF rep.kind = "seating"
                       THEN ListPage(order[i], InRoom(rep.rows, order[i].room))
                       ELSE RangePage(order[i], InRoom(rep.rows, order[i].room))]
    PROVE  Answers(rep.kind, rep.of, pages)
<1>1. PICK g : g = rep.of
    OBVIOUS
<1>2. /\ rep.rows = RowsOf(g) /\ RowsOf(g) # {} /\ RowsOf(g) \in SUBSET SeatRow
      /\ \A x \in RowsOf(g) : /\ students[x.student] \in Nat
                              /\ x.room \in DOMAIN rooms
                              /\ x.seat \in 1..rooms[x.room].capacity
      /\ \A r : OnePerSeat(InRoom(RowsOf(g), r))
    BY <1>1, RowsOnFile DEF Listing
<1>3. \A x \in rep.rows : In(rep.order, x.room)
    BY FreshFacts DEF ListsRooms
<1>4. /\ \A i \in DOMAIN order : /\ order[i].room \in DOMAIN rooms
                                 /\ order[i].code = rooms[order[i].room].code
                                 /\ InRoom(RowsOf(g), order[i].room) # {}
      /\ \A x \in RowsOf(g) : In(order, x.room)
      /\ RoomList(order)
      /\ DOMAIN order \in SUBSET Nat
    BY <1>2, <1>3, OccupiedRooms DEF Listing
<1>5. /\ DOMAIN pages = DOMAIN order
      /\ \A i \in DOMAIN order :
            pages[i] = IF rep.kind = "seating"
                       THEN ListPage(order[i], InRoom(RowsOf(g), order[i].room))
                       ELSE RangePage(order[i], InRoom(RowsOf(g), order[i].room))
    BY <1>2
<1>6. ASSUME NEW i \in DOMAIN order PROVE pages[i].code = rooms[order[i].room].code
    <2>1. CASE rep.kind = "seating"
        BY <1>4, <1>5, <2>1 DEF ListPage
    <2>2. CASE rep.kind # "seating"
        BY <1>4, <1>5, <2>2 DEF RangePage
    <2> QED
        BY <2>1, <2>2
<1>7. RoomsOnce(g, pages)
    <2>1. \A i \in DOMAIN order : /\ order[i].room \in DOMAIN rooms
                                  /\ pages[i].code = rooms[order[i].room].code
                                  /\ \E x \in RowsOf(g) : x.room = order[i].room
        BY <1>4, <1>6 DEF InRoom
    <2>2. \A i, j \in DOMAIN order : order[i].room = order[j].room => i = j
        BY <1>4 DEF RoomList
    <2>3. \A x \in RowsOf(g) : In(order, x.room)
        BY <1>4
    <2>4. DOMAIN pages = DOMAIN order
        BY <1>5
    <2> QED
        BY <2>1, <2>2, <2>3, <2>4, ListedOnce
<1>8. pages # <<>>
    <2>1. PICK x \in RowsOf(g) : TRUE
        BY <1>2
    <2>2. PICK i \in DOMAIN order : order[i].room = x.room
        BY <1>4 DEF In
    <2>3. i \in DOMAIN pages
        BY <1>5
    <2> QED
        BY <2>3
<1>9. \A page \in Range(pages) : \E i \in DOMAIN order : page = pages[i]
    BY <1>5 DEF Range
<1>10. \A r \in DOMAIN rooms : /\ rooms[r].capacity \in Nat
                               /\ \A x \in InRoom(RowsOf(g), r) :
                                     x.seat \in 1..rooms[r].capacity
    <2>1. \A r \in DOMAIN rooms : rooms[r] \in RoomRow
        BY TablesTyped DEF IInv, TablesSound
    <2> QED
        BY <1>2, <2>1 DEF RoomRow, InRoom
<1>11. ASSUME rep.kind = "seating" PROVE SeatsShown(g, pages)
    <2>1. ASSUME NEW i \in DOMAIN order PROVE PrintedAt(pages[i]) = TruthAt(g, pages[i].code)
        <3>1. pages[i] = [code |-> rooms[order[i].room].code,
                          cells |-> CellsOf(InRoom(RowsOf(g), order[i].room))]
            BY <1>4, <1>5, <1>11 DEF ListPage
        <3>2. order[i].room \in DOMAIN rooms /\ OnePerSeat(InRoom(RowsOf(g), order[i].room))
            BY <1>2, <1>4
        <3> QED
            BY <1>2, <3>1, <3>2, ListPageShowsRoom
    <2> QED
        BY <1>9, <2>1 DEF SeatsShown
<1>12. ASSUME rep.kind = "ranges", NEW i \in DOMAIN order
       PROVE  /\ pages[i].count = Cardinality(TruthAt(g, pages[i].code))
              /\ Spans(g, order[i].room, pages[i])
    <2>1. PICK r \in DOMAIN rooms : r = order[i].room
        BY <1>4
    <2>2. PICK here : here = InRoom(RowsOf(g), r)
        OBVIOUS
    <2>3. pages[i] = RangePage(order[i], here)
        BY <1>5, <1>12, <2>1, <2>2
    <2>4. /\ pages[i].count = Cardinality(here)
          /\ pages[i].first = CellsOf(here)[Min({x.seat : x \in here})]
          /\ pages[i].last = CellsOf(here)[Max({x.seat : x \in here})]
        <3>1. PICK code, first, last, count :
                 /\ code = order[i].code /\ count = Cardinality(here)
                 /\ first = CellsOf(here)[Min({x.seat : x \in here})]
                 /\ last = CellsOf(here)[Max({x.seat : x \in here})]
            OBVIOUS
        <3>2. RangePage(order[i], here) =
                 [code |-> code, first |-> first, last |-> last, count |-> count]
            BY <3>1, Zenon DEF RangePage
        <3>3. /\ pages[i].count = count /\ pages[i].first = first /\ pages[i].last = last
            BY <2>3, <3>2
        <3> QED
            BY <3>1, <3>3
    <2>5. Cardinality(here) = Cardinality(TruthAt(g, rooms[r].code))
        BY <1>2, <1>10, <2>2, TruthCounted
    <2>6. /\ here \in SUBSET SeatRow /\ here # {} /\ OnePerSeat(here)
          /\ rooms[r].capacity \in Nat
          /\ \A x \in here : x.seat \in 1..rooms[r].capacity
        BY <1>2, <1>4, <1>10, <2>1, <2>2 DEF InRoom
    <2>7. \E low, high \in here :
             /\ \A x \in here : low.seat <= x.seat /\ x.seat <= high.seat
             /\ CellsOf(here)[Min({x.seat : x \in here})] = students[low.student]
             /\ CellsOf(here)[Max({x.seat : x \in here})] = students[high.student]
        BY <2>6, RangeEnds
    <2>8. Spans(g, r, pages[i])
        BY <2>2, <2>4, <2>7 DEF Spans
    <2> QED
        BY <1>6, <2>1, <2>4, <2>5, <2>8
<1>13. ASSUME rep.kind = "ranges" PROVE Counted(g, pages)
    BY <1>9, <1>12, <1>13 DEF Counted
<1>14. ASSUME rep.kind = "ranges", generations[g].exam # 0 PROVE RangesApart(g, pages)
    <2>1. rep.row = generations[g]
        BY <1>1, FreshFacts DEF Started
    <2>2. PICK e : e = generations[g].exam
        OBVIOUS
    <2>3. \A i, j \in DOMAIN order : i < j => LineBefore(e, order[i].room, order[j].room)
        BY <1>4, <1>14, <2>1, <2>2 DEF RoomList
    <2>4. \A x, y \in RowsOf(g) :
             SeatedBefore(e, x, y) => students[x.student] < students[y.student]
        <3>1. Current(generations[g])
            BY <1>1, FreshFacts DEF Fresh, Untouched, Started
        <3> QED
            BY <1>14, <2>2, <3>1, RowsAscend
    <2>5. \A x \in RowsOf(g) : x.seat \in Nat
        BY <1>2 DEF SeatRow
    <2>6. \A i \in DOMAIN order : /\ order[i].room \in DOMAIN rooms
                                  /\ pages[i].code = rooms[order[i].room].code
                                  /\ Spans(g, order[i].room, pages[i])
        BY <1>4, <1>6, <1>12, <1>14
    <2>7. \A x \in RowsOf(g) : /\ x.room \in DOMAIN rooms /\ x.seat \in Nat
                               /\ students[x.student] \in Nat
                               /\ In(order, x.room)
        BY <1>2, <1>4, <2>5
    <2>8. /\ DOMAIN pages = DOMAIN order
          /\ DOMAIN order \in SUBSET Nat
          /\ \A r : OnePerSeat(InRoom(RowsOf(g), r))
        BY <1>2, <1>4, <1>5
    <2> QED
        BY <2>3, <2>4, <2>6, <2>7, <2>8, RangesOfOneExam
<1>15. rep.kind # "map"
    BY FreshFacts DEF Started
<1> QED
    BY <1>1, <1>7, <1>8, <1>11, <1>13, <1>14, <1>15 DEF Answers

\* A seat map that is fresh when its last room is drawn.
LEMMA MapAnswers ==
    ASSUME IInv, Fresh, rep.at = "grids", rep.k > Len(rep.order)
    PROVE  Answers(rep.kind, rep.of, rep.pages)
<1>1. PICK g : g = rep.of
    OBVIOUS
<1>2. PICK pages : pages = rep.pages
    OBVIOUS
<1>3. /\ rep.rows = RowsOf(g) /\ RowsOf(g) # {}
      /\ \A x \in RowsOf(g) : x.room \in DOMAIN rooms
    BY <1>1, RowsOnFile DEF Listing
<1>4. /\ rep.kind = "map" /\ RoomList(rep.order) /\ Named(rep.order) /\ Draws
      /\ \A x \in rep.rows : In(rep.order, x.room)
      /\ rep \in ReportRecord
      /\ \A x \in RowsOf(g) : RowSound(x) /\ x.generation = g
    BY <1>1, FreshFacts DEF Started, ListsRooms, Listing
<1>5. rep.order \in Seq(Entry) /\ rep.pages \in Seq(MapPage) /\ rep.k \in Nat
    BY <1>4 DEF ReportRecord
<1>6. 1..(rep.k - 1) = DOMAIN rep.order
    <2>1. rep.k \in 1..(Len(rep.order) + 1)
        BY <1>4 DEF Draws
    <2>2. DOMAIN rep.order = 1..Len(rep.order) /\ Len(rep.order) \in Nat
        BY <1>5
    <2>3. rep.k - 1 = Len(rep.order)
        BY <1>5, <2>1, <2>2
    <2> QED
        BY <2>2, <2>3
<1>7. \A p, q \in DOMAIN pages : pages[p].code = pages[q].code => p = q
    BY <1>2, <1>4 DEF Draws
<1>8. ASSUME NEW i \in DOMAIN rep.order, InRoom(RowsOf(g), rep.order[i].room) # {}
       PROVE  \E p \in DOMAIN pages : pages[p].code = rep.order[i].code
    <2>1. i \in 1..(rep.k - 1) /\ InRoom(rep.rows, rep.order[i].room) # {}
        BY <1>3, <1>6, <1>8
    <2> QED
        BY <1>2, <1>4, <2>1 DEF Draws
<1>9. ASSUME NEW p \in DOMAIN pages
      PROVE  \E r \in DOMAIN rooms : PageFor(pages[p], r, RowsOf(g))
    <2>1. PICK i \in 1..(rep.k - 1) : PageFor(rep.pages[p], rep.order[i].room, rep.rows)
        BY <1>2, <1>4 DEF Draws
    <2>2. rep.order[i].room \in DOMAIN rooms
        BY <1>4, <1>6, <2>1 DEF RoomList
    <2> QED
        BY <1>2, <1>3, <2>1, <2>2
<1>10. ASSUME NEW x \in RowsOf(g)
      PROVE  \E p \in DOMAIN pages : pages[p].code = rooms[x.room].code
    <2>1. PICK i \in DOMAIN rep.order : rep.order[i].room = x.room
        BY <1>3, <1>4 DEF In
    <2>2. InRoom(RowsOf(g), rep.order[i].room) # {}
        BY <2>1 DEF InRoom
    <2>3. rep.order[i].code = rooms[x.room].code
        BY <1>4, <2>1 DEF Named
    <2>4. PICK p \in DOMAIN pages : pages[p].code = rep.order[i].code
        BY <1>8, <2>2
    <2> QED
        BY <2>3, <2>4
<1>11. RoomsOnce(g, pages)
    <2>1. \A p \in DOMAIN pages : \E x \in RowsOf(g) : pages[p].code = rooms[x.room].code
        BY <1>9 DEF PageFor, InRoom
    <2> QED
        BY <1>7, <1>10, <2>1, RoomsPrinted
<1>12. pages # <<>>
    <2>1. PICK x \in RowsOf(g) : TRUE
        BY <1>3
    <2>2. PICK p \in DOMAIN pages : TRUE
        BY <1>10
    <2> QED
        BY <2>2
<1>13. \A page \in Range(pages) : \E r \in DOMAIN rooms : PageFor(page, r, RowsOf(g))
    BY <1>9 DEF Range
<1>14. NoOtherSeats(g, pages)
    <2>1. ASSUME NEW page \in Range(pages), NEW n \in DOMAIN page.cells
          PROVE  [code |-> page.code, seat |-> n, number |-> page.cells[n]]
                    \in TruthAt(g, page.code)
        <3>1. PICK r \in DOMAIN rooms : PageFor(page, r, RowsOf(g))
            BY <1>13
        <3>2. PICK x \in InRoom(RowsOf(g), r) : x.seat = n
            BY <3>1 DEF PageFor
        <3>3. page.code = rooms[r].code /\ page.cells[n] = students[x.student]
            BY <3>1, <3>2 DEF PageFor
        <3>4. TruthAt(g, rooms[r].code) =
                 {[code |-> rooms[r].code, seat |-> y.seat, number |-> students[y.student]] :
                    y \in InRoom(RowsOf(g), r)}
            BY <1>3, TruthInRoom
        <3> QED
            BY <3>2, <3>3, <3>4
    <2> QED
        BY <2>1 DEF NoOtherSeats, PrintedAt
<1>15. BlockedSince(g, pages)
    <2>1. ASSUME NEW page \in Range(pages), NEW x \in RowsOf(g),
                 page.grid, page.code = rooms[x.room].code, x.seat \notin DOMAIN page.cells
          PROVE  x.seat \in rooms[x.room].blocked \ generations[g].blocked[x.room]
        <3>1. PICK r \in DOMAIN rooms : PageFor(page, r, RowsOf(g))
            BY <1>13
        <3>2. \A s, q \in DOMAIN rooms : rooms[s].code = rooms[q].code => s = q
            BY TablesTyped DEF IInv, TablesSound
        <3>3. x.room = r
            BY <1>3, <2>1, <3>1, <3>2 DEF PageFor
        <3>4. x \in InRoom(RowsOf(g), r)
            BY <3>3 DEF InRoom
        <3>5. x.seat \in rooms[x.room].blocked
            BY <2>1, <3>1, <3>3, <3>4 DEF PageFor
        <3>6. x.seat \notin generations[g].blocked[x.room]
            BY <1>4 DEF RowSound, SeatSound
        <3> QED
            BY <3>5, <3>6
    <2> QED
        BY <2>1 DEF BlockedSince
<1> QED
    BY <1>1, <1>2, <1>4, <1>11, <1>12, <1>14, <1>15 DEF Answers
-----------------------------------------------------------------------------
(***************************************************************************)
(* How a report ends.                                                      *)
(***************************************************************************)
\* The database answers of a report as it did before a step that leaves it alone.
LEMMA AnswersKept ==
    ASSUME UNCHANGED tables, NEW kind, NEW g, NEW pages, Answers(kind, g, pages)
    PROVE  Answers(kind, g, pages)'
<1>1. /\ rooms' = rooms /\ students' = students /\ seatRows' = seatRows
      /\ generations' = generations
    BY DEF tables
<1>2. RowsOf(g)' = RowsOf(g)
    BY <1>1 DEF RowsOf
<1>3. TruthOf(g)' = TruthOf(g)
    BY <1>1, <1>2 DEF TruthOf
<1>4. RoomsOnce(g, pages)' <=> RoomsOnce(g, pages)
    BY <1>3 DEF RoomsOnce
<1>5. SeatsShown(g, pages)' <=> SeatsShown(g, pages)
    BY <1>3 DEF SeatsShown, TruthAt
<1>6. NoOtherSeats(g, pages)' <=> NoOtherSeats(g, pages)
    BY <1>3 DEF NoOtherSeats, TruthAt
<1>7. BlockedSince(g, pages)' <=> BlockedSince(g, pages)
    BY <1>1, <1>2 DEF BlockedSince
<1>8. Counted(g, pages)' <=> Counted(g, pages)
    BY <1>3 DEF Counted, TruthAt
<1>9. RangesApart(g, pages)' <=> RangesApart(g, pages)
    BY <1>3 DEF RangesApart
<1> QED
    BY <1>1, <1>4, <1>5, <1>6, <1>7, <1>8, <1>9 DEF Answers

\* A report's fields named.
LEMMA SameReport ==
    ASSUME NEW kind, NEW g, NEW pages, rep'.kind = kind, rep'.of = g, rep'.pages = pages,
           Answers(kind, g, pages)'
    PROVE  Answers(rep.kind, rep.of, rep.pages)'
<1>1. RoomsOnce(g, pages)' => RoomsOnce(rep.of, rep.pages)'
    BY DEF RoomsOnce, TruthOf, RowsOf
<1>2. SeatsShown(g, pages)' => SeatsShown(rep.of, rep.pages)'
    BY DEF SeatsShown, TruthAt, TruthOf, RowsOf
<1>3. NoOtherSeats(g, pages)' => NoOtherSeats(rep.of, rep.pages)'
    BY DEF NoOtherSeats, TruthAt, TruthOf, RowsOf
<1>4. BlockedSince(g, pages)' => BlockedSince(rep.of, rep.pages)'
    BY DEF BlockedSince, RowsOf
<1>5. Counted(g, pages)' => Counted(rep.of, rep.pages)'
    BY DEF Counted, TruthAt, TruthOf, RowsOf
<1>6. RangesApart(g, pages)' => RangesApart(rep.of, rep.pages)'
    BY DEF RangesApart, TruthOf, RowsOf
<1> QED
    BY <1>1, <1>2, <1>3, <1>4, <1>5, <1>6 DEF Answers

\* The answer of a report that ends well.
LEMMA OkKept ==
    ASSUME IInv, UNCHANGED <<tables, run, overtaken, resets>>, rep \in ReportRecord,
           NEW pages, Fresh => Answers(rep.kind, rep.of, pages),
           rep' = [rep EXCEPT !.at = "sent", !.answer = "ok", !.pages = pages]
    PROVE  Answered'
<1>1. PICK kind, g : kind = rep.kind /\ g = rep.of
    OBVIOUS
<1>2. /\ rep'.answer = "ok" /\ rep'.kind = kind /\ rep'.of = g /\ rep'.pages = pages
      /\ rep'.since = rep.since /\ resets' = resets
    BY <1>1 DEF ReportRecord
<1>3. ASSUME Fresh PROVE Answers(kind, g, pages)'
    BY <1>1, <1>3, AnswersKept
<1>4. Reading
    BY DEF ReportRecord, Stages, Reading
<1>5. Untouched' => Fresh
    <2>1. Untouched' => Untouched
        BY <1>1, <1>2 DEF Untouched, Current, tables
    <2> QED
        BY <1>4, <2>1 DEF Fresh
<1>6. Untouched' => Answers(rep.kind, rep.of, rep.pages)'
    BY <1>2, <1>3, <1>5, SameReport
<1> QED
    BY <1>2, <1>6 DEF Answered

\* An error is the answer to a report on a generation that had no assignments.
LEMMA ErrorKept ==
    ASSUME IInv, Reading, NEW answer, answer # "ok", Send(answer), Fresh => rep.stored = {}
    PROVE  Answered'
<1>1. /\ rep'.answer = answer /\ rep'.stored = rep.stored
    BY SendStep
<1>2. Untouched' => Fresh
    <2>1. PICK report : report = [rep EXCEPT !.at = "sent", !.answer = answer]
        OBVIOUS
    <2>2. /\ rep' = report /\ resets' = resets /\ overtaken' = overtaken
          /\ generations' = generations
        BY <2>1, Unchanged DEF Send
    <2>3. rep \in ReportRecord
        BY DEF IInv, ReportTyped, ReportFields
    <2>4. report.since = rep.since /\ report.of = rep.of
        BY <2>1, <2>3 DEF ReportRecord
    <2>5. Untouched' => Untouched
        BY <2>2, <2>4 DEF Untouched, Current
    <2> QED
        BY <2>5 DEF Fresh
<1> QED
    BY <1>1, <1>2 DEF Answered

\* A step that does not end the report.
LEMMA GoesOn ==
    ASSUME IInv, Reading, NEW report, Becomes(report), report.at # "sent"
    PROVE  Answered'
<1>1. rep' = report
    BY Unchanged
<1> QED
    BY <1>1 DEF Answered

\* One step per action of the report.  Only a reset makes one of the errors possible.
LEMMA ReportAnswered ==
    ASSUME IInv, Report
    PROVE  Answered'
<1>0. \/ LoadGeneration \/ LoadAssignments \/ LoadSession \/ LoadSessionExams
      \/ LoadHeader \/ ListRooms \/ LookUpRooms \/ RoomsListed
      \/ PrintLists \/ LoadCourses \/ DrawRoom \/ SendMap
    BY DEF Report
<1>1. Reading /\ rep \in ReportRecord
    <2>1. Reading
        BY <1>0 DEF LoadGeneration, LoadAssignments, LoadSession, LoadSessionExams, LoadHeader,
           ListRooms, LookUpRooms, RoomsListed, PrintLists, LoadCourses, DrawRoom, SendMap,
           At, Reading
    <2> QED
        BY <2>1 DEF IInv, ReportTyped, ReportFields
<1>2. \A stage : Goto(stage).at = stage
    BY <1>1 DEF Goto, ReportRecord
<1>3. CASE LoadGeneration
    <2>1. At("generation")
        BY <1>3 DEF LoadGeneration
    <2>2. CASE rep.of \in DOMAIN generations
        <3>1. PICK report : report = [Goto("rows") EXCEPT !.row = generations[rep.of]]
            OBVIOUS
        <3>2. Becomes(report) /\ report.at # "sent"
            BY <1>1, <1>3, <2>2, <3>1 DEF LoadGeneration, Goto, ReportRecord
        <3> QED
            BY <1>1, <3>2, GoesOn
    <2>3. CASE rep.of \notin DOMAIN generations
        <3>1. Send("GenerationNotFoundError")
            BY <1>3, <2>3 DEF LoadGeneration
        <3>2. Fresh => rep.stored = {}
            BY <2>3, FreshFacts DEF Started
        <3> QED
            BY <1>1, <3>1, <3>2, ErrorKept
    <2> QED
        BY <2>2, <2>3
<1>4. CASE LoadAssignments
    <2>1. rep.at = "rows"
        BY <1>4 DEF LoadAssignments, At
    <2>2. CASE RowsOf(rep.of) # {}
        <3>0. PICK stage, ids :
                 /\ stage = IF rep.row.exam # 0 THEN "header" ELSE "session"
                 /\ ids = IF rep.row.exam # 0 THEN <<rep.row.exam>> ELSE <<>>
            OBVIOUS
        <3>1. /\ stage \in {"header", "session"}
              /\ Becomes([Goto(stage) EXCEPT !.rows = RowsOf(rep.of), !.ids = ids])
            BY <1>4, <2>2, <3>0 DEF LoadAssignments
        <3>2. PICK report : report = [Goto(stage) EXCEPT !.rows = RowsOf(rep.of), !.ids = ids]
            OBVIOUS
        <3>3. Becomes(report)
            BY <3>1, <3>2
        <3>4. report.at # "sent"
            BY <1>1, <3>1, <3>2 DEF Goto, ReportRecord
        <3> QED
            BY <1>1, <3>3, <3>4, GoesOn
    <2>3. CASE RowsOf(rep.of) = {}
        <3>1. Send("EmptyGenerationError")
            BY <1>4, <2>3 DEF LoadAssignments
        <3>2. Fresh => rep.stored = {}
            BY <2>3, FreshFacts DEF Started
        <3> QED
            BY <1>1, <3>1, <3>2, ErrorKept
    <2> QED
        BY <2>2, <2>3
<1>5. CASE LoadSession
    <2>1. rep.at = "session"
        BY <1>5 DEF LoadSession, At
    <2>2. CASE rep.row.session \in DOMAIN sessions
        <3>1. Becomes(Goto("session_exams"))
            BY <1>5, <2>2 DEF LoadSession
        <3> QED
            BY <1>1, <1>2, <3>1, GoesOn
    <2>3. CASE rep.row.session \notin DOMAIN sessions
        <3>1. Send("AssertionError")
            BY <1>5, <2>3 DEF LoadSession
        <3>2. ~Fresh
            BY <2>1, <2>3, SessionOnFile
        <3> QED
            BY <1>1, <3>1, <3>2, ErrorKept
    <2> QED
        BY <2>2, <2>3
<1>6. CASE LoadSessionExams
    <2>1. PICK ids : Becomes([Goto("header") EXCEPT !.ids = ids])
        BY <1>6 DEF LoadSessionExams
    <2>2. PICK report : report = [Goto("header") EXCEPT !.ids = ids]
        OBVIOUS
    <2>3. report.at # "sent"
        BY <1>1, <2>2 DEF Goto, ReportRecord
    <2> QED
        BY <1>1, <2>1, <2>2, <2>3, GoesOn
<1>7. CASE LoadHeader
    <2>1. rep.at = "header"
        BY <1>7 DEF LoadHeader, At
    <2>2. CASE \A i \in DOMAIN rep.ids : CourseKnown(rep.ids[i])
        <3>1. Becomes(Goto("lines"))
            BY <1>7, <2>2 DEF LoadHeader
        <3> QED
            BY <1>1, <1>2, <3>1, GoesOn
    <2>3. CASE ~\A i \in DOMAIN rep.ids : CourseKnown(rep.ids[i])
        <3>1. Send("AssertionError")
            BY <1>7, <2>3 DEF LoadHeader
        <3>2. ~Fresh
            BY <2>1, <2>3, ExamsOnFile
        <3> QED
            BY <1>1, <3>1, <3>2, ErrorKept
    <2> QED
        BY <2>2, <2>3
<1>8. CASE ListRooms
    <2>1. PICK report : report = [Goto("lookup") EXCEPT !.lines = LinesOf(rep.ids[rep.k])]
        OBVIOUS
    <2>2. Becomes(report) /\ report.at # "sent"
        BY <1>1, <1>8, <2>1 DEF ListRooms, Goto, ReportRecord
    <2> QED
        BY <1>1, <2>2, GoesOn
<1>9. CASE LookUpRooms
    <2>1. rep.at = "lookup"
        BY <1>9 DEF LookUpRooms, At
    <2>2. CASE \A i \in DOMAIN rep.lines : rep.lines[i].room \in DOMAIN rooms
        <3>1. PICK k, order : Becomes([Goto("lines") EXCEPT !.k = k, !.order = order])
            BY <1>9, <2>2 DEF LookUpRooms
        <3>2. PICK report : report = [Goto("lines") EXCEPT !.k = k, !.order = order]
            OBVIOUS
        <3>3. Becomes(report)
            BY <3>1, <3>2
        <3>4. report.at # "sent"
            BY <1>1, <3>2 DEF Goto, ReportRecord
        <3> QED
            BY <1>1, <3>3, <3>4, GoesOn
    <2>3. CASE ~\A i \in DOMAIN rep.lines : rep.lines[i].room \in DOMAIN rooms
        <3>1. Send("AssertionError")
            BY <1>9, <2>3 DEF LookUpRooms
        <3>2. ~Fresh
            BY <2>1, <2>3, FreshFacts DEF ListsRooms, RoomList
        <3> QED
            BY <1>1, <3>1, <3>2, ErrorKept
    <2> QED
        BY <2>2, <2>3
<1>10. CASE RoomsListed
    <2>1. PICK stage : /\ stage \in {"courses", "students"}
                       /\ Becomes([Goto(stage) EXCEPT !.k = 1])
        BY <1>10 DEF RoomsListed
    <2>2. PICK report : report = [Goto(stage) EXCEPT !.k = 1]
        OBVIOUS
    <2>3. Becomes(report)
        BY <2>1, <2>2
    <2>4. report.at # "sent"
        BY <1>1, <2>1, <2>2 DEF Goto, ReportRecord
    <2> QED
        BY <1>1, <2>3, <2>4, GoesOn
<1>11. CASE PrintLists
    <2>1. rep.at = "students"
        BY <1>11 DEF PrintLists, At
    <2>2. CASE StudentsKnown(rep.rows)
        <3>1. PICK order : order = Occupied(rep.order, rep.rows)
            OBVIOUS
        <3>2. PICK pages :
                 pages = [i \in DOMAIN order |->
                            IF rep.kind = "seating"
                            THEN ListPage(order[i], InRoom(rep.rows, order[i].room))
                            ELSE RangePage(order[i], InRoom(rep.rows, order[i].room))]
            OBVIOUS
        <3>3. PICK report : report = [rep EXCEPT !.at = "sent", !.answer = "ok", !.pages = pages]
            OBVIOUS
        <3>4. report = [Goto("sent") EXCEPT !.answer = "ok", !.pages = pages]
            BY <3>3 DEF Goto
        <3>5. Becomes([Goto("sent") EXCEPT !.answer = "ok", !.pages = pages])
            BY <1>11, <2>2, <3>1, <3>2 DEF PrintLists
        <3>6. rep' = report /\ UNCHANGED <<tables, run, overtaken, resets>>
            BY <3>4, <3>5, Unchanged
        <3>7. Fresh => Answers(rep.kind, rep.of, pages)
            BY <2>1, <3>1, <3>2, ListAnswers
        <3> QED
            BY <1>1, <3>3, <3>6, <3>7, OkKept
    <2>3. CASE ~StudentsKnown(rep.rows)
        <3>1. Send("AssertionError")
            BY <1>11, <2>3 DEF PrintLists
        <3>2. ~Fresh
            BY <2>1, <2>3, RowsOnFile DEF Listing, StudentsKnown
        <3> QED
            BY <1>1, <3>1, <3>2, ErrorKept
    <2> QED
        BY <2>2, <2>3
<1>12. CASE LoadCourses
    <2>1. rep.at = "courses"
        BY <1>12 DEF LoadCourses, At
    <2>2. CASE \A x \in rep.rows : CourseKnown(x.exam)
        <3>1. Becomes(Goto("grids"))
            BY <1>12, <2>2 DEF LoadCourses
        <3> QED
            BY <1>1, <1>2, <3>1, GoesOn
    <2>3. CASE ~\A x \in rep.rows : CourseKnown(x.exam)
        <3>1. Send("AssertionError")
            BY <1>12, <2>3 DEF LoadCourses
        <3>2. ~Fresh
            BY <2>1, <2>3, RowsOnFile DEF Listing
        <3> QED
            BY <1>1, <3>1, <3>2, ErrorKept
    <2> QED
        BY <2>2, <2>3
<1>13. CASE DrawRoom
    <2>1. rep.at = "grids" /\ rep.k <= Len(rep.order)
        BY <1>13 DEF DrawRoom, At
    <2>2. \/ \E k, pages : Becomes([rep EXCEPT !.k = k, !.pages = pages])
          \/ Becomes([rep EXCEPT !.k = @ + 1])
          \/ /\ ~Drawable(rep.order[rep.k], InRoom(rep.rows, rep.order[rep.k].room))
             /\ Send("AssertionError")
        BY <1>13 DEF DrawRoom
    <2>3. CASE \E k, pages : Becomes([rep EXCEPT !.k = k, !.pages = pages])
        <3>1. PICK k, pages : Becomes([rep EXCEPT !.k = k, !.pages = pages])
            BY <2>3
        <3>2. PICK report : report = [rep EXCEPT !.k = k, !.pages = pages]
            OBVIOUS
        <3>3. Becomes(report)
            BY <3>1, <3>2
        <3>4. report.at # "sent"
            BY <1>1, <2>1, <3>2 DEF ReportRecord
        <3> QED
            BY <1>1, <3>3, <3>4, GoesOn
    <2>4. CASE Becomes([rep EXCEPT !.k = @ + 1])
        <3>1. PICK report : report = [rep EXCEPT !.k = @ + 1]
            OBVIOUS
        <3>2. Becomes(report)
            BY <2>4, <3>1
        <3>3. report.at # "sent"
            BY <1>1, <2>1, <3>1 DEF ReportRecord
        <3> QED
            BY <1>1, <3>2, <3>3, GoesOn
    <2>5. CASE /\ ~Drawable(rep.order[rep.k], InRoom(rep.rows, rep.order[rep.k].room))
               /\ Send("AssertionError")
        <3>1. ~Fresh
            BY <2>1, <2>5, FreshDrawable
        <3> QED
            BY <1>1, <2>5, <3>1, ErrorKept
    <2> QED
        BY <2>2, <2>3, <2>4, <2>5
<1>14. CASE SendMap
    <2>1. /\ rep.at = "grids" /\ rep.k > Len(rep.order)
          /\ Becomes([rep EXCEPT !.at = "sent", !.answer = "ok"])
        BY <1>14 DEF SendMap, At, Send
    <2>2. PICK pages : pages = rep.pages
        OBVIOUS
    <2>3. PICK report : report = [rep EXCEPT !.at = "sent", !.answer = "ok"]
        OBVIOUS
    <2>4. report = [rep EXCEPT !.at = "sent", !.answer = "ok", !.pages = pages]
        BY <1>1, <2>2, <2>3 DEF ReportRecord
    <2>5. Becomes(report)
        BY <2>1, <2>3
    <2>6. rep' = report /\ UNCHANGED <<tables, run, overtaken, resets>>
        BY <2>5, Unchanged
    <2>7. Fresh => Answers(rep.kind, rep.of, pages)
        BY <2>1, <2>2, MapAnswers
    <2> QED
        BY <1>1, <2>4, <2>6, <2>7, OkKept
<1> QED
    BY <1>0, <1>3, <1>4, <1>5, <1>6, <1>7, <1>8, <1>9, <1>10, <1>11, <1>12, <1>13, <1>14

\* The steps of others, and a request, leave no answer behind.
LEMMA NextAnswered ==
    ASSUME IInv, Answered, [Next]_vars
    PROVE  Answered'
<1>1. CASE Report
    BY <1>1, ReportAnswered
<1>2. CASE UNCHANGED vars
    <2>1. rep' = rep /\ UNCHANGED tables /\ (Untouched' => Untouched)
        BY <1>2 DEF vars, counters, tables, Untouched, Current
    <2>2. CASE rep.at = "sent" /\ Untouched /\ rep.answer = "ok"
        <3>1. PICK kind, g, pages : kind = rep.kind /\ g = rep.of /\ pages = rep.pages
            OBVIOUS
        <3>2. Answers(kind, g, pages)
            BY <2>2, <3>1 DEF Answered
        <3>3. Answers(kind, g, pages)'
            BY <2>1, <3>2, AnswersKept
        <3>4. rep'.kind = kind /\ rep'.of = g /\ rep'.pages = pages
            BY <2>1, <3>1
        <3>5. Answers(rep.kind, rep.of, rep.pages)'
            BY <3>3, <3>4, SameReport
        <3> QED
            BY <2>1, <2>2, <3>5 DEF Answered
    <2>3. CASE ~(rep.at = "sent" /\ Untouched /\ rep.answer = "ok")
        BY <2>1, <2>3 DEF Answered
    <2> QED
        BY <2>2, <2>3
<1>3. CASE Request
    BY <1>3 DEF Request, Answered
<1>4. CASE Leave
    BY <1>4 DEF Leave, Answered, Idle
<1>5. CASE /\ ~Report /\ ~Request /\ ~Leave /\ Next
    <2>1. RepLeft
        BY <1>5 DEF Next, GenerateExam, GenerateSession, BackfillLayout, BackfillBlocked, AddLine,
           Reset, Reload, Place, Store, Import
    <2>2. rep'.at # "sent"
        BY <2>1 DEF RepLeft, Idle
    <2> QED
        BY <2>2 DEF Answered
<1> QED
    BY <1>1, <1>2, <1>3, <1>4, <1>5

\* Until a reset, every report on a generation that has assignments answers well.
THEOREM ReportsAnswer == Spec => []Answered
<1>1. Init => Answered
    BY DEF Init, Answered, Idle
<1>2. IInv /\ Answered /\ [Next]_vars => Answered'
    BY NextAnswered
<1> QED
    BY <1>1, <1>2, Invariant, PTL DEF Spec

\* OnlyResetBreaksReports of module Reports, whatever is imported and generated in
\* between and however many generations there are.
THEOREM ReportsWork == Spec => []OnlyResetBreaksReports
<1>1. Answered => OnlyResetBreaksReports
    BY DEF Answered, Answers, OnlyResetBreaksReports, Undisturbed, Untouched, Current, At
<1> QED
    BY <1>1, ReportsAnswer, PTL

\* EveryAssignmentPrintedOnce: a page or line for each room in use, and exactly its
\* students on it.
THEOREM AssignmentsPrinted == Spec => []EveryAssignmentPrintedOnce
<1>1. ASSUME Answered PROVE EveryAssignmentPrintedOnce
    <2>1. PICK g, pages : g = rep.of /\ pages = rep.pages
        OBVIOUS
    <2>2. Truth = TruthOf(g) /\ \A code : InCode(code) = TruthAt(g, code)
        BY <2>1 DEF Truth, TruthOf, InCode, TruthAt
    <2>3. \A kind \in Kinds : Sent(kind) => Answers(kind, g, pages)
        BY <1>1, <2>1 DEF Sent, Undisturbed, Untouched, Current, At, Answered
    <2>4. ASSUME NEW kind \in Kinds, Sent(kind)
          PROVE  /\ \A i, j \in DOMAIN rep.pages :
                       rep.pages[i].code = rep.pages[j].code => i = j
                 /\ {page.code : page \in Range(rep.pages)} = {x.code : x \in Truth}
        <3>1. RoomsOnce(g, pages)
            BY <2>3, <2>4 DEF Answers
        <3> QED
            BY <2>1, <2>2, <3>1 DEF RoomsOnce
    <2>5. ASSUME NEW kind \in {"seating", "map"}, Sent(kind), NEW page \in Range(rep.pages)
          PROVE  LET printed == {[code |-> page.code, seat |-> n, number |-> page.cells[n]] :
                                   n \in DOMAIN page.cells}
                 IN  /\ printed \subseteq InCode(page.code)
                     /\ kind = "seating" => printed = InCode(page.code)
        <3>1. Answers(kind, g, pages)
            BY <2>3, <2>5 DEF Kinds
        <3>2. CASE kind = "seating"
            <4>1. PrintedAt(page) = TruthAt(g, page.code)
                BY <2>1, <2>5, <3>1, <3>2 DEF Answers, SeatsShown
            <4> QED
                BY <2>2, <4>1 DEF PrintedAt
        <3>3. CASE kind = "map"
            <4>1. PrintedAt(page) \subseteq TruthAt(g, page.code)
                BY <2>1, <2>5, <3>1, <3>3 DEF Answers, NoOtherSeats
            <4>2. kind # "seating"
                BY <3>3
            <4> QED
                BY <2>2, <4>1, <4>2 DEF PrintedAt
        <3> QED
            BY <3>2, <3>3
    <2>6. ASSUME Sent("ranges"), NEW page \in Range(rep.pages)
          PROVE  page.count = Cardinality(InCode(page.code))
        <3>1. Answers("ranges", g, pages)
            BY <2>3, <2>6 DEF Kinds
        <3>2. page.count = Cardinality(TruthAt(g, page.code))
            BY <2>1, <2>6, <3>1 DEF Answers, Counted
        <3> QED
            BY <2>2, <3>2
    <2> QED
        BY <2>4, <2>5, <2>6 DEF EveryAssignmentPrintedOnce
<1>2. Answered => EveryAssignmentPrintedOnce
    BY <1>1
<1> QED
    BY <1>2, ReportsAnswer, PTL

\* RangesBoundRooms: of a single exam, the range of a room holds its own students and no
\* one else's.
THEOREM RangesBound == Spec => []RangesBoundRooms
<1>1. ASSUME Answered PROVE RangesBoundRooms
    <2>1. SUFFICES ASSUME Sent("ranges"), generations[rep.of].exam # 0
                   PROVE  RangesApart(rep.of, rep.pages)
        BY DEF RangesBoundRooms, RangesApart, Truth, TruthOf
    <2> QED
        BY <1>1, <2>1 DEF Answered, Answers, Sent, Undisturbed, Untouched, Current, At
<1>2. Answered => RangesBoundRooms
    BY <1>1
<1> QED
    BY <1>2, ReportsAnswer, PTL

\* VanishedOnlyIfBlockedLater: who is missing from a grid sits on a seat that was blocked
\* after the generation was made.
THEOREM VanishedWasBlockedLater == Spec => []VanishedOnlyIfBlockedLater
<1>1. ASSUME Answered PROVE VanishedOnlyIfBlockedLater
    <2>1. SUFFICES ASSUME Sent("map") PROVE BlockedSince(rep.of, rep.pages)
        BY DEF VanishedOnlyIfBlockedLater, BlockedSince
    <2> QED
        BY <1>1, <2>1 DEF Answered, Answers, Sent, Undisturbed, Untouched, Current, At
<1>2. Answered => VanishedOnlyIfBlockedLater
    BY <1>1
<1> QED
    BY <1>2, ReportsAnswer, PTL
=============================================================================
