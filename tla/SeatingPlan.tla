---------------------------- MODULE SeatingPlan -----------------------------
(***************************************************************************)
(* What both seating strategies share: the room allocations they are       *)
(* given, the seats they may fill, and the counts, shortage flags and      *)
(* status they report (backend/app/seating/models.py and the head and tail *)
(* of SequentialSeatingStrategy.generate / ConstraintSeatingStrategy.      *)
(* generate).                                                              *)
(*                                                                         *)
(* A room allocation is a record [room, allocated]; `allocations` is the   *)
(* sequence the strategy receives, in the order rooms are to be filled.    *)
(***************************************************************************)
EXTENDS SeatTopology, Sequences, Functions

Min3(a, b, c) ==
    IF a <= b THEN (IF a <= c THEN a ELSE c) ELSE (IF b <= c THEN b ELSE c)

\* Faulty variant: the guard is missing.
NoRoomGuard(allocations) == TRUE

\* The guard both strategies open with: no room is listed twice.
RoomsDistinct(allocations) ==
    \A i, j \in DOMAIN allocations :
        allocations[i].room = allocations[j].room => i = j

\* How many seats of allocation i the strategy will try to fill.
TargetOf(allocations, layout, i) ==
    LET room == layout[allocations[i].room]
    IN  Min3(allocations[i].allocated, room.capacity,
             Cardinality(UsableSeats(room)))

\* Every seat the strategy may fill; `order` is the room's place in the
\* allocation sequence.
Candidates(allocations, layout) ==
    UNION {{[order |-> i, room |-> allocations[i].room, seat |-> n] :
              n \in FirstSeats(layout[allocations[i].room],
                               TargetOf(allocations, layout, i))} :
           i \in DOMAIN allocations}

\* Faulty variant: seats of several rooms are dealt out round-robin.
BeforeBySeat(p, q) == p.seat < q.seat \/ (p.seat = q.seat /\ p.order < q.order)

\* The order in which both strategies scan candidate seats.
Before(p, q) == p.order < q.order \/ (p.order = q.order /\ p.seat < q.seat)

\* What several exams allocate to a room; a line is a record with fields room
\* and allocated.
AllocatedTo(lines, room) ==
    SumFunction([i \in {j \in DOMAIN lines : lines[j].room = room} |-> lines[i].allocated])

\* Where a room is listed for the first time.
FirstPlaces(lines) ==
    {i \in DOMAIN lines : \A j \in DOMAIN lines : j < i => lines[j].room # lines[i].room}

\* Faulty variant: a shared room keeps the first exam's number.
FirstAllocations(lines) ==
    [i \in FirstPlaces(lines) |-> [room |-> lines[i].room, allocated |-> lines[i].allocated]]

\* _merge_shared_room_allocations: one allocation per room, in the order rooms
\* first appear, with the sum of what the exams allocate.  Each is kept at the
\* place where its room first appears: only their order matters.
MergedAllocations(lines) ==
    [i \in FirstPlaces(lines) |->
        [room |-> lines[i].room, allocated |-> AllocatedTo(lines, lines[i].room)]]

\* The elements of seq at the given places, in order: a SelectSeq without recursion,
\* which no prover could look into.
Chosen(seq, places) ==
    [n \in 1..Cardinality(places) |->
        seq[CHOOSE i \in places : Cardinality({j \in places : j <= i}) = n]]

\* What the sequential strategy makes of a set of participants (module
\* SequentialSeating): the n-th of them gets the n-th candidate seat.  `ahead`
\* says of each participant how many come before it.
SeatingOf(ahead, seats) ==
    LET place(p) == Cardinality({q \in seats : Before(q, p)})
    IN  {[student |-> xp[1].student, exam |-> xp[1].exam,
          room |-> xp[2].room, seat |-> xp[2].seat] :
            xp \in {yq \in (DOMAIN ahead) \X seats : ahead[yq[1]] = place(yq[2])}}

FirstOf(seats) == CHOOSE p \in seats : \A q \in seats : p = q \/ Before(p, q)

SeatRecord(student, p) ==
    [student |-> student, room |-> p.room, seat |-> p.seat]

ScheduledTotal(allocations) ==
    SumFunction([i \in DOMAIN allocations |-> allocations[i].allocated])

PhysicalTotal(allocations, layout) ==
    SumFunction([i \in DOMAIN allocations |-> layout[allocations[i].room].capacity])

\* Faulty variant: blocked seats count as usable.
UsableTotalWithBlocked(allocations, layout) == PhysicalTotal(allocations, layout)

UsableTotal(allocations, layout) ==
    SumFunction([i \in DOMAIN allocations |->
                    Cardinality(UsableSeats(layout[allocations[i].room]))])

\* GenerationStatus as both strategies derive it from the counts.
StatusOf(registered, assigned, unassigned) ==
    IF registered = 0 \/ unassigned = 0 THEN "success"
    ELSE IF assigned = 0 THEN "failed"
    ELSE "partial"

\* The SeatingResult fields that are facts about the run.
Summary(registered, assigned, unassigned, allocations, layout) ==
    [registered |-> registered,
     assigned |-> assigned,
     unassigned |-> unassigned,
     status |-> StatusOf(registered, assigned, unassigned),
     capacity_shortage |-> unassigned > 0,
     scheduled_allocation_shortage |-> registered > ScheduledTotal(allocations),
     physical_capacity_shortage |-> registered > PhysicalTotal(allocations, layout),
     usable_capacity_shortage |-> registered > UsableTotal(allocations, layout)]
-----------------------------------------------------------------------------
\* Shared vocabulary of the properties of both strategies.
CollisionFree(assignments) ==
    \A i, j \in DOMAIN assignments :
        i # j => /\ assignments[i].student # assignments[j].student
                 /\ \/ assignments[i].room # assignments[j].room
                    \/ assignments[i].seat # assignments[j].seat

SeatedIn(assignments, room) ==
    {i \in DOMAIN assignments : assignments[i].room = room}

WithinLimits(assignments, allocations, layout) ==
    /\ \A i \in DOMAIN assignments :
          LET room == layout[assignments[i].room]
          IN  assignments[i].seat \in (1..room.capacity) \ room.blocked
    /\ \A k \in DOMAIN allocations :
          Cardinality(SeatedIn(assignments, allocations[k].room))
            <= allocations[k].allocated

\* No room can take one more student: its allocation is used up, or every seat
\* that is not blocked is taken.
RoomsFull(assignments, allocations, layout) ==
    \A k \in DOMAIN allocations :
        LET here == SeatedIn(assignments, allocations[k].room)
            room == layout[allocations[k].room]
        IN  \/ Cardinality(here) >= allocations[k].allocated
            \/ {assignments[i].seat : i \in here} = (1..room.capacity) \ room.blocked

InStudentOrder(assignments, allocations) ==
    \A i, j \in DOMAIN assignments :
        i < j =>
            \E k, l \in DOMAIN allocations :
                /\ assignments[i].room = allocations[k].room
                /\ assignments[j].room = allocations[l].room
                /\ k < l \/ (k = l /\ assignments[i].seat < assignments[j].seat)
=============================================================================
