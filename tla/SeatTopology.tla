---------------------------- MODULE SeatTopology ----------------------------
(***************************************************************************)
(* The physical side of a room: backend/app/seating/topology.py and the    *)
(* Room entity of backend/app/domain/room.py.                              *)
(*                                                                         *)
(* A room is a record [capacity, rows, columns, blocked].  rows = 0 stands *)
(* for the None/None pair of a room whose layout was never configured.  A  *)
(* seat position is a record [room, seat]; its row and column are derived  *)
(* from the seat number on demand, as position_for_seat derives them.      *)
(* `layout` is the function from room ids to rooms.                        *)
(***************************************************************************)
EXTENDS Integers, FiniteSets

RoomRecord == [capacity : Nat, rows : Nat, columns : Nat, blocked : SUBSET Nat]

HasTopology(room) == room.rows # 0

\* Room.__post_init__ and _normalize_blocked_seats: what every constructed
\* Room satisfies.
WellFormedRoom(room) ==
    /\ room.rows = 0 <=> room.columns = 0
    /\ HasTopology(room) => room.rows * room.columns = room.capacity
    /\ room.blocked # {} => HasTopology(room)
    /\ room.blocked \subseteq 1..room.capacity

SeatNumbers(room) == 1..room.capacity

\* Faulty variant: blocked seats are not taken out.
EverySeat(room) == SeatNumbers(room)

\* usable_positions: every physical seat that is not blocked.
UsableSeats(room) == SeatNumbers(room) \ room.blocked

\* Faulty variant: the target is cut off before blocked seats are taken out.
CutThenFilter(room, target) == {n \in UsableSeats(room) : n <= target}

\* usable_positions()[:target]: the target lowest usable seat numbers.
FirstSeats(room, target) ==
    {n \in UsableSeats(room) :
        Cardinality({m \in UsableSeats(room) : m <= n}) <= target}

\* position_for_seat: row-major numbering from 1.
Row(room, n) == (n - 1) \div room.columns
Column(room, n) == (n - 1) % room.columns

SameRow(layout, a, b) ==
    /\ a.room = b.room
    /\ Row(layout[a.room], a.seat) = Row(layout[b.room], b.seat)

SameColumn(layout, a, b) ==
    /\ a.room = b.room
    /\ Column(layout[a.room], a.seat) = Column(layout[b.room], b.seat)

RowGap(layout, a, b) ==
    LET r == layout[a.room]
        d == Row(r, a.seat) - Row(r, b.seat)
    IN  IF d < 0 THEN -d ELSE d

ColumnGap(layout, a, b) ==
    LET r == layout[a.room]
        d == Column(r, a.seat) - Column(r, b.seat)
    IN  IF d < 0 THEN -d ELSE d

\* is_adjacent: any of the eight surrounding cells of the same room.
IsAdjacent(layout, a, b) ==
    /\ a.room = b.room
    /\ a.seat # b.seat
    /\ RowGap(layout, a, b) <= 1
    /\ ColumnGap(layout, a, b) <= 1

\* distance: kept as its square, an integer.  Defined within one room only;
\* callers leave out other rooms, which the code puts at infinity.
DistanceSquared(layout, a, b) ==
    LET dr == RowGap(layout, a, b)
        dc == ColumnGap(layout, a, b)
    IN  dr * dr + dc * dc
=============================================================================
