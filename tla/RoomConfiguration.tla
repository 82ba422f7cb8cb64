------------------------- MODULE RoomConfiguration -------------------------
(***************************************************************************)
(* What a row of a room file makes of a room on file: the staged           *)
(* confirmation in RoomImportService.import_csv                            *)
(* (backend/app/services/room_import.py).  `old` is the room on file and   *)
(* `new` the room the row describes, with 0 x 0 for a row that states no   *)
(* layout and no blocked seats for one that states none.                   *)
(***************************************************************************)
EXTENDS SeatTopology

StatesLayout(room) == HasTopology(room)

SameLayout(a, b) == a.rows = b.rows /\ a.columns = b.columns

\* Faulty variant: the layout is applied whatever the room's capacity.
BackfillsAnyLayout(old, new) == StatesLayout(new) /\ ~HasTopology(old)

\* A layout is backfilled only where there is none, and only when the line's
\* capacity, which it was checked against, is the room's.
BackfillsLayout(old, new) ==
    StatesLayout(new) /\ ~HasTopology(old) /\ old.capacity = new.capacity

\* Faulty variant: the flag is not set where the layout is backfilled.
LayoutConfirmedBefore(old, new) ==
    HasTopology(old) /\ (StatesLayout(new) => SameLayout(old, new))

\* topology_confirmed: after this row the room's layout is the row's, or the row
\* states none and the room has one.
LayoutConfirmed(old, new) ==
    \/ BackfillsLayout(old, new)
    \/ HasTopology(old) /\ (StatesLayout(new) => SameLayout(old, new))

BackfillsBlocked(old, new) ==
    new.blocked # {} /\ old.blocked = {} /\ LayoutConfirmed(old, new)

\* Faulty variant: the capacity of the file replaces the stored one.
ConfirmedOverwriting(old, new) ==
    LET l == IF BackfillsLayout(old, new) THEN new ELSE old
    IN  [capacity |-> new.capacity, rows |-> l.rows, columns |-> l.columns,
         blocked |-> IF BackfillsBlocked(old, new) THEN new.blocked ELSE old.blocked]

\* The room once the row has been applied to it.
Confirmed(old, new) ==
    LET l == IF BackfillsLayout(old, new) THEN new ELSE old
    IN  [capacity |-> old.capacity, rows |-> l.rows, columns |-> l.columns,
         blocked |-> IF BackfillsBlocked(old, new) THEN new.blocked ELSE old.blocked]
=============================================================================
