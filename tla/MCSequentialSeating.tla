------------------------ MODULE MCSequentialSeating -------------------------
(***************************************************************************)
(* Two rooms, up to four students.  Room 1 is a 1x3 row with any blocked   *)
(* seats, room 2 has two seats, with a layout or without one.  Allocations *)
(* run from 0 to one more than the room holds; the same room may be listed *)
(* twice.                                                                  *)
(***************************************************************************)
EXTENDS SequentialSeating

MCStudent == 1..5
MCRoomId == {1, 2}

Room1 == {[capacity |-> 3, rows |-> 1, columns |-> 3, blocked |-> b] : b \in SUBSET (1..3)}

Room2 == {[capacity |-> 2, rows |-> 0, columns |-> 0, blocked |-> {}],
          [capacity |-> 2, rows |-> 2, columns |-> 1, blocked |-> {2}]}

MCAllocations ==
    {<<>>}
    \cup {<<[room |-> r, allocated |-> n]>> : r \in MCRoomId, n \in 0..4}
    \cup {<<[room |-> r, allocated |-> n], [room |-> q, allocated |-> m]>> :
             r, q \in MCRoomId, n, m \in 0..4}

MCCalls ==
    {[students |-> [i \in 1..k |-> i], allocations |-> a,
      layout |-> [r \in MCRoomId |-> IF r = 1 THEN x ELSE y]] :
        k \in 0..5, a \in MCAllocations, x \in Room1, y \in Room2}
=============================================================================
