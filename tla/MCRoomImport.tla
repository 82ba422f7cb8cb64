---------------------------- MODULE MCRoomImport ----------------------------
(***************************************************************************)
(* Up to three imports of files of one or two lines about one room of four *)
(* or two seats: every combination of a capacity, a layout that fits it or *)
(* another, blocked seats or none, and a line with an error; headers with  *)
(* and without each optional column.                                       *)
(***************************************************************************)
EXTENDS RoomImport

Plain(c, n) ==
    [code |-> c, capacity |-> n, rows |-> 0, columns |-> 0, marked |-> FALSE, blocked |-> {}]

Laid(c, r, k) == [Plain(c, r * k) EXCEPT !.rows = r, !.columns = k]

Marked(l, b) == [l EXCEPT !.marked = TRUE, !.blocked = b]

MCLines ==
    {Plain("a", 2), Plain("a", 4), Laid("a", 1, 2), Laid("a", 2, 2), Laid("a", 1, 4),
     Marked(Laid("a", 1, 2), {2}), Marked(Laid("a", 2, 2), {2}),
     Marked(Laid("a", 2, 2), {1, 4}), Marked(Laid("a", 2, 2), {}),
     Plain("b", 3)}

\* The lines that meet in one file.
MCPairs ==
    {Plain("a", 4), Laid("a", 2, 2), Marked(Laid("a", 2, 2), {2}),
     Marked(Laid("a", 2, 2), {1, 4}), Plain("a", 2), Plain("b", 3)}

\* One per check of the parser.
MCBadLines ==
    {Plain("none", 2), Plain("a", Bad),
     [Plain("a", 2) EXCEPT !.rows = 1], [Plain("a", 2) EXCEPT !.rows = Bad, !.columns = 2],
     [Plain("a", 4) EXCEPT !.rows = 1, !.columns = 2],
     Marked(Laid("a", 1, 2), {3}), Marked(Laid("a", 1, 2), {0}), Marked(Plain("a", 2), {})}

MCFiles ==
    {[required |-> TRUE, layoutColumns |-> x, blockedColumn |-> y, lines |-> <<l>>] :
        x \in BOOLEAN, y \in BOOLEAN, l \in MCLines \cup MCBadLines}
    \cup
    {[required |-> TRUE, layoutColumns |-> TRUE, blockedColumn |-> TRUE, lines |-> <<l, k>>] :
        l \in MCPairs, k \in MCPairs}
    \cup
    {[required |-> FALSE, layoutColumns |-> FALSE, blockedColumn |-> FALSE, lines |-> <<>>],
     [required |-> TRUE, layoutColumns |-> FALSE, blockedColumn |-> FALSE, lines |-> <<>>]}
=============================================================================
