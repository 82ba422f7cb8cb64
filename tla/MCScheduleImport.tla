-------------------------- MODULE MCScheduleImport --------------------------
(***************************************************************************)
(* Two imports, before, between or after which a second course and a       *)
(* second room appear.  The files: every valid line alone, every pair of   *)
(* lines of a set in which two lines agree on each cell and differ in each *)
(* other, one line per check of the parser, the unreadable files.          *)
(***************************************************************************)
EXTENDS ScheduleImport

L(c, n, s, e, r, a) ==
    [course |-> c, name |-> n, slot |-> s, expected |-> e, room |-> r, allocated |-> a]

MCLines ==
    {L("c", "x", "am", 2, "r", 2), L("c", "y", "am", 2, "r", 1), L("c", "x", "am", 1, "q", 1),
     L("c", "x", "pm", 1, "r", 1), L("d", "x", "am", 1, "r", 1)}

MCBadLines ==
    {L("none", "x", "am", 1, "r", 1), L("c", "none", "am", 1, "r", 1),
     L("c", "x", "none", 1, "r", 1), L("c", "x", "am", Bad, "r", 1),
     L("c", "x", "am", 1, "none", 1), L("c", "x", "am", 1, "r", Bad)}

File(ls) == [required |-> TRUE, broken |-> FALSE, lines |-> ls]

MCFiles ==
    {File(<<l>>) : l \in MCLines \cup MCBadLines}
    \cup {File(<<l, k>>) : l \in MCLines, k \in MCLines}
    \cup {[File(<<L("c", "x", "am", 2, "r", 2)>>) EXCEPT !.broken = TRUE],
          [File(<<>>) EXCEPT !.broken = TRUE],
          [File(<<>>) EXCEPT !.required = FALSE]}
=============================================================================
