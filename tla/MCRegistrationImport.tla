------------------------ MODULE MCRegistrationImport ------------------------
(***************************************************************************)
(* Two imports and one reset.  The files: one or two of five complete      *)
(* lines about two students, two courses and two names of either; a line   *)
(* with one empty cell; unreadable ones; a file of three lines that        *)
(* repeats a registration under other names, and one that comes back to a  *)
(* student after another.                                                  *)
(***************************************************************************)
EXTENDS RegistrationImport

L(s, n, c, m) == [student |-> s, studentName |-> n, course |-> c, courseName |-> m]

MCLines == {L("s1", "x", "c1", "x"), L("s1", "y", "c1", "x"), L("s1", "x", "c2", "x"),
            L("s2", "x", "c1", "y"), L("s2", "x", "c2", "x")}

MCPartial == {L("none", "x", "c1", "x"), L("s1", "none", "c1", "x"),
              L("s1", "x", "none", "x"), L("s1", "x", "c1", "none")}

File(ls) == [required |-> TRUE, broken |-> FALSE, lines |-> ls]

MCFiles ==
    {File(<<l>>) : l \in MCLines \cup MCPartial}
    \cup {File(<<l, k>>) : l \in MCLines, k \in MCLines}
    \cup {File(<<L("s1", "x", "c1", "x"), L("s1", "y", "c1", "y"), L("s2", "x", "c1", "x")>>),
          File(<<L("s1", "x", "c1", "x"), L("s2", "x", "c2", "x"), L("s1", "x", "c2", "x")>>),
          [File(<<L("s1", "x", "c1", "x")>>) EXCEPT !.broken = TRUE],
          [File(<<>>) EXCEPT !.broken = TRUE],
          [File(<<>>) EXCEPT !.required = FALSE]}
=============================================================================
