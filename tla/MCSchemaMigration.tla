------------------------- MODULE MCSchemaMigration --------------------------
(***************************************************************************)
(* The files a start can find: none yet, one with the exams table of       *)
(* before Milestone 3, and one of each later milestone that changed the    *)
(* schema, with no, one or two generations stored.                         *)
(***************************************************************************)
EXTENDS SchemaMigration

File(tables, columns, nullable, n) ==
    LET past == {[id |-> k, past |-> TRUE] : k \in 1..n}
    IN  [tables |-> tables, columns |-> columns, nullable |-> nullable,
         rows |-> [t \in {Gens, Old} |-> IF t = Gens THEN past ELSE {}],
         indexes |-> [i \in Index |->
                        IF Owner(i) \in tables /\ (i = SessionIndex => nullable)
                        THEN Owner(i) ELSE "none"],
         assigned |-> past]

Milestone4 == ModelTables \ {"examination_sessions"}

MCPastDatabases ==
    {File({}, {}, FALSE, 0),
     File({"exams", "rooms"}, {}, FALSE, 0),
     File({"exams", "rooms"}, ExamColumns, FALSE, 0)}
    \cup {File(Milestone4, ExamColumns \cup c, FALSE, n) :
             c \in {{}, {"rows", "columns"}}, n \in 0..2}
    \cup {File(ModelTables, ExamColumns \cup c, TRUE, n) :
             c \in {{"rows", "columns"}, RoomColumns}, n \in 0..1}
=============================================================================
