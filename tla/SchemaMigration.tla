--------------------------- MODULE SchemaMigration --------------------------
(***************************************************************************)
(* backend/app/db/init_db.py: what every start of the server does to the   *)
(* SQLite file before it answers requests, over a file any past version    *)
(* may have left, with the process stopping between any two statements.    *)
(*                                                                         *)
(* `disk` is the file as committed, `seen` the file as the server's        *)
(* connection sees it.  pysqlite opens a transaction for the INSERT of the *)
(* table rebuild only; every ALTER, CREATE and DROP before it commits by   *)
(* itself, those after it join the INSERT's transaction.                   *)
(*                                                                         *)
(* A database is a record                                                  *)
(*   tables   the tables that exist, of those init_db treats apart         *)
(*   columns  those of the columns later versions added to exams and rooms *)
(*   nullable whether seating_generations.exam_id may be NULL              *)
(*   rows     the rows of seating_generations and of its renamed copy      *)
(*   indexes  the table each index is on                                   *)
(*   assigned the generations for which seat_assignments has rows          *)
(* A generation is a record [id, past]: its key, and whether it was there  *)
(* before the first start.  Foreign keys are not enforced; what the rename *)
(* does to the text of seat_assignments' reference is left out.            *)
(*                                                                         *)
(* Init, Next, Spec and vars carry the prefix Migration: DatabaseProofs    *)
(* extends this module and RoomImport.                                     *)
(***************************************************************************)
EXTENDS Naturals, FiniteSets

CONSTANTS PastDatabases,    \* the files a first start may find
          MaxStops,         \* how often the process is stopped
          MaxGenerations    \* the largest id handed out

Gens == "seating_generations"
Old == "seating_generations_pre_m9"

\* The tables of Base.metadata concerned, in the order create_all() visits them.
TableOrder == <<"examination_sessions", "rooms", "exams", Gens, "seat_assignments">>
ModelTables == {TableOrder[i] : i \in DOMAIN TableOrder}

ExamColumns == {"expected_student_count", "day_label"}
RoomColumns == {"rows", "columns", "blocked_seat_numbers"}

CodeIndex == "ix_rooms_code"
ExamIndex == "ix_seating_generations_exam_id"
SessionIndex == "ix_seating_generations_session_id"
Index == {CodeIndex, ExamIndex, SessionIndex}

\* The columns of the current schema, and the table each index belongs on.
ColumnsIn(t) ==
    IF t = "exams" THEN ExamColumns ELSE IF t = "rooms" THEN RoomColumns ELSE {}

Owner(i) == IF i = CodeIndex THEN "rooms" ELSE Gens

IndexesOf(t) == {i \in Index : Owner(i) = t}

Generation == [id : 1..MaxGenerations, past : BOOLEAN]

Database ==
    [tables : SUBSET (ModelTables \cup {Old}),
     columns : SUBSET (ExamColumns \cup RoomColumns),
     nullable : BOOLEAN,
     rows : [{Gens, Old} -> SUBSET Generation],
     indexes : [Index -> ModelTables \cup {Old, "none"}],
     assigned : SUBSET Generation]

\* What holds of a file no start was ever cut short on.
Complete(d) ==
    /\ Old \notin d.tables /\ d.rows[Old] = {}
    /\ Gens \notin d.tables => d.rows[Gens] = {}
    /\ \A i \in Index :
          d.indexes[i] = IF Owner(i) \notin d.tables \/ (i = SessionIndex /\ ~d.nullable)
                         THEN "none" ELSE Owner(i)
    /\ d.assigned \subseteq d.rows[Gens]

PastAssumption ==
    \A d \in PastDatabases :
        /\ d \in Database
        /\ Complete(d)
        /\ \A g \in d.rows[Gens] : g.past
        /\ d.nullable => "examination_sessions" \in d.tables

ASSUME PastDatabasesAreComplete == PastAssumption

ASSUME BoundsAreNatural == MaxStops \in Nat /\ MaxGenerations \in Nat

VARIABLES disk, seen,
          at,       \* where init_db is; "up" once the server answers
          pending,  \* indexes of the table create_all() has just created
          stops,
          stored,   \* history: every generation that was ever committed
          cut       \* history: a start ended halfway through building a table

migrationVars == <<disk, seen, at, pending, stops, stored, cut>>

MigrationInit ==
    /\ disk \in PastDatabases
    /\ seen = disk
    /\ at = "down"
    /\ pending = {}
    /\ stops = 0
    /\ stored = disk.rows[Gens]
    /\ cut = FALSE

\* A statement outside a transaction: committed as soon as it is executed.
Autocommit(d) == disk' = d /\ seen' = d

\* A statement of the open transaction.
InTransaction(d) == seen' = d /\ UNCHANGED disk

Goto(stage) == at' = stage /\ UNCHANGED <<stops, stored, cut>>

Start ==
    /\ at = "down"
    /\ Goto("check")
    /\ UNCHANGED <<disk, seen, pending>>

\* check_schema_compatibility: the table lacks a column and the start ends.
Incompatible(d) == "exams" \in d.tables /\ ~(ExamColumns \subseteq d.columns)

CheckSchema ==
    /\ at = "check"
    /\ Goto(IF Incompatible(seen) THEN "down" ELSE "topology")
    /\ UNCHANGED <<disk, seen, pending>>

WithColumn(d, c) == [d EXCEPT !.columns = @ \cup {c}]

\* _ensure_room_topology_columns: up to two ALTERs.
AddRows ==
    /\ at = "topology"
    /\ "rooms" \in seen.tables /\ "rows" \notin seen.columns
    /\ Autocommit(WithColumn(seen, "rows"))
    /\ UNCHANGED <<at, pending, stops, stored, cut>>

AddColumns ==
    /\ at = "topology"
    /\ "rooms" \in seen.tables /\ "rows" \in seen.columns
    /\ "columns" \notin seen.columns
    /\ Autocommit(WithColumn(seen, "columns"))
    /\ UNCHANGED <<at, pending, stops, stored, cut>>

\* Faulty variant: whether there is a layout is decided on one of its columns.
LayoutKnown(d) == "rooms" \in d.tables => "rows" \in d.columns

HasLayout(d) == "rooms" \in d.tables => {"rows", "columns"} \subseteq d.columns

TopologyDone ==
    /\ at = "topology"
    /\ HasLayout(seen)
    /\ Goto("blocked")
    /\ UNCHANGED <<disk, seen, pending>>

\* _ensure_room_blocked_seats_column.
AddBlockedSeats ==
    /\ at = "blocked"
    /\ IF "rooms" \in seen.tables /\ "blocked_seat_numbers" \notin seen.columns
       THEN Autocommit(WithColumn(seen, "blocked_seat_numbers"))
       ELSE UNCHANGED <<disk, seen>>
    /\ Goto("create")
    /\ UNCHANGED pending
-----------------------------------------------------------------------------
\* create_all(): the next table that does not exist, as the models declare it.
CreateTable ==
    /\ at = "create" /\ pending = {}
    /\ \E i \in DOMAIN TableOrder :
          LET t == TableOrder[i]
          IN  /\ t \notin seen.tables
              /\ \A j \in 1..(i - 1) : TableOrder[j] \in seen.tables
              /\ Autocommit([seen EXCEPT !.tables = @ \cup {t},
                                         !.columns = @ \cup ColumnsIn(t),
                                         !.nullable = @ \/ t = Gens])
              /\ pending' = IndexesOf(t)
    /\ UNCHANGED <<at, stops, stored, cut>>

IndexOn(d, i, t) == [d EXCEPT !.indexes = [@ EXCEPT ![i] = t]]

\* Then its indexes, in no particular order.
CreateIndex ==
    /\ at = "create"
    /\ \E i \in pending :
          /\ seen.indexes[i] = "none"
          /\ Autocommit(IndexOn(seen, i, Owner(i)))
          /\ pending' = pending \ {i}
    /\ UNCHANGED <<at, stops, stored, cut>>

\* Faulty variant: a driver for which the CREATE TABLE is undone as well.
IndexNameTakenUndoes ==
    /\ at = "create"
    /\ \E i \in pending : seen.indexes[i] # "none"
    /\ Autocommit([seen EXCEPT !.tables = @ \ {Gens}])
    /\ at' = "down"
    /\ pending' = {}
    /\ cut' = TRUE
    /\ UNCHANGED <<stops, stored>>

\* An index of that name exists, on another table: the exception ends the start,
\* and what it has created stays.
IndexNameTaken ==
    /\ at = "create"
    /\ \E i \in pending : seen.indexes[i] # "none"
    /\ at' = "down"
    /\ pending' = {}
    /\ cut' = TRUE
    /\ UNCHANGED <<disk, seen, stops, stored>>

TablesCreated ==
    /\ at = "create" /\ pending = {}
    /\ ModelTables \subseteq seen.tables
    /\ Goto("relax")
    /\ UNCHANGED <<disk, seen, pending>>
-----------------------------------------------------------------------------
\* _relax_seating_generation_exam_id_nullability: nothing to do.
SkipRebuild ==
    /\ at = "relax" /\ seen.nullable
    /\ Goto("up")
    /\ UNCHANGED <<disk, seen, pending>>

\* The rows of seating_generations and of its renamed copy.
Contents(gens, old) == [t \in {Gens, Old} |-> IF t = Gens THEN gens ELSE old]

Moved(indexes, from, to) ==
    [i \in Index |-> IF indexes[i] = from THEN to ELSE indexes[i]]

\* ALTER TABLE ... RENAME: rows and indexes go with the table.
RenameTable ==
    /\ at = "relax" /\ ~seen.nullable
    /\ Old \notin seen.tables
    /\ Autocommit([seen EXCEPT !.tables = (@ \ {Gens}) \cup {Old},
                               !.rows = Contents({}, seen.rows[Gens]),
                               !.indexes = Moved(@, Gens, Old)])
    /\ Goto("rebuild")
    /\ UNCHANGED pending

CreateRelaxedTable ==
    /\ at = "rebuild"
    /\ Autocommit([seen EXCEPT !.tables = @ \cup {Gens}, !.nullable = TRUE])
    /\ Goto("copy")
    /\ UNCHANGED pending

Copied(d) == [d EXCEPT !.rows = Contents(d.rows[Old], d.rows[Old])]

\* Faulty variant: the rebuild runs in autocommit to its end.
CopyRowsAtOnce ==
    /\ at = "copy"
    /\ Autocommit(Copied(seen))
    /\ Goto("drop")
    /\ UNCHANGED pending

\* INSERT ... SELECT: the transaction begins.
CopyRows ==
    /\ at = "copy"
    /\ InTransaction(Copied(seen))
    /\ Goto("drop")
    /\ UNCHANGED pending

DropOldTable ==
    /\ at = "drop"
    /\ InTransaction([seen EXCEPT !.tables = @ \ {Old},
                                  !.rows = Contents(seen.rows[Gens], {}),
                                  !.indexes = Moved(@, Old, "none")])
    /\ Goto("exam_index")
    /\ UNCHANGED pending

RebuildExamIndex ==
    /\ at = "exam_index"
    /\ InTransaction(IndexOn(seen, ExamIndex, Gens))
    /\ Goto("session_index")
    /\ UNCHANGED pending

\* Faulty variant: the index of the new column is forgotten.
RebuildOneIndex ==
    /\ at = "session_index"
    /\ Goto("commit")
    /\ UNCHANGED <<disk, seen, pending>>

RebuildSessionIndex ==
    /\ at = "session_index"
    /\ InTransaction(IndexOn(seen, SessionIndex, Gens))
    /\ Goto("commit")
    /\ UNCHANGED pending

\* The end of engine.begin().
CommitRebuild ==
    /\ at = "commit"
    /\ disk' = seen
    /\ Goto("up")
    /\ UNCHANGED <<seen, pending>>
-----------------------------------------------------------------------------
\* A key one above the largest in the table.
NextGeneration(d) ==
    {g \in Generation : /\ ~g.past
                        /\ \A h \in d.rows[Gens] : h.id < g.id
                        /\ g.id = 1 \/ \E h \in d.rows[Gens] : g.id = h.id + 1}

\* The server is up and a seating is generated: its row and its assignments.
StoreGeneration ==
    /\ at = "up"
    /\ \E g \in NextGeneration(seen) :
          /\ Autocommit([seen EXCEPT !.rows = Contents(@[Gens] \cup {g}, @[Old]),
                                     !.assigned = @ \cup {g}])
          /\ stored' = stored \cup {g}
    /\ UNCHANGED <<at, pending, stops, cut>>

HalfBuilt ==
    at \in {"rebuild", "copy", "drop", "exam_index", "session_index", "commit"}

\* The process is stopped or fails: an open transaction is rolled back.
Stop ==
    /\ at # "down" /\ stops < MaxStops
    /\ seen' = disk
    /\ at' = "down"
    /\ pending' = {}
    /\ stops' = stops + 1
    /\ cut' = (cut \/ HalfBuilt \/ pending # {})
    /\ UNCHANGED <<disk, stored>>

\* One statement of a start, or its end.
InitDb ==
    \/ CheckSchema \/ AddRows \/ AddColumns \/ TopologyDone \/ AddBlockedSeats
    \/ CreateTable \/ CreateIndex \/ IndexNameTaken \/ TablesCreated
    \/ SkipRebuild \/ RenameTable \/ CreateRelaxedTable \/ CopyRows \/ DropOldTable
    \/ RebuildExamIndex \/ RebuildSessionIndex \/ CommitRebuild

MigrationNext == Start \/ InitDb \/ StoreGeneration \/ Stop

MigrationSpec == MigrationInit /\ [][MigrationNext]_migrationVars

\* The process runs, and whoever supervises it starts it again when it ends.
FairMigration == MigrationSpec /\ WF_migrationVars(Start) /\ WF_migrationVars(InitDb)
-----------------------------------------------------------------------------
Stages ==
    {"down", "check", "topology", "blocked", "create", "relax", "rebuild", "copy",
     "drop", "exam_index", "session_index", "commit", "up"}

MigrationTypeOK ==
    /\ disk \in Database /\ seen \in Database
    /\ at \in Stages
    /\ pending \subseteq Index
    /\ stops \in 0..MaxStops
    /\ stored \subseteq Generation
    /\ cut \in BOOLEAN

\* No generation is ever lost from the file, whichever statements a start gets to
\* before it ends and however often: each is in exactly one of the table and its
\* renamed copy.
NothingForgotten ==
    \A g \in stored : (g \in disk.rows[Gens]) # (g \in disk.rows[Old])

\* A server that answers has the current schema, also when earlier starts ended
\* between two statements: no request meets a missing table or column, or a
\* seating_generations that refuses a session's generation.
ServedSchemaCurrent ==
    at = "up" =>
        /\ ModelTables \subseteq disk.tables
        /\ ExamColumns \cup RoomColumns \subseteq disk.columns
        /\ disk.nullable

\* What was stored is out of sight, an index is missing, or a generation is given
\* the key and so the seat assignments of another, only after a start ended while
\* it built a table: no other stop, and no number of starts, does harm.
HiddenOnlyByInterruption ==
    at = "up" /\ ~cut =>
        /\ stored = disk.rows[Gens] /\ Old \notin disk.tables
        /\ \A i \in Index : disk.indexes[i] = Owner(i)
        /\ \A g, h \in disk.assigned : g.id = h.id => g = h

\* A compatible file always gets its server up, whatever earlier starts left
\* behind; a start that trips over the name of an index clears the way for the
\* one after it.
EventuallyServed == ~Incompatible(disk) ~> at = "up"

\* What the module's docstring says of the rebuild: no existing generation is
\* touched or invalidated.
GenerationsUntouched == at = "up" => stored \subseteq disk.rows[Gens]
=============================================================================
