----------------------------- MODULE RoomImport -----------------------------
(***************************************************************************)
(* Importing rooms from a CSV file (backend/app/services/room_import.py):  *)
(* the file is parsed line by line, then every room it names is created or *)
(* confirmed in stages - capacity, topology, blocked seats.                *)
(*                                                                         *)
(* A file is [required, layoutColumns, blockedColumn, lines]: which        *)
(* columns its header has, and its data lines.  A line is a record of      *)
(* cells [code, capacity, rows, columns, marked, blocked].  The values are *)
(* what int() and strip() tell apart: Bad (-1) for a number that is not    *)
(* one or is out of range, rows or columns 0 for an empty cell, `marked`   *)
(* for a blockedseats cell that is not empty, and a member 0 of `blocked`  *)
(* for a token that is no number.                                          *)
(***************************************************************************)
EXTENDS RoomConfiguration, Sequences

CONSTANTS Code,        \* room codes
          NoCode,      \* an empty room cell
          Files,       \* the files that may be imported
          MaxImports   \* bound on the number of imports

Bad == -1

Line == [code : Code \cup {NoCode}, capacity : Nat \cup {Bad},
         rows : Nat \cup {Bad}, columns : Nat \cup {Bad},
         marked : BOOLEAN, blocked : SUBSET Nat]

FilesAssumption ==
    /\ NoCode \notin Code
    /\ MaxImports \in Nat
    /\ \A f \in Files :
          /\ f.required \in BOOLEAN
          /\ f.layoutColumns \in BOOLEAN
          /\ f.blockedColumn \in BOOLEAN
          /\ f.lines \in Seq(Line)
          /\ \A i \in DOMAIN f.lines : f.lines[i].blocked # {} => f.lines[i].marked

ASSUME FilesAreTyped == FilesAssumption

VARIABLES rooms,     \* the committed rooms table: code -> room
          work,      \* the importing session's view of it
          phase,     \* "idle", "parsing", "applying", "done"
          file,      \* the file being imported
          next,      \* the next line to parse, or the next row to apply
          parsed,    \* the rows the parser returns
          result,    \* the RoomImportResult so far
          imports    \* imports started

vars == <<rooms, work, phase, file, next, parsed, result, imports>>

NoFile == [required |-> TRUE, layoutColumns |-> FALSE, blockedColumn |-> FALSE,
           lines |-> <<>>]

EmptyResult ==
    [status |-> "success", created |-> 0, existing |-> 0, duplicates |-> 0, reports |-> {}]

\* A validation error or a conflict: the line it names and its kind.
Report(line, kind, existing, incoming) ==
    [line |-> line, kind |-> kind, existing |-> existing, incoming |-> incoming]

ErrorAt(line) == Report(line, "error", 0, 0)

Init ==
    /\ rooms = << >>
    /\ work = << >>
    /\ phase = "idle"
    /\ file = NoFile
    /\ next = 1
    /\ parsed = <<>>
    /\ result = EmptyResult
    /\ imports = 0
-----------------------------------------------------------------------------
\* The layout a line states; 0 x 0 when it states none.
RowsOf(f, l) == IF f.layoutColumns THEN l.rows ELSE 0
ColumnsOf(f, l) == IF f.layoutColumns THEN l.columns ELSE 0

\* A line without row_errors.
LineValid(f, l) ==
    /\ l.code # NoCode
    /\ l.capacity # Bad
    /\ RowsOf(f, l) # Bad /\ ColumnsOf(f, l) # Bad
    /\ RowsOf(f, l) = 0 <=> ColumnsOf(f, l) = 0
    /\ RowsOf(f, l) # 0 => RowsOf(f, l) * ColumnsOf(f, l) = l.capacity
    /\ f.blockedColumn /\ l.marked =>
          /\ RowsOf(f, l) # 0
          /\ l.blocked \subseteq 1..(RowsOf(f, l) * ColumnsOf(f, l))

\* The room a valid line describes.
RoomOf(f, l) ==
    [capacity |-> l.capacity, rows |-> RowsOf(f, l), columns |-> ColumnsOf(f, l),
     blocked |-> IF f.blockedColumn /\ l.marked THEN l.blocked ELSE {}]

\* POST /rooms/import: the request's session sees the committed rooms.
BeginImport ==
    /\ phase \in {"idle", "done"}
    /\ imports < MaxImports
    /\ \E f \in Files : file' = f
    /\ phase' = "parsing"
    /\ work' = rooms
    /\ next' = 1
    /\ parsed' = <<>>
    /\ result' = EmptyResult
    /\ imports' = imports + 1
    /\ UNCHANGED rooms

\* A required column is missing: the import fails before any line is read.
RejectFile ==
    /\ phase = "parsing" /\ ~file.required
    /\ result' = [result EXCEPT !.status = "failed", !.reports = {ErrorAt(0)}]
    /\ phase' = "done"
    /\ UNCHANGED <<rooms, work, file, next, parsed, imports>>

Parsing == phase = "parsing" /\ file.required /\ next <= Len(file.lines)

\* A line with errors is reported and left out.
RejectLine ==
    /\ Parsing
    /\ ~LineValid(file, file.lines[next])
    /\ result' = [result EXCEPT !.reports = @ \cup {ErrorAt(next)}]
    /\ next' = next + 1
    /\ UNCHANGED <<rooms, work, phase, file, parsed, imports>>

Earlier(code) == {i \in DOMAIN parsed : parsed[i].code = code}

\* Faulty variant: two lines of a room that differ only in blocked seats agree.
SameButBlocked(a, b) == [a EXCEPT !.blocked = {}] = [b EXCEPT !.blocked = {}]

\* Two lines of the file describe a room alike.
SameRoom(a, b) == a = b

\* A line for a room an earlier line of the file already describes: a duplicate, or
\* a conflict, whose kind is room_capacity whatever the lines differ in.
RepeatLine ==
    /\ Parsing
    /\ LET l == file.lines[next]
       IN  /\ LineValid(file, l)
           /\ \E i \in Earlier(l.code) :
                  result' =
                      IF SameRoom(parsed[i].room, RoomOf(file, l))
                      THEN [result EXCEPT !.duplicates = @ + 1]
                      ELSE [result EXCEPT !.reports = @ \cup
                               {Report(next, "room_capacity",
                                       parsed[i].room.capacity, l.capacity)}]
    /\ next' = next + 1
    /\ UNCHANGED <<rooms, work, phase, file, parsed, imports>>

\* The first line of a room is handed to the service.
TakeLine ==
    /\ Parsing
    /\ LET l == file.lines[next]
       IN  /\ LineValid(file, l)
           /\ Earlier(l.code) = {}
           /\ parsed' = Append(parsed, [line |-> next, code |-> l.code,
                                        room |-> RoomOf(file, l)])
    /\ next' = next + 1
    /\ UNCHANGED <<rooms, work, phase, file, result, imports>>

EndOfFile ==
    /\ phase = "parsing" /\ file.required /\ next > Len(file.lines)
    /\ phase' = "applying"
    /\ next' = 1
    /\ UNCHANGED <<rooms, work, file, parsed, result, imports>>
-----------------------------------------------------------------------------
When(condition, report) == IF condition THEN {report} ELSE {}

\* What the service reports of a row for a known room.
Disagreements(old, new, line) ==
    UNION {When(old.capacity # new.capacity,
                Report(line, "room_capacity", old.capacity, new.capacity)),
           When(HasTopology(old) /\ StatesLayout(new) /\ ~SameLayout(old, new),
                Report(line, "room_topology", old.rows, new.rows)),
           When(StatesLayout(new) /\ ~HasTopology(old) /\ ~BackfillsLayout(old, new),
                ErrorAt(line)),
           When(new.blocked # {} /\ old.blocked # {} /\ old.blocked # new.blocked,
                Report(line, "room_blocked_seats", 0, 0)),
           When(new.blocked # {} /\ old.blocked = {} /\ ~LayoutConfirmed(old, new),
                ErrorAt(line))}

\* A row for a room on file.
ConfirmRoom ==
    /\ phase = "applying" /\ next <= Len(parsed)
    /\ LET row == parsed[next]
       IN  /\ row.code \in DOMAIN work
           /\ work' = [work EXCEPT ![row.code] = Confirmed(@, row.room)]
           /\ result' = [result EXCEPT
                  !.existing = @ + 1,
                  !.reports = @ \cup Disagreements(work[row.code], row.room, row.line)]
    /\ next' = next + 1
    /\ UNCHANGED <<rooms, phase, file, parsed, imports>>

\* A row for a new room.
CreateRoom ==
    /\ phase = "applying" /\ next <= Len(parsed)
    /\ LET row == parsed[next]
       IN  /\ row.code \notin DOMAIN work
           /\ work' = [c \in DOMAIN work \cup {row.code} |->
                        IF c = row.code THEN row.room ELSE work[c]]
           /\ result' = [result EXCEPT !.created = @ + 1]
    /\ next' = next + 1
    /\ UNCHANGED <<rooms, phase, file, parsed, imports>>

\* Every row applied: the status, the commit, the response.
Commit ==
    /\ phase = "applying" /\ next > Len(parsed)
    /\ rooms' = work
    /\ result' = [result EXCEPT !.status =
                     IF result.reports = {} THEN "success" ELSE "partial"]
    /\ phase' = "done"
    /\ UNCHANGED <<work, file, next, parsed, imports>>

\* The request ends without its commit: the write lock was not to be had, or the
\* server stopped.  The session is closed and with it what it wrote.
Abandon ==
    /\ phase \in {"parsing", "applying"}
    /\ phase' = "idle"
    /\ work' = rooms
    /\ UNCHANGED <<rooms, file, next, parsed, result, imports>>

Next ==
    \/ BeginImport \/ RejectFile \/ RejectLine \/ RepeatLine \/ TakeLine \/ EndOfFile
    \/ ConfirmRoom \/ CreateRoom \/ Commit \/ Abandon

Spec == Init /\ [][Next]_vars
-----------------------------------------------------------------------------
IsRoomTable(t) ==
    /\ DOMAIN t \subseteq Code
    /\ t \in [DOMAIN t -> RoomRecord]

TypeOK ==
    /\ IsRoomTable(rooms)
    /\ IsRoomTable(work)
    /\ phase \in {"idle", "parsing", "applying", "done"}
    /\ file \in Files \cup {NoFile}
    /\ next \in Nat \ {0}
    /\ parsed \in Seq([line : Nat, code : Code, room : RoomRecord])
    /\ imports \in 0..MaxImports

\* However capacity, layout and blocked seats arrive over several files, every
\* stored room is one the Room entity accepts: reading it back never raises
\* InvalidRoomTopologyError and every blocked seat exists.
RoomsWellFormed == \A c \in DOMAIN rooms : WellFormedRoom(rooms[c])

Agrees(l, room) ==
    /\ l.capacity = room.capacity
    /\ RowsOf(file, l) # 0 => l.rows = room.rows /\ l.columns = room.columns
    /\ file.blockedColumn /\ l.blocked # {} => l.blocked = room.blocked

\* docs/architecture.md: nothing is ever silently dropped.  When the rooms table
\* disagrees with a line after the import, that line is reported, or the line of
\* the same content it repeats.
EveryDisagreementReported ==
    phase = "done" /\ file.required =>
        \A i \in DOMAIN file.lines :
            LET l == file.lines[i]
            IN  \/ l.code \in DOMAIN rooms /\ Agrees(l, rooms[l.code])
                \/ \E r \in result.reports :
                       /\ r.line \in 1..i
                       /\ file.lines[r.line].code = l.code
                       /\ RoomOf(file, file.lines[r.line]) = RoomOf(file, l)

\* Importing the same file again right away would change nothing: what one pass
\* does not backfill, a second one does not either.
SecondPassChangesNothing ==
    phase = "done" =>
        \A k \in DOMAIN parsed :
            /\ parsed[k].code \in DOMAIN rooms
            /\ Confirmed(rooms[parsed[k].code], parsed[k].room) = rooms[parsed[k].code]

\* Facts about a room get a first value and keep it.
StoredFacts ==
    [key \in {<<c, "capacity">> : c \in DOMAIN rooms}
             \cup {<<c, "layout">> : c \in {d \in DOMAIN rooms : HasTopology(rooms[d])}}
             \cup {<<c, "blocked">> : c \in {d \in DOMAIN rooms : rooms[d].blocked # {}}}
     |-> CASE key[2] = "capacity" -> rooms[key[1]].capacity
           [] key[2] = "layout" -> <<rooms[key[1]].rows, rooms[key[1]].columns>>
           [] key[2] = "blocked" -> rooms[key[1]].blocked]

Policy == INSTANCE FirstValueWins WITH facts <- StoredFacts

\* Room import implements the policy: no capacity, layout or set of blocked seats
\* is ever replaced, over any sequence of files.
FirstValuesKept == Policy!Spec
=============================================================================
