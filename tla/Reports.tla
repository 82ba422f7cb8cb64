------------------------------ MODULE Reports -------------------------------
(***************************************************************************)
(* backend/app/services/reports/service.py and the PDF renderers of        *)
(* backend/app/reports: the seating list, the ID ranges and the seat map   *)
(* of a stored generation, read while imports, generations and resets      *)
(* commit.                                                                 *)
(*                                                                         *)
(* The report endpoints are plain functions: they run in a thread, and     *)
(* each of their SELECTs sees what is committed at that moment.  Reports   *)
(* write nothing, so one request at a time stands for all of them.  A      *)
(* generate request, whose own reads are in module SeatingLifecycle, is    *)
(* two steps here, its plan and its commit, with a reset or imports        *)
(* perhaps in between.  An import is one step; what may be on file after   *)
(* one that a reset fell into is a constant of its own.                    *)
(*                                                                         *)
(* Tables are sequences, and a row's id is its place: nothing but a reset  *)
(* deletes rows, and after it ids start from 1 again.  A course is known   *)
(* by its exam, and is 0 where its row is gone.  Names, dates, page layout *)
(* and drawing are left out.                                               *)
(***************************************************************************)
EXTENDS SeatingPlan, FiniteSetsExt

CONSTANTS
    Loads,           \* what the imports and session creation may put on file
    OvertakenLoads,  \* the same after a schedule import the last reset fell into
    Strategies,      \* the strategies clients ask for, for a session
    LateAllocation,  \* what a later schedule import allocates to a new room
    MaxGenerations, MaxImports, MaxResets, \* bounds on each kind of event
    MaxEvents                              \* and on generations and imports together

\* One database: student numbers, room codes, the rooms of an exam and the exams of a
\* session do not repeat.
WellTyped(db) ==
    /\ db.students \in Seq(Nat)
    /\ \A s, t \in DOMAIN db.students : db.students[s] = db.students[t] => s = t
    /\ db.rooms \in Seq([code : STRING, capacity : Nat, rows : Nat, columns : Nat,
                         blocked : SUBSET Nat])
    /\ \A r, q \in DOMAIN db.rooms : db.rooms[r].code = db.rooms[q].code => r = q
    /\ db.exams \in Seq([course : Nat, students : SUBSET (DOMAIN db.students)])
    /\ db.lines \in Seq([exam : Nat, room : Nat, allocated : Nat])
    /\ \A i, j \in DOMAIN db.lines :
          db.lines[i].exam = db.lines[j].exam /\ db.lines[i].room = db.lines[j].room => i = j
    /\ db.sessions \in Seq(Seq(DOMAIN db.exams))
    /\ \A s \in DOMAIN db.sessions : db.sessions[s] # <<>>

\* Every reference resolves.
Consistent(db) ==
    /\ WellTyped(db)
    /\ \A e \in DOMAIN db.exams : db.exams[e].course # 0
    /\ \A i \in DOMAIN db.lines :
          db.lines[i].exam \in DOMAIN db.exams /\ db.lines[i].room \in DOMAIN db.rooms

\* The unique constraints of the tables, and what creating a session checks.
LoadsAssumption ==
    /\ LateAllocation \in Nat
    /\ \A load \in Loads : Consistent(load)
    /\ \A load \in OvertakenLoads : WellTyped(load)

ASSUME LoadsAreConsistent == LoadsAssumption

VARIABLES students,     \* student numbers, in the order the sort keys put them
          rooms,        \* [code, capacity, rows, columns, blocked]
          exams,        \* [course, students]: its course and who is registered
          lines,        \* rows [exam, room, allocated] of exam_rooms
          sessions,     \* the exam ids of each session
          generations,  \* rows [exam, session], 0 for none
          seatRows,     \* rows of seat_assignments
          run,          \* the generate request under way
          overtaken,    \* whether the last reset fell into a schedule import
          rep,          \* the report request: its local variables
          generated, imports, resets  \* how many of each there were

tables == <<students, rooms, exams, lines, sessions, generations, seatRows>>
counters == <<generated, imports, resets>>
vars == <<tables, run, overtaken, rep, counters>>

Idle == [at |-> "idle"]

Events == generated + imports + (IF run = Idle THEN 0 ELSE 1)

CanImport == imports < MaxImports /\ Events < MaxEvents

\* Other actions leave a report alone; one that was sent is gone from the model.
RepLeft == rep' = IF rep.at = "sent" THEN Idle ELSE rep

Loaded(load) ==
    /\ students' = load.students /\ rooms' = load.rooms /\ exams' = load.exams
    /\ lines' = load.lines /\ sessions' = load.sessions

Init ==
    /\ \E load \in Loads :
          /\ students = load.students /\ rooms = load.rooms /\ exams = load.exams
          /\ lines = load.lines /\ sessions = load.sessions
    /\ generations = <<>>
    /\ seatRows = {}
    /\ run = Idle /\ rep = Idle /\ overtaken = FALSE
    /\ generated = 0 /\ imports = 0 /\ resets = 0
-----------------------------------------------------------------------------
\* The roster a generation reads, and the rooms it may fill.
RosterOf(ids) ==
    UNION {{[exam |-> e, course |-> exams[e].course, student |-> s] :
              s \in exams[e].students} : e \in Range(ids)}

LinesOf(e) == Chosen(lines, {i \in DOMAIN lines : lines[i].exam = e})

\* Those of the first n exams.
LinesFrom(ids) ==
    LET found[n \in 0..Len(ids)] ==
            IF n = 0 THEN <<>> ELSE found[n - 1] \o LinesOf(ids[n])
    IN  found

\* _session_student_sort_key.
Earlier(x, y) ==
    \/ x.course < y.course
    \/ x.course = y.course /\ students[x.student] < students[y.student]

Ahead(roster) == [x \in roster |-> Cardinality({y \in roster : Earlier(y, x)})]

\* What the constraint strategy may answer, whatever its scoring prefers
\* (module ConstraintSeating): a seat each, and no seat free while one waits.
AnySeatings(roster, seats) ==
    LET n == IF Cardinality(roster) < Cardinality(seats) THEN Cardinality(roster)
             ELSE Cardinality(seats)
    IN  UNION {{{[student |-> x.student, exam |-> x.exam,
                  room |-> f[x].room, seat |-> f[x].seat] : x \in S} :
                   f \in Injection(S, seats)} :
               S \in {T \in SUBSET roster : Cardinality(T) = n}}

\* Between its last SELECT and its first write a run has its plan.  `blocked` and
\* `since` are history: the seats that were blocked and the resets there had been.
Place(exam, session, plan) ==
    /\ run = Idle
    /\ generated < MaxGenerations /\ Events < MaxEvents
    /\ run' = [at |-> "placed", plan |-> plan,
               row |-> [exam |-> exam, session |-> session, since |-> resets,
                        blocked |-> [r \in DOMAIN rooms |-> rooms[r].blocked]]]
    /\ RepLeft
    /\ UNCHANGED <<tables, overtaken, counters>>

\* _load_room_allocations asserts that every room is there.
RoomsKnown(found) == \A i \in DOMAIN found : found[i].room \in DOMAIN rooms

\* SeatingService.generate.
GenerateExam ==
    \E e \in DOMAIN exams :
        /\ RoomsKnown(LinesOf(e))
        /\ Place(e, 0, SeatingOf(Ahead(RosterOf(<<e>>)), Candidates(LinesOf(e), rooms)))

\* SeatingService.generate_session; it refuses a student of two exams.
GenerateSession ==
    \E s \in DOMAIN sessions, strategy \in Strategies :
        LET roster == RosterOf(sessions[s])
            found == LinesFrom(sessions[s])[Len(sessions[s])]
            allocations == MergedAllocations(found)
            seats == Candidates(allocations, rooms)
        IN  /\ RoomsKnown(found)
            /\ \A x, y \in roster : x.student = y.student => x = y
            /\ \/ /\ strategy = "sequential"
                  /\ Place(0, s, SeatingOf(Ahead(roster), seats))
               \/ /\ strategy = "constraint"
                  /\ \A i \in DOMAIN allocations : HasTopology(rooms[allocations[i].room])
                  /\ \E plan \in AnySeatings(roster, seats) : Place(0, s, plan)

\* The generation row and its assignments are committed, whatever has become of the
\* rows they name.
Store ==
    /\ run # Idle
    /\ generations' = Append(generations, run.row)
    /\ seatRows' = seatRows \cup
          {[generation |-> Len(generations) + 1, exam |-> a.exam, room |-> a.room,
            seat |-> a.seat, student |-> a.student] : a \in run.plan}
    /\ generated' = generated + 1
    /\ run' = Idle
    /\ RepLeft
    /\ UNCHANGED <<students, rooms, exams, lines, sessions, overtaken, imports, resets>>
-----------------------------------------------------------------------------
Import(r, room) ==
    /\ CanImport
    /\ rooms' = [rooms EXCEPT ![r] = room]
    /\ imports' = imports + 1
    /\ RepLeft
    /\ UNCHANGED <<students, exams, lines, sessions, generations, seatRows,
                   run, overtaken, generated, resets>>

\* A room file gives a room its layout, or its blocked seats, which it lacked.
BackfillLayout ==
    \E r \in DOMAIN rooms :
        /\ ~HasTopology(rooms[r])
        /\ Import(r, [rooms[r] EXCEPT !.rows = 1, !.columns = rooms[r].capacity])

BackfillBlocked ==
    \E r \in DOMAIN rooms : \E n \in 1..rooms[r].capacity :
        /\ HasTopology(rooms[r]) /\ rooms[r].blocked = {}
        /\ Import(r, [rooms[r] EXCEPT !.blocked = {n}])

\* A schedule file adds a room to an exam on file.
AddLine ==
    /\ CanImport
    /\ \E e \in DOMAIN exams, r \in DOMAIN rooms :
          /\ \A i \in DOMAIN lines : lines[i].exam = e => lines[i].room # r
          /\ lines' = Append(lines, [exam |-> e, room |-> r, allocated |-> LateAllocation])
    /\ imports' = imports + 1
    /\ RepLeft
    /\ UNCHANGED <<students, rooms, exams, sessions, generations, seatRows,
                   run, overtaken, generated, resets>>

\* reset_database.  A schedule import that has found its course, or its exam and a
\* room, and has not written yet goes on all the same.
Reset ==
    /\ resets < MaxResets
    /\ Loaded([students |-> <<>>, rooms |-> <<>>, exams |-> <<>>, lines |-> <<>>,
               sessions |-> <<>>])
    /\ generations' = <<>> /\ seatRows' = {}
    /\ resets' = resets + 1
    /\ overtaken' \in BOOLEAN
    /\ RepLeft
    /\ UNCHANGED <<run, generated, imports>>

\* New imports after a reset, in one step.
Reload ==
    /\ exams = <<>>
    /\ \/ \E load \in Loads : Loaded(load)
       \/ overtaken /\ \E load \in OvertakenLoads : Loaded(load)
    /\ RepLeft
    /\ UNCHANGED <<generations, seatRows, run, overtaken, counters>>
-----------------------------------------------------------------------------
At(stage) == rep.at = stage

Kinds == {"seating", "ranges", "map"}

RowsOf(g) == {x \in seatRows : x.generation = g}

InRoom(rows, r) == {x \in rows : x.room = r}

\* A report is asked for.  `since` and `stored` are history.
Request ==
    /\ At("idle")
    /\ \E kind \in Kinds, g \in 1..MaxGenerations :
          rep' = [kind |-> kind, of |-> g, at |-> "generation", row |-> <<>>,
                  rows |-> {}, ids |-> <<>>, k |-> 1, lines |-> <<>>, order |-> <<>>,
                  pages |-> <<>>, answer |-> "none", since |-> resets,
                  stored |-> RowsOf(g)]
    /\ UNCHANGED <<tables, run, overtaken, counters>>

\* What the report does leaves the database alone.
Becomes(report) ==
    /\ rep' = report
    /\ UNCHANGED <<tables, run, overtaken, counters>>

Goto(stage) == [rep EXCEPT !.at = stage]

Send(answer) == Becomes([rep EXCEPT !.at = "sent", !.answer = answer])

Finished == rep.k > Len(rep.ids)

LoadGeneration ==
    /\ At("generation")
    /\ IF rep.of \in DOMAIN generations
       THEN Becomes([Goto("rows") EXCEPT !.row = generations[rep.of]])
       ELSE Send("GenerationNotFoundError")

LoadAssignments ==
    /\ At("rows")
    /\ IF RowsOf(rep.of) = {} THEN Send("EmptyGenerationError")
       ELSE LET single == rep.row.exam # 0
            IN  Becomes([Goto(IF single THEN "header" ELSE "session") EXCEPT
                            !.rows = RowsOf(rep.of),
                            !.ids = IF single THEN <<rep.row.exam>> ELSE <<>>])

\* The session row, then its session_exams rows, two SELECTs.
LoadSession ==
    /\ At("session")
    /\ IF rep.row.session \in DOMAIN sessions THEN Becomes(Goto("session_exams"))
       ELSE Send("AssertionError")

LoadSessionExams ==
    /\ At("session_exams")
    /\ LET s == rep.row.session
       IN  Becomes([Goto("header") EXCEPT
                       !.ids = IF s \in DOMAIN sessions THEN sessions[s] ELSE <<>>])

CourseKnown(e) == e \in DOMAIN exams /\ exams[e].course # 0

\* _exam_and_course of each exam.
LoadHeader ==
    /\ At("header")
    /\ IF \A i \in DOMAIN rep.ids : CourseKnown(rep.ids[i])
       THEN Becomes(Goto("lines"))
       ELSE Send("AssertionError")

\* _room_order_for_exam of the next exam: its lines, then the room of each.
ListRooms ==
    /\ At("lines") /\ ~Finished
    /\ Becomes([Goto("lookup") EXCEPT !.lines = LinesOf(rep.ids[rep.k])])

RoomOf(r) == [room |-> r, code |-> rooms[r].code]

\* Faulty variant: a room appears once for each exam that uses it.
EveryRoom(order, found) == order \o found

\* seen_room_ids: a room appears where its first exam puts it.
FirstAppearances(order, found) ==
    LET unseen == {n \in DOMAIN found :
                      \A i \in DOMAIN order : order[i].room # found[n].room}
    IN  order \o Chosen(found, unseen)

\* Faulty variant: rooms in the order of their ids.
RoomsById(found) ==
    [n \in DOMAIN found |->
        CHOOSE x \in Range(found) :
            Cardinality({y \in Range(found) : y.room <= x.room}) = n]

InLineOrder(found) == found

LookUpRooms ==
    /\ At("lookup")
    /\ IF \A i \in DOMAIN rep.lines : rep.lines[i].room \in DOMAIN rooms
       THEN LET found == [i \in DOMAIN rep.lines |-> RoomOf(rep.lines[i].room)]
            IN  Becomes([Goto("lines") EXCEPT
                            !.k = @ + 1,
                            !.order = FirstAppearances(@, InLineOrder(found))])
       ELSE Send("AssertionError")

RoomsListed ==
    /\ At("lines") /\ Finished
    /\ Becomes([Goto(IF rep.kind = "map" THEN "courses" ELSE "students") EXCEPT !.k = 1])
-----------------------------------------------------------------------------
StudentsKnown(rows) == \A x \in rows : x.student \in DOMAIN students

\* What is printed at each seat of a set of rows: the student's number.
CellsOf(rows) ==
    [n \in {x.seat : x \in rows} |->
        students[(CHOOSE x \in rows : x.seat = n).student]]

\* A room of the seating list, and a line of the ID ranges: the students of its
\* first and its last seat.
ListPage(entry, rows) == [code |-> entry.code, cells |-> CellsOf(rows)]

RangePage(entry, rows) ==
    LET seats == {x.seat : x \in rows}
    IN  [code |-> entry.code, first |-> CellsOf(rows)[Min(seats)],
         last |-> CellsOf(rows)[Max(seats)], count |-> Cardinality(rows)]

\* The rooms with at least one seat taken.
Occupied(order, rows) ==
    Chosen(order, {i \in DOMAIN order : InRoom(rows, order[i].room) # {}})

\* build_seating_report_data and build_range_report_data once the rooms are known.
PrintLists ==
    /\ At("students")
    /\ IF ~StudentsKnown(rep.rows) THEN Send("AssertionError")
       ELSE LET order == Occupied(rep.order, rep.rows)
                Page(entry) ==
                    IF rep.kind = "seating" THEN ListPage(entry, InRoom(rep.rows, entry.room))
                    ELSE RangePage(entry, InRoom(rep.rows, entry.room))
            IN  Becomes([Goto("sent") EXCEPT
                            !.answer = "ok",
                            !.pages = [i \in DOMAIN order |-> Page(order[i])]])

\* Faulty variant: a room without a layout fails the report.
DrawableIfLaidOut(entry, rows) ==
    /\ entry.room \in DOMAIN rooms
    /\ HasTopology(rooms[entry.room])
    /\ StudentsKnown(rows)

\* What building a room's grid asserts: the students of its cells are on file.
Drawable(entry, rows) ==
    /\ entry.room \in DOMAIN rooms
    /\ HasTopology(rooms[entry.room]) =>
          StudentsKnown({x \in rows : x.seat <= rooms[entry.room].capacity})

\* build_seat_map_report_data: the course of each exam first.
LoadCourses ==
    /\ At("courses")
    /\ IF \A x \in rep.rows : CourseKnown(x.exam) THEN Becomes(Goto("grids"))
       ELSE Send("AssertionError")

\* Faulty variant: the grid ends one seat early.
VisibleButLast(room, rows) ==
    {x \in rows : HasTopology(room) /\ x.seat \in UsableSeats(room) \ {room.capacity}}

\* The students whose seats are cells of the grid and not printed as blocked.
Visible(room, rows) ==
    {x \in rows : HasTopology(room) /\ x.seat \in UsableSeats(room)}

\* Then the next room: its layout as configured now, and its students.
DrawRoom ==
    /\ At("grids") /\ rep.k <= Len(rep.order)
    /\ LET entry == rep.order[rep.k]
           rows == InRoom(rep.rows, entry.room)
       IN  \/ rows = {} /\ Becomes([rep EXCEPT !.k = @ + 1])
           \/ /\ rows # {} /\ ~Drawable(entry, rows)
              /\ Send("AssertionError")
           \/ /\ rows # {} /\ Drawable(entry, rows)
              /\ LET room == rooms[entry.room]
                     page == [code |-> entry.code, grid |-> HasTopology(room),
                              cells |-> CellsOf(Visible(room, rows))]
                 IN  Becomes([rep EXCEPT !.k = @ + 1, !.pages = Append(@, page)])

SendMap ==
    /\ At("grids") /\ rep.k > Len(rep.order)
    /\ Send("ok")

\* The response has gone out.
Leave ==
    /\ At("sent")
    /\ rep' = Idle
    /\ UNCHANGED <<tables, run, overtaken, counters>>

Report ==
    \/ LoadGeneration \/ LoadAssignments \/ LoadSession \/ LoadSessionExams
    \/ LoadHeader \/ ListRooms \/ LookUpRooms \/ RoomsListed
    \/ PrintLists \/ LoadCourses \/ DrawRoom \/ SendMap

Next ==
    \/ GenerateExam \/ GenerateSession \/ Store
    \/ BackfillLayout \/ BackfillBlocked \/ AddLine
    \/ Reset \/ Reload
    \/ Request \/ Report \/ Leave

Spec == Init /\ [][Next]_vars
-----------------------------------------------------------------------------
\* No reset was committed since the report was asked for, none between the plan and
\* the commit of its generation, and the last one fell into no schedule import.
Undisturbed ==
    rep.since = resets /\ generations[rep.of].since = resets /\ ~overtaken

\* Such a report was sent.
Sent(kind) ==
    At("sent") /\ rep.kind = kind /\ rep.answer = "ok" /\ Undisturbed

\* What the database says of the generation the report is about.
Truth ==
    {[code |-> rooms[x.room].code, seat |-> x.seat, number |-> students[x.student]] :
       x \in RowsOf(rep.of)}

InCode(code) == {x \in Truth : x.code = code}

\* Whatever is imported or generated while a report is put together, it has one
\* page or line for each room the generation uses, shared rooms included, and on
\* it exactly that room's students: all in the seating list, their number in the
\* ID ranges, nobody at another's seat in the seat map.
EveryAssignmentPrintedOnce ==
    /\ \A kind \in Kinds : Sent(kind) =>
          /\ \A i, j \in DOMAIN rep.pages : rep.pages[i].code = rep.pages[j].code => i = j
          /\ {page.code : page \in Range(rep.pages)} = {x.code : x \in Truth}
    /\ \A kind \in {"seating", "map"} : Sent(kind) =>
          \A page \in Range(rep.pages) :
              LET printed == {[code |-> page.code, seat |-> n, number |-> page.cells[n]] :
                                n \in DOMAIN page.cells}
              IN  /\ printed \subseteq InCode(page.code)
                  /\ kind = "seating" => printed = InCode(page.code)
    /\ Sent("ranges") => \A page \in Range(rep.pages) :
          page.count = Cardinality(InCode(page.code))

\* The ID ranges of a single exam's generation send every student to the right
\* room: a room's range holds its own students and no one else's, and the ranges
\* ascend from line to line, also after rooms and blocked seats were added.
RangesBoundRooms ==
    Sent("ranges") /\ generations[rep.of].exam # 0 =>
        /\ \A page \in Range(rep.pages), x \in Truth :
              x.code = page.code <=> x.number \in page.first..page.last
        /\ \A i, j \in DOMAIN rep.pages :
              i < j => rep.pages[i].last < rep.pages[j].first

\* A student missing from the grid of a seat map sits on a seat that was blocked
\* after the generation was made, never on one that was blocked or out of reach
\* before.
VanishedOnlyIfBlockedLater ==
    Sent("map") => \A page \in Range(rep.pages), x \in RowsOf(rep.of) :
        page.grid /\ page.code = rooms[x.room].code /\ x.seat \notin DOMAIN page.cells =>
            x.seat \in rooms[x.room].blocked \ generations[rep.of].blocked[x.room]

\* A generation with an assignment can be reported on: no import and no other
\* generation makes one of its reports fail or come out empty.  Only a reset does:
\* during the report, between the plan and the commit of the generation, or in a
\* schedule import, which then may store an exam whose course is gone.
OnlyResetBreaksReports ==
    At("sent") /\ rep.stored # {} /\ Undisturbed =>
        rep.answer = "ok" /\ rep.pages # <<>>

\* What ranges_report.py says of the range it prints: "seat_number order and
\* student-number order coincide within a room".
RangesCoincide ==
    Sent("ranges") => \A x, y \in Truth :
        x.code = y.code /\ x.seat < y.seat => x.number < y.number
=============================================================================
