--------------------------- MODULE ScheduleImport ---------------------------
(***************************************************************************)
(* Importing the exam schedule from a CSV file: the parser and the service *)
(* of backend/app/services/schedule_import and the endpoint of             *)
(* api/schedules.py.  Lines are grouped into exams, one per course, date   *)
(* and time; each exam is created or confirmed, then each of its rooms.    *)
(*                                                                         *)
(* A file is [required, broken, lines] as in RegistrationImport.  A line   *)
(* is [course, name, slot, expected, room, allocated]: Empty for an empty  *)
(* cell, Empty as slot for a malformed date or time, Bad for a count that  *)
(* is no number or negative.                                               *)
(*                                                                         *)
(* Courses and rooms come from their own imports.  These run on the same   *)
(* event loop, so they happen between schedule imports, never during one.  *)
(***************************************************************************)
EXTENDS Integers, Sequences, FiniteSets

CONSTANTS Course, Room, Name, Slot, Empty,
          Count,       \* the student counts of the files, and room capacities
          Files,       \* the files that may be imported
          MaxImports   \* bound on the number of imports

Bad == -1

Line == [course : Course \cup {Empty}, name : Name \cup {Empty},
         slot : Slot \cup {Empty}, expected : Count \cup {Bad},
         room : Room \cup {Empty}, allocated : Count \cup {Bad}]

FilesAssumption ==
    /\ Empty \notin Course \cup Room \cup Name \cup Slot
    /\ Count \subseteq Nat
    /\ MaxImports \in Nat
    /\ \A f \in Files :
          /\ f.required \in BOOLEAN /\ f.broken \in BOOLEAN
          /\ f.lines \in Seq(Line)

ASSUME FilesAreTyped == FilesAssumption

VARIABLES courses,  \* code -> name
          rooms,    \* code -> capacity
          exams,    \* committed exams: <<course, slot>> -> expected_student_count
          allocations,  \* committed exam rooms: <<course, slot, room>> -> allocated_students
          work,     \* the importing session's view: [exams, allocations]
          phase,    \* "idle", "parsing", "exams", "rooms", "done"
          file, next,  \* the file, and the line to parse or the group to import
          nextRoom, \* the room row of the group to import
          names,    \* canonical course names of the file
          groups,   \* the exam groups of the parser
          result,   \* the ScheduleImportResult so far
          imports   \* imports started

vars == <<courses, rooms, exams, allocations, work, phase, file, next, nextRoom, names,
          groups, result, imports>>

NoFile == [required |-> TRUE, broken |-> FALSE, lines |-> <<>>]

EmptyResult ==
    [status |-> "success", reports |-> {}, warnings |-> {}, duplicates |-> 0]

\* A validation error (nothing incoming) or a conflict.
Report(kind, line, key, incoming) ==
    [kind |-> kind, line |-> line, key |-> key, incoming |-> incoming]

ErrorAt(line) == Report("error", line, <<>>, Bad)

Init ==
    /\ courses = << >> /\ rooms = << >>
    /\ exams = << >> /\ allocations = << >>
    /\ work = [exams |-> << >>, allocations |-> << >>]
    /\ phase = "idle" /\ file = NoFile /\ next = 1 /\ nextRoom = 1
    /\ names = << >> /\ groups = <<>>
    /\ result = EmptyResult
    /\ imports = 0

\* Faulty variant: the last value wins.
OverwriteWith(f, key, value) ==
    [k \in DOMAIN f \cup {key} |-> IF k = key THEN value ELSE f[k]]

\* A function extended by one pair, if the key is new.
With(f, key, value) ==
    [k \in DOMAIN f \cup {key} |-> IF k \in DOMAIN f THEN f[k] ELSE value]

\* A conflict when the key already has another value.
Conflict(kind, line, known, key, value) ==
    {Report(kind, line, k, value) : k \in {x \in {key} \cap DOMAIN known : known[x] # value}}

Reporting(reports) == [result EXCEPT !.reports = @ \cup reports]
-----------------------------------------------------------------------------
\* Nothing is left of a request once it is over.
NoRequest ==
    /\ phase' = "idle" /\ file' = NoFile /\ next' = 1 /\ nextRoom' = 1
    /\ work' = [exams |-> exams, allocations |-> allocations]
    /\ names' = << >> /\ groups' = <<>>
    /\ result' = EmptyResult

\* Registrations bring courses, the room import brings rooms.
AddCourse ==
    /\ phase \in {"idle", "done"}
    /\ \E c \in Course \ DOMAIN courses, n \in Name : courses' = With(courses, c, n)
    /\ NoRequest
    /\ UNCHANGED <<rooms, exams, allocations, imports>>

AddRoom ==
    /\ phase \in {"idle", "done"}
    /\ \E r \in Room \ DOMAIN rooms, n \in Count : rooms' = With(rooms, r, n)
    /\ NoRequest
    /\ UNCHANGED <<courses, exams, allocations, imports>>

\* POST /schedules/import.
BeginImport ==
    /\ phase \in {"idle", "done"} /\ imports < MaxImports
    /\ \E f \in Files : file' = f
    /\ phase' = "parsing" /\ next' = 1 /\ nextRoom' = 1
    /\ work' = [exams |-> exams, allocations |-> allocations]
    /\ names' = << >> /\ groups' = <<>>
    /\ result' = EmptyResult
    /\ imports' = imports + 1
    /\ UNCHANGED <<courses, rooms, exams, allocations>>

\* A required column is missing, or the reader fails before the first line.
Unreadable == ~file.required \/ (file.broken /\ file.lines = <<>>)

RejectFile ==
    /\ phase = "parsing" /\ Unreadable
    /\ result' = [result EXCEPT !.status = "failed", !.reports = {ErrorAt(0)}]
    /\ phase' = "done"
    /\ UNCHANGED <<courses, rooms, exams, allocations, work, file, next, nextRoom, names,
                   groups, imports>>

\* A line without row_errors.
LineValid(l) ==
    /\ Empty \notin {l.course, l.name, l.slot, l.room}
    /\ Bad \notin {l.expected, l.allocated}

Parsing == phase = "parsing" /\ ~Unreadable /\ next <= Len(file.lines)

\* A line with errors is reported and left out.
RejectLine ==
    /\ Parsing /\ ~LineValid(file.lines[next])
    /\ result' = Reporting({ErrorAt(next)})
    /\ next' = next + 1
    /\ UNCHANGED <<courses, rooms, exams, allocations, work, phase, file, nextRoom, names,
                   groups, imports>>

\* Faulty variant: two exams of a course are one group.
SameCourse(g, l) == g.course = l.course

\* The group a line belongs to.
SameGroup(g, l) == g.course = l.course /\ g.slot = l.slot

RoomRow(l) == [line |-> next, room |-> l.room, allocated |-> l.allocated]

\* The first line of an exam opens its group.
OpenGroup ==
    /\ Parsing
    /\ LET l == file.lines[next]
           canonical == With(names, l.course, l.name)
       IN  /\ LineValid(l)
           /\ ~\E i \in DOMAIN groups : SameGroup(groups[i], l)
           /\ names' = canonical
           /\ groups' = Append(groups,
                  [line |-> next, course |-> l.course, name |-> canonical[l.course],
                   slot |-> l.slot, expected |-> l.expected, rooms |-> <<RoomRow(l)>>])
           /\ result' = Reporting(Conflict("course_name", next, names, l.course, l.name))
    /\ next' = next + 1
    /\ UNCHANGED <<courses, rooms, exams, allocations, work, phase, file, nextRoom, imports>>

\* What a further line of a group disagrees with: the course's name in the file, the
\* group's count, and the allocation of the room where the group has it.
LineConflicts(g, l) ==
    LET key == <<l.course, l.slot>>
        allocated == {g.rooms[j].allocated : j \in {k \in DOMAIN g.rooms : g.rooms[k].room = l.room}}
    IN  Conflict("course_name", next, names, l.course, l.name)
        \cup {Report("expected_student_count", next, key, l.expected) :
                 n \in {g.expected} \ {l.expected}}
        \cup {Report("exam_room_allocation", next, <<l.course, l.slot, l.room>>, l.allocated) :
                 n \in allocated \ {l.allocated}}

\* A further line of a group adds its room, or repeats or contradicts one (add_room).
ExtendGroup ==
    /\ Parsing
    /\ LET l == file.lines[next]
       IN  /\ LineValid(l)
           /\ \E i \in DOMAIN groups :
                  LET g == groups[i]
                      same == {j \in DOMAIN g.rooms : g.rooms[j].room = l.room}
                  IN  /\ SameGroup(g, l)
                      /\ groups' = IF same = {}
                                   THEN [groups EXCEPT ![i].rooms = Append(@, RoomRow(l))]
                                   ELSE groups
                      /\ result' = [Reporting(LineConflicts(g, l)) EXCEPT
                             !.duplicates = IF \E j \in same : g.rooms[j].allocated = l.allocated
                                            THEN @ + 1 ELSE @]
    /\ next' = next + 1
    /\ UNCHANGED <<courses, rooms, exams, allocations, work, phase, file, nextRoom, names,
                   imports>>

EndOfFile ==
    /\ phase = "parsing" /\ ~Unreadable /\ next > Len(file.lines)
    /\ result' = IF file.broken THEN Reporting({ErrorAt(0)}) ELSE result
    /\ phase' = "exams" /\ next' = 1
    /\ UNCHANGED <<courses, rooms, exams, allocations, work, file, nextRoom, names, groups,
                   imports>>
-----------------------------------------------------------------------------
Group == groups[next]

\* An unknown course excludes its exam group.
SkipGroup ==
    /\ phase = "exams" /\ next <= Len(groups)
    /\ Group.course \notin DOMAIN courses
    /\ result' = Reporting({ErrorAt(Group.line)})
    /\ next' = next + 1
    /\ UNCHANGED <<courses, rooms, exams, allocations, work, phase, file, nextRoom, names,
                   groups, imports>>

\* Faulty variant: only the counts of exams on file are compared.
ExamCountConflict(g) ==
    Conflict("expected_student_count", g.line, work.exams, <<g.course, g.slot>>, g.expected)

\* What a group disagrees with: the stored course name, the stored exam's count.
ExamConflicts(g) ==
    Conflict("course_name", g.line, courses, g.course, g.name)
    \cup Conflict("expected_student_count", g.line, work.exams, <<g.course, g.slot>>, g.expected)

\* _import_exam_group up to its rooms: the exam is confirmed or created.
ImportExam ==
    /\ phase = "exams" /\ next <= Len(groups)
    /\ Group.course \in DOMAIN courses
    /\ work' = [work EXCEPT !.exams = With(@, <<Group.course, Group.slot>>, Group.expected)]
    /\ result' = Reporting(ExamConflicts(Group))
    /\ phase' = "rooms" /\ nextRoom' = 1
    /\ UNCHANGED <<courses, rooms, exams, allocations, file, next, names, groups, imports>>

Row == Group.rooms[nextRoom]

RowKey == <<Group.course, Group.slot, Row.room>>

\* The room row after this one, or the next group after the last.
Advance ==
    IF nextRoom < Len(Group.rooms)
    THEN nextRoom' = nextRoom + 1 /\ UNCHANGED <<next, phase>>
    ELSE nextRoom' = 1 /\ next' = next + 1 /\ phase' = "exams"

\* An unknown room excludes its row.
SkipRoom ==
    /\ phase = "rooms"
    /\ Row.room \notin DOMAIN rooms
    /\ result' = Reporting({ErrorAt(Row.line)})
    /\ Advance
    /\ UNCHANGED <<courses, rooms, exams, allocations, work, file, names, groups, imports>>

\* Faulty variant: a room already allocated is not compared with its capacity.
ExceedsWhenNew(row) ==
    RowKey \notin DOMAIN work.allocations /\ row.allocated > rooms[row.room]

Exceeds(row) == row.allocated > rooms[row.room]

\* _import_exam_room: a warning when the allocation exceeds the room, and the
\* exam room confirmed or created.
ImportRoom ==
    /\ phase = "rooms"
    /\ Row.room \in DOMAIN rooms
    /\ work' = [work EXCEPT !.allocations = With(@, RowKey, Row.allocated)]
    /\ result' = [Reporting(Conflict("exam_room_allocation", Row.line, work.allocations,
                                     RowKey, Row.allocated)) EXCEPT
                    !.warnings = IF Exceeds(Row) THEN @ \cup {RowKey} ELSE @]
    /\ Advance
    /\ UNCHANGED <<courses, rooms, exams, allocations, file, names, groups, imports>>

\* Every group imported: the status, the commit, the response.
Commit ==
    /\ phase = "exams" /\ next > Len(groups)
    /\ exams' = work.exams /\ allocations' = work.allocations
    /\ result' = [result EXCEPT !.status =
                     IF result.reports = {} THEN "success" ELSE "partial"]
    /\ phase' = "done"
    /\ UNCHANGED <<courses, rooms, work, file, next, nextRoom, names, groups, imports>>

\* The request ends without its commit: the write lock was not to be had, or the
\* server stopped.  Nothing it wrote is kept.
Abandon ==
    /\ phase \notin {"idle", "done"}
    /\ NoRequest
    /\ UNCHANGED <<courses, rooms, exams, allocations, imports>>

Next ==
    \/ AddCourse \/ AddRoom
    \/ BeginImport \/ RejectFile \/ RejectLine \/ OpenGroup \/ ExtendGroup \/ EndOfFile
    \/ SkipGroup \/ ImportExam \/ SkipRoom \/ ImportRoom \/ Commit \/ Abandon

Spec == Init /\ [][Next]_vars
-----------------------------------------------------------------------------
Imported(i) == phase = "done" /\ ~Unreadable /\ LineValid(file.lines[i])

ExamOf(l) == <<l.course, l.slot>>
RoomOf(l) == <<l.course, l.slot, l.room>>

\* An error on line i or an earlier line of the same exam (and room).
ErrorFor(i, key(_)) ==
    \E j \in 1..i : /\ LineValid(file.lines[j])
                    /\ ErrorAt(j) \in result.reports
                    /\ key(file.lines[j]) = key(file.lines[i])

\* Nothing is silently dropped and nothing invented: after an import, the exam of
\* every valid line is stored exactly when its course is known, and its room's
\* allocation exactly when the room is known too; what is not stored has an error.  So
\* a file imported too early is completed by importing it again, once its courses
\* and rooms are there.
NothingDropped ==
    \A i \in DOMAIN file.lines : Imported(i) =>
        LET l == file.lines[i]
        IN  /\ l.course \in DOMAIN courses <=> ExamOf(l) \in DOMAIN exams
            /\ l.course \in DOMAIN courses \/ ErrorFor(i, ExamOf)
            /\ (l.course \in DOMAIN courses /\ l.room \in DOMAIN rooms)
                  <=> RoomOf(l) \in DOMAIN allocations
            /\ RoomOf(l) \in DOMAIN allocations \/ ErrorFor(i, RoomOf) \/ ErrorFor(i, ExamOf)

Reported(kind, key, value) ==
    \E r \in result.reports : r.kind = kind /\ r.key = key /\ r.incoming = value

\* The stored fact wins and the disagreement is reported: after an import, a line's
\* course name, student count and allocation are the stored ones or conflicts.
EveryDisagreementReported ==
    \A i \in DOMAIN file.lines : Imported(i) =>
        LET l == file.lines[i]
        IN  /\ l.course \in DOMAIN courses =>
                  \/ courses[l.course] = l.name
                  \/ Reported("course_name", l.course, l.name)
            /\ ExamOf(l) \in DOMAIN exams =>
                  \/ exams[ExamOf(l)] = l.expected
                  \/ Reported("expected_student_count", ExamOf(l), l.expected)
            /\ RoomOf(l) \in DOMAIN allocations =>
                  \/ allocations[RoomOf(l)] = l.allocated
                  \/ Reported("exam_room_allocation", RoomOf(l), l.allocated)

\* An allocation over its room's capacity never goes unnoticed: the import of a line
\* about it warns, or reports the line's disagreement with what is stored.
OverflowNoticed ==
    \A i \in DOMAIN file.lines : Imported(i) =>
        LET key == RoomOf(file.lines[i])
        IN  key \in DOMAIN allocations /\ allocations[key] > rooms[key[3]] =>
                \/ key \in result.warnings
                \/ \E n \in Count : Reported("exam_room_allocation", key, n)

\* The two stored facts of the schedule.
StoredFacts ==
    [key \in DOMAIN exams \cup DOMAIN allocations |->
        IF key \in DOMAIN exams THEN exams[key] ELSE allocations[key]]

Policy == INSTANCE FirstValueWins WITH facts <- StoredFacts

\* Schedule import implements the conflict policy: an exam's student count and a
\* room's allocation are never replaced, over any sequence of files and failures.
FirstValuesKept == Policy!Spec
=============================================================================
