------------------------ MODULE ScheduleImportProofs ------------------------
(***************************************************************************)
(* What schedule import stores and reports, for any courses, rooms, slots, *)
(* counts and files, any number of imports and failures, and courses and   *)
(* rooms that appear between imports.                                      *)
(***************************************************************************)
EXTENDS ScheduleImport, TLAPS

ExamKey == Course \X Slot
RoomKey == Course \X Slot \X Room

\* A table from some of the keys to values.
IsTable(table, keys, values) ==
    table \in [DOMAIN table -> values] /\ DOMAIN table \subseteq keys

\* A table that has every row of another, unchanged.
Holds(new, old) ==
    DOMAIN old \subseteq DOMAIN new /\ \A k \in DOMAIN old : new[k] = old[k]

Kinds == {"error", "course_name", "expected_student_count", "exam_room_allocation"}
ReportRecord ==
    [kind : Kinds, line : Nat, key : Course \cup ExamKey \cup RoomKey \cup {<<>>},
     incoming : Name \cup Count \cup {Bad}]
ResultRecord ==
    [status : {"success", "partial", "failed"}, reports : SUBSET ReportRecord,
     warnings : SUBSET RoomKey, duplicates : Nat]
RowRecord == [line : Nat, room : Room, allocated : Count]
GroupRecord ==
    [line : Nat, course : Course, name : Name, slot : Slot, expected : Count,
     rooms : Seq(RowRecord)]

\* Every variable has its type.
TypeOK ==
    /\ IsTable(courses, Course, Name) /\ IsTable(rooms, Room, Count)
    /\ IsTable(exams, ExamKey, Count) /\ IsTable(allocations, RoomKey, Count)
    /\ work = [exams |-> work.exams, allocations |-> work.allocations]
    /\ IsTable(work.exams, ExamKey, Count) /\ IsTable(work.allocations, RoomKey, Count)
    /\ phase \in {"idle", "parsing", "exams", "rooms", "done"}
    /\ file.required \in BOOLEAN /\ file.broken \in BOOLEAN /\ file.lines \in Seq(Line)
    /\ next \in Nat \ {0} /\ nextRoom \in Nat \ {0}
    /\ IsTable(names, Course, Name) /\ groups \in Seq(GroupRecord)
    /\ result \in ResultRecord /\ imports \in Nat

\* The view extends what is committed, and nothing refers to a missing course or room.
TablesSound ==
    /\ Holds(work.exams, exams) /\ Holds(work.allocations, allocations)
    /\ \A e \in DOMAIN work.exams : e[1] \in DOMAIN courses
    /\ \A a \in DOMAIN work.allocations : a[1] \in DOMAIN courses /\ a[3] \in DOMAIN rooms

Reading == phase # "idle" /\ ~Unreadable

ReadSoFar == IF phase = "parsing" THEN 1..(next - 1) ELSE DOMAIN file.lines

\* The known value is the given one, or the difference was reported.
Agrees(kind, known, key, value) == known = value \/ Reported(kind, key, value)

\* A row stands for the line it came from.
RowSound(g, row) ==
    /\ row.line \in ReadSoFar /\ LineValid(file.lines[row.line])
    /\ RoomOf(file.lines[row.line]) = <<g.course, g.slot, row.room>>

\* A group stands for the line that opened it; it has a room and the canonical name.
GroupSound(g) ==
    /\ g.line \in ReadSoFar /\ LineValid(file.lines[g.line])
    /\ ExamOf(file.lines[g.line]) = <<g.course, g.slot>>
    /\ g.course \in DOMAIN names /\ g.name = names[g.course]
    /\ g.rooms # <<>>
    /\ \A k \in DOMAIN g.rooms : RowSound(g, g.rooms[k])

\* The group has the line's room, opened no later than the line.
LineRow(l, i, g, row) ==
    /\ row.room = l.room /\ row.line <= i
    /\ Agrees("exam_room_allocation", row.allocated, RoomOf(l), l.allocated)

LineGroup(l, i, g) ==
    /\ ExamOf(l) = <<g.course, g.slot>> /\ g.line <= i
    /\ Agrees("expected_student_count", g.expected, ExamOf(l), l.expected)
    /\ \E k \in DOMAIN g.rooms : LineRow(l, i, g, g.rooms[k])

\* Every valid line read is in a group, or what it says against one was reported.
LineGrouped(l, i) ==
    /\ l.course \in DOMAIN names
    /\ Agrees("course_name", names[l.course], l.course, l.name)
    /\ \E g \in DOMAIN groups : LineGroup(l, i, groups[g])

GroupsSound ==
    Reading =>
        /\ ReadSoFar \subseteq DOMAIN file.lines
        /\ \A i \in ReadSoFar : LineValid(file.lines[i]) => LineGrouped(file.lines[i], i)
        /\ \A g \in DOMAIN groups : GroupSound(groups[g])

\* What is left of a row and of a group once it was imported.
RowImported(g, row) ==
    LET key == <<g.course, g.slot, row.room>>
    IN  IF row.room \in DOMAIN rooms
        THEN /\ key \in DOMAIN work.allocations
             /\ Agrees("exam_room_allocation", work.allocations[key], key, row.allocated)
             /\ row.allocated > rooms[row.room] => key \in result.warnings
        ELSE ErrorAt(row.line) \in result.reports

ExamImported(g) ==
    /\ g.course \in DOMAIN courses /\ <<g.course, g.slot>> \in DOMAIN work.exams
    /\ Agrees("expected_student_count", work.exams[<<g.course, g.slot>>],
              <<g.course, g.slot>>, g.expected)
    /\ Agrees("course_name", courses[g.course], g.course, g.name)

GroupImported(g) ==
    IF g.course \in DOMAIN courses
    THEN ExamImported(g) /\ \A k \in DOMAIN g.rooms : RowImported(g, g.rooms[k])
    ELSE ErrorAt(g.line) \in result.reports

\* The groups before the one at hand are imported, and of that the exam and the rows
\* before the one at hand.
ImportSound ==
    /\ phase \in {"exams", "rooms"} => ~Unreadable
    /\ phase \in {"exams", "rooms", "done"} /\ ~Unreadable =>
          \A i \in DOMAIN groups : i < next => GroupImported(groups[i])
    /\ phase = "rooms" =>
          /\ next \in DOMAIN groups /\ nextRoom \in DOMAIN Group.rooms
          /\ ExamImported(Group)
          /\ \A k \in DOMAIN Group.rooms : k < nextRoom => RowImported(Group, Group.rooms[k])
    /\ phase = "done" /\ ~Unreadable =>
          /\ \A i \in DOMAIN groups : i < next
          /\ exams = work.exams /\ allocations = work.allocations
    /\ phase = "idle" => file = NoFile

\* The inductive invariant.
IInv == TypeOK /\ TablesSound /\ GroupsSound /\ ImportSound
-----------------------------------------------------------------------------
\* A table with one more row, unless it has the key.
Extended(new, table, keys, values, key, value) ==
    /\ IsTable(new, keys, values) /\ Holds(new, table)
    /\ DOMAIN new = DOMAIN table \cup {key}
    /\ key \notin DOMAIN table => new[key] = value

LEMMA WithExtends ==
    ASSUME NEW keys, NEW values, NEW table, IsTable(table, keys, values),
           NEW key \in keys, NEW value \in values
    PROVE  Extended(With(table, key, value), table, keys, values, key, value)
<1> DEFINE new == With(table, key, value)
<1>1. /\ DOMAIN new = DOMAIN table \cup {key}
      /\ new = [k \in DOMAIN table \cup {key} |-> new[k]]
      /\ \A k \in DOMAIN table : new[k] = table[k]
      /\ key \notin DOMAIN table => new[key] = value
    BY DEF With
<1> HIDE DEF new
<1>2. table \in [DOMAIN table -> values] /\ DOMAIN table \subseteq keys
    BY DEF IsTable
<1>3. \A k \in DOMAIN new : new[k] \in values
    BY <1>1, <1>2
<1>4. new \in [DOMAIN new -> values] /\ DOMAIN new \subseteq keys
    BY <1>1, <1>2, <1>3
<1> QED
    BY <1>1, <1>4 DEF Extended, IsTable, Holds, new

LEMMA EmptyIsTable ==
    ASSUME NEW keys, NEW values
    PROVE  IsTable(<< >>, keys, values) /\ DOMAIN << >> = {}
BY DEF IsTable

ReportKey == Course \cup ExamKey \cup RoomKey \cup {<<>>}
Incoming == Name \cup Count \cup {Bad}

ReportedIn(reports, kind, key, value) ==
    \E r \in reports : r.kind = kind /\ r.key = key /\ r.incoming = value

LEMMA ReportTyped ==
    ASSUME NEW kind \in Kinds, NEW line \in Nat, NEW key \in ReportKey, NEW value \in Incoming
    PROVE  /\ Report(kind, line, key, value) \in ReportRecord
           /\ Report(kind, line, key, value).kind = kind
           /\ Report(kind, line, key, value).key = key
           /\ Report(kind, line, key, value).incoming = value
BY DEF Report, ReportRecord, ReportKey, Incoming

LEMMA ErrorTyped == ASSUME NEW line \in Nat PROVE ErrorAt(line) \in ReportRecord
<1>1. "error" \in Kinds /\ <<>> \in ReportKey /\ Bad \in Incoming
    BY DEF Kinds, ReportKey, Incoming
<1> QED
    BY <1>1, ReportTyped DEF ErrorAt

\* The reports about a key whose value in a table is another one.
Complains(more, kind, known, key, value) ==
    /\ more \in SUBSET ReportRecord
    /\ key \in DOMAIN known /\ known[key] # value => ReportedIn(more, kind, key, value)

LEMMA ConflictComplains ==
    ASSUME NEW kind \in Kinds, NEW line \in Nat, NEW key \in ReportKey, NEW value \in Incoming,
           NEW known
    PROVE  Complains(Conflict(kind, line, known, key, value), kind, known, key, value)
<1> DEFINE report == Report(kind, line, key, value)
<1>1. /\ report \in ReportRecord /\ report.kind = kind /\ report.key = key
      /\ report.incoming = value
    BY ReportTyped
<1> HIDE DEF report
<1>2. \A r \in Conflict(kind, line, known, key, value) : r = report
    BY DEF Conflict, report
<1>3. key \in DOMAIN known /\ known[key] # value =>
        report \in Conflict(kind, line, known, key, value)
    BY DEF Conflict, report
<1> QED
    BY <1>1, <1>2, <1>3 DEF Complains, ReportedIn

LEMMA ReportingTyped ==
    ASSUME result \in ResultRecord, NEW more \in SUBSET ReportRecord
    PROVE  /\ Reporting(more) \in ResultRecord
           /\ Reporting(more).reports = result.reports \cup more
           /\ Reporting(more).warnings = result.warnings
BY DEF Reporting, ResultRecord

\* A result that counts a duplicate, or one that has a warning.
Repeated(r, again) == [r EXCEPT !.duplicates = IF again THEN @ + 1 ELSE @]
Warned(r, exceeds, key) == [r EXCEPT !.warnings = IF exceeds THEN @ \cup {key} ELSE @]

LEMMA RepeatedTyped ==
    ASSUME NEW r \in ResultRecord, NEW again
    PROVE  Repeated(r, again) \in ResultRecord /\ Repeated(r, again).reports = r.reports
<1> DEFINE n == IF again THEN r.duplicates + 1 ELSE r.duplicates
<1>1. n \in Nat
    BY DEF ResultRecord
<1>2. Repeated(r, again) = [r EXCEPT !.duplicates = n]
    BY DEF Repeated
<1> HIDE DEF n
<1> QED
    BY <1>1, <1>2 DEF ResultRecord

LEMMA WarnedTyped ==
    ASSUME NEW r \in ResultRecord, NEW exceeds, NEW key \in RoomKey
    PROVE  /\ Warned(r, exceeds, key) \in ResultRecord
           /\ Warned(r, exceeds, key).reports = r.reports
           /\ r.warnings \subseteq Warned(r, exceeds, key).warnings
           /\ exceeds => key \in Warned(r, exceeds, key).warnings
<1> DEFINE w == IF exceeds THEN r.warnings \cup {key} ELSE r.warnings
<1>1. w \in SUBSET RoomKey /\ r.warnings \subseteq w /\ (exceeds => key \in w)
    BY DEF ResultRecord
<1>2. Warned(r, exceeds, key) = [r EXCEPT !.warnings = w]
    BY DEF Warned
<1> HIDE DEF w
<1> QED
    BY <1>1, <1>2 DEF ResultRecord
-----------------------------------------------------------------------------
LEMMA EmptyResultTyped == EmptyResult \in ResultRecord
BY DEF EmptyResult, ResultRecord

\* Between requests only the tables matter.
LEMMA NoRequestSound ==
    ASSUME IInv, NoRequest, UNCHANGED <<exams, allocations, imports>>,
           IsTable(courses', Course, Name), IsTable(rooms', Room, Count),
           Holds(courses', courses), Holds(rooms', rooms)
    PROVE  IInv'
<1>1. /\ phase' = "idle" /\ file' = NoFile /\ next' = 1 /\ nextRoom' = 1
      /\ work' = [exams |-> exams, allocations |-> allocations]
      /\ names' = << >> /\ groups' = <<>> /\ result' = EmptyResult
    BY DEF NoRequest
<1>2. TypeOK /\ TablesSound
    BY DEF IInv
<1>3. work'.exams = exams /\ work'.allocations = allocations
    BY <1>1
<1>4. /\ file'.required \in BOOLEAN /\ file'.broken \in BOOLEAN /\ file'.lines = <<>>
    BY <1>1 DEF NoFile
<1>5. file'.lines \in Seq(Line) /\ groups' \in Seq(GroupRecord) /\ next' \in Nat \ {0}
      /\ nextRoom' \in Nat \ {0} /\ IsTable(names', Course, Name)
    BY <1>1, <1>4, EmptyIsTable
<1>6. TypeOK'
    BY <1>1, <1>2, <1>3, <1>4, <1>5, EmptyResultTyped DEF TypeOK
<1>7. TablesSound'
    <2>1. /\ \A e \in DOMAIN exams : e \in DOMAIN work.exams
          /\ \A a \in DOMAIN allocations : a \in DOMAIN work.allocations
          /\ \A c \in DOMAIN courses : c \in DOMAIN courses'
          /\ \A r \in DOMAIN rooms : r \in DOMAIN rooms'
        BY <1>2 DEF TablesSound, Holds
    <2> QED
        BY <1>2, <1>3, <2>1 DEF TablesSound, Holds
<1>8. GroupsSound' /\ ImportSound'
    BY <1>1 DEF GroupsSound, Reading, ImportSound
<1> QED
    BY <1>6, <1>7, <1>8 DEF IInv

LEMMA AddCourseKeeps ==
    ASSUME IInv, AddCourse PROVE IInv'
<1>1. PICK c \in Course, n \in Name : courses' = With(courses, c, n)
    BY DEF AddCourse
<1>2. IsTable(courses, Course, Name) /\ IsTable(rooms, Room, Count)
    BY DEF IInv, TypeOK
<1>3. Extended(courses', courses, Course, Name, c, n)
    BY <1>1, <1>2, WithExtends
<1>4. rooms' = rooms /\ Holds(rooms, rooms)
    BY DEF AddCourse, Holds
<1> QED
    BY <1>2, <1>3, <1>4, NoRequestSound DEF AddCourse, Extended

LEMMA AddRoomKeeps ==
    ASSUME IInv, AddRoom PROVE IInv'
<1>1. PICK r \in Room, n \in Count : rooms' = With(rooms, r, n)
    BY DEF AddRoom
<1>2. IsTable(courses, Course, Name) /\ IsTable(rooms, Room, Count)
    BY DEF IInv, TypeOK
<1>3. Extended(rooms', rooms, Room, Count, r, n)
    BY <1>1, <1>2, WithExtends
<1>4. courses' = courses /\ Holds(courses, courses)
    BY DEF AddRoom, Holds
<1> QED
    BY <1>2, <1>3, <1>4, NoRequestSound DEF AddRoom, Extended

LEMMA AbandonKeeps ==
    ASSUME IInv, Abandon PROVE IInv'
<1>1. Holds(courses, courses) /\ Holds(rooms, rooms)
    BY DEF Holds
<1>2. IsTable(courses, Course, Name) /\ IsTable(rooms, Room, Count)
    BY DEF IInv, TypeOK
<1> QED
    BY <1>1, <1>2, NoRequestSound DEF Abandon

LEMMA BeginImportKeeps ==
    ASSUME IInv, BeginImport PROVE IInv'
<1>1. /\ phase' = "parsing" /\ file' \in Files /\ next' = 1 /\ nextRoom' = 1
      /\ work' = [exams |-> exams, allocations |-> allocations]
      /\ names' = << >> /\ groups' = <<>> /\ result' = EmptyResult
      /\ imports' = imports + 1 /\ UNCHANGED <<courses, rooms, exams, allocations>>
    BY DEF BeginImport
<1>2. TypeOK /\ TablesSound
    BY DEF IInv
<1>3. work'.exams = exams /\ work'.allocations = allocations
    BY <1>1
<1>4. file'.required \in BOOLEAN /\ file'.broken \in BOOLEAN /\ file'.lines \in Seq(Line)
    BY <1>1, FilesAreTyped DEF FilesAssumption
<1>5. groups' \in Seq(GroupRecord) /\ next' \in Nat \ {0} /\ nextRoom' \in Nat \ {0}
      /\ IsTable(names', Course, Name) /\ imports' \in Nat
    BY <1>1, <1>2, EmptyIsTable DEF TypeOK
<1>6. TypeOK'
    BY <1>1, <1>2, <1>3, <1>4, <1>5, EmptyResultTyped DEF TypeOK
<1>7. TablesSound'
    <2>1. /\ \A e \in DOMAIN exams : e \in DOMAIN work.exams
          /\ \A a \in DOMAIN allocations : a \in DOMAIN work.allocations
        BY <1>2 DEF TablesSound, Holds
    <2> QED
        BY <1>1, <1>2, <1>3, <2>1 DEF TablesSound, Holds
<1>8. GroupsSound'
    <2>1. ReadSoFar' = {} /\ DOMAIN groups' = {}
        BY <1>1 DEF ReadSoFar
    <2> QED
        BY <2>1 DEF GroupsSound
<1>9. ImportSound'
    BY <1>1 DEF ImportSound
<1> QED
    BY <1>6, <1>7, <1>8, <1>9 DEF IInv

LEMMA TablesStaySound ==
    ASSUME TablesSound, UNCHANGED <<courses, rooms, exams, allocations, work>>
    PROVE  TablesSound'
BY DEF TablesSound

LEMMA RejectFileKeeps ==
    ASSUME IInv, RejectFile PROVE IInv'
<1>1. /\ phase = "parsing" /\ phase' = "done" /\ Unreadable /\ Unreadable'
      /\ result' = [result EXCEPT !.status = "failed", !.reports = {ErrorAt(0)}]
      /\ UNCHANGED <<courses, rooms, exams, allocations, work, file, next, nextRoom, names,
                     groups, imports>>
    BY DEF RejectFile, Unreadable
<1>2. TypeOK /\ result \in ResultRecord /\ TablesSound
    BY DEF IInv, TypeOK
<1>3. result' \in ResultRecord
    <2> DEFINE e == ErrorAt(0)
    <2>1. e \in ReportRecord
        BY ErrorTyped
    <2> HIDE DEF e
    <2>2. result' = [result EXCEPT !.status = "failed", !.reports = {e}]
        BY <1>1 DEF e
    <2> QED
        BY <1>2, <2>1, <2>2 DEF ResultRecord
<1>4. TypeOK' /\ TablesSound'
    BY <1>1, <1>2, <1>3, TablesStaySound DEF TypeOK
<1>5. GroupsSound' /\ ImportSound'
    BY <1>1 DEF GroupsSound, Reading, ImportSound
<1> QED
    BY <1>4, <1>5 DEF IInv

LEMMA ErrorAdded ==
    ASSUME TypeOK, NEW line \in Nat, result' = Reporting({ErrorAt(line)})
    PROVE  /\ result' \in ResultRecord /\ result.reports \subseteq result'.reports
           /\ ErrorAt(line) \in result'.reports /\ result'.warnings = result.warnings
<1> DEFINE more == {ErrorAt(line)}
<1>1. more \in SUBSET ReportRecord /\ ErrorAt(line) \in more
    BY ErrorTyped
<1> HIDE DEF more
<1>2. result \in ResultRecord /\ result' = Reporting(more)
    BY DEF TypeOK, more
<1>3. /\ Reporting(more) \in ResultRecord /\ Reporting(more).reports = result.reports \cup more
      /\ Reporting(more).warnings = result.warnings
    BY <1>1, <1>2, ReportingTyped
<1> QED
    BY <1>1, <1>2, <1>3

\* Groups only gain rooms.
GroupsGrow ==
    \A g \in DOMAIN groups :
        /\ g \in DOMAIN groups'
        /\ groups'[g].course = groups[g].course /\ groups'[g].slot = groups[g].slot
        /\ groups'[g].line = groups[g].line /\ groups'[g].expected = groups[g].expected
        /\ \A k \in DOMAIN groups[g].rooms :
              k \in DOMAIN groups'[g].rooms /\ groups'[g].rooms[k] = groups[g].rooms[k]

LEMMA LineStaysGrouped ==
    ASSUME NEW l, NEW i, LineGrouped(l, i), Holds(names', names), GroupsGrow,
           result.reports \subseteq result'.reports
    PROVE  LineGrouped(l, i)'
<1>1. ASSUME NEW kind, NEW known, NEW key, NEW value, Agrees(kind, known, key, value)
      PROVE  known = value \/ ReportedIn(result'.reports, kind, key, value)
    BY <1>1 DEF Agrees, Reported, ReportedIn
<1>2. ASSUME NEW kind, NEW key, NEW value
      PROVE  Reported(kind, key, value)' <=> ReportedIn(result'.reports, kind, key, value)
    BY DEF Reported, ReportedIn
<1>3. /\ l.course \in DOMAIN names
      /\ Agrees("course_name", names[l.course], l.course, l.name)
    BY DEF LineGrouped
<1>4. /\ l.course \in DOMAIN names'
      /\ names'[l.course] = l.name
         \/ ReportedIn(result'.reports, "course_name", l.course, l.name)
    BY <1>1, <1>3 DEF Holds
<1>5. PICK g \in DOMAIN groups : LineGroup(l, i, groups[g])
    BY DEF LineGrouped
<1>6. PICK k \in DOMAIN groups[g].rooms : LineRow(l, i, groups[g], groups[g].rooms[k])
    BY <1>5 DEF LineGroup
<1>7. /\ g \in DOMAIN groups' /\ k \in DOMAIN groups'[g].rooms
      /\ groups'[g].rooms[k] = groups[g].rooms[k]
      /\ groups'[g].course = groups[g].course /\ groups'[g].slot = groups[g].slot
      /\ groups'[g].line = groups[g].line /\ groups'[g].expected = groups[g].expected
    BY <1>5, <1>6 DEF GroupsGrow
<1>8. LineRow(l, i, groups[g], groups[g].rooms[k])'
    BY <1>1, <1>2, <1>6, <1>7 DEF LineRow, Agrees, RoomOf
<1>9. LineGroup(l, i, groups[g])'
    BY <1>1, <1>2, <1>5, <1>7, <1>8 DEF LineGroup, Agrees, ExamOf
<1> QED
    BY <1>2, <1>4, <1>7, <1>9 DEF LineGrouped, Agrees

LEMMA GroupStaysSound ==
    ASSUME NEW g, GroupSound(g), \A i \in ReadSoFar : i \in ReadSoFar', UNCHANGED file,
           Holds(names', names)
    PROVE  GroupSound(g)'
BY DEF GroupSound, RowSound, Holds, LineValid, RoomOf, ExamOf

LEMMA RejectLineKeeps ==
    ASSUME IInv, RejectLine PROVE IInv'
<1>1. /\ phase = "parsing" /\ phase' = "parsing" /\ ~Unreadable /\ ~Unreadable'
      /\ next <= Len(file.lines) /\ next' = next + 1 /\ ~LineValid(file.lines[next])
      /\ result' = Reporting({ErrorAt(next)})
      /\ UNCHANGED <<courses, rooms, exams, allocations, work, phase, file, nextRoom, names,
                     groups, imports>>
    BY DEF RejectLine, Parsing, Unreadable
<1>2. TypeOK /\ TablesSound /\ GroupsSound /\ next \in Nat \ {0} /\ file.lines \in Seq(Line)
    BY DEF IInv, TypeOK
<1>3. result' \in ResultRecord /\ result.reports \subseteq result'.reports
    BY <1>1, <1>2, ErrorAdded
<1>4. next' \in Nat \ {0} /\ ReadSoFar' = ReadSoFar \cup {next} /\ next \in DOMAIN file.lines
    BY <1>1, <1>2 DEF ReadSoFar
<1>5. TypeOK' /\ TablesSound'
    BY <1>1, <1>2, <1>3, <1>4, TablesStaySound DEF TypeOK
<1>6. /\ ReadSoFar \subseteq DOMAIN file.lines
      /\ \A i \in ReadSoFar : LineValid(file.lines[i]) => LineGrouped(file.lines[i], i)
      /\ \A g \in DOMAIN groups : GroupSound(groups[g])
    BY <1>1, <1>2 DEF GroupsSound, Reading
<1>7. Holds(names', names) /\ GroupsGrow
    BY <1>1 DEF Holds, GroupsGrow
<1>8. ASSUME NEW i \in ReadSoFar', LineValid(file.lines[i])
      PROVE  LineGrouped(file.lines[i], i)'
    <2>1. PICK l : l = file.lines[i]
        OBVIOUS
    <2>2. LineGrouped(l, i)
        BY <1>1, <1>4, <1>6, <1>8, <2>1
    <2>3. LineGrouped(l, i)'
        BY <1>3, <1>7, <2>2, LineStaysGrouped
    <2> QED
        BY <1>1, <2>1, <2>3
<1>9. ASSUME NEW g \in DOMAIN groups PROVE GroupSound(groups[g])'
    <2>1. PICK x : x = groups[g]
        OBVIOUS
    <2>2. GroupSound(x)'
        BY <1>1, <1>4, <1>6, <1>7, <2>1, GroupStaysSound
    <2> QED
        BY <1>1, <2>1, <2>2
<1>10. GroupsSound'
    BY <1>1, <1>4, <1>6, <1>8, <1>9 DEF GroupsSound, LineValid
<1>11. ImportSound'
    BY <1>1 DEF ImportSound
<1> QED
    BY <1>5, <1>10, <1>11 DEF IInv
LEMMA GroupsStaySound ==
    ASSUME GroupsSound, Reading, UNCHANGED <<file, names, groups>>, ReadSoFar' = ReadSoFar,
           result.reports \subseteq result'.reports
    PROVE  GroupsSound'
<1>1. /\ ReadSoFar \subseteq DOMAIN file.lines
      /\ \A i \in ReadSoFar : LineValid(file.lines[i]) => LineGrouped(file.lines[i], i)
      /\ \A g \in DOMAIN groups : GroupSound(groups[g])
    BY DEF GroupsSound
<1>2. Holds(names', names) /\ GroupsGrow
    BY DEF Holds, GroupsGrow
<1>3. ASSUME NEW i \in ReadSoFar, LineValid(file.lines[i])
      PROVE  LineGrouped(file.lines[i], i)'
    <2>1. PICK l : l = file.lines[i]
        OBVIOUS
    <2>2. LineGrouped(l, i)
        BY <1>1, <1>3, <2>1
    <2>3. LineGrouped(l, i)'
        BY <1>2, <2>2, LineStaysGrouped
    <2> QED
        BY <2>1, <2>3
<1>4. ASSUME NEW g \in DOMAIN groups PROVE GroupSound(groups[g])'
    <2>1. PICK x : x = groups[g]
        OBVIOUS
    <2>2. GroupSound(x)'
        BY <1>1, <1>2, <2>1, GroupStaysSound
    <2> QED
        BY <2>1, <2>2
<1> QED
    BY <1>1, <1>3, <1>4 DEF GroupsSound, LineValid

LEMMA EndOfFileKeeps ==
    ASSUME IInv, EndOfFile PROVE IInv'
<1>1. /\ phase = "parsing" /\ phase' = "exams" /\ ~Unreadable /\ ~Unreadable'
      /\ next > Len(file.lines) /\ next' = 1
      /\ UNCHANGED <<courses, rooms, exams, allocations, work, file, nextRoom, names, groups,
                     imports>>
    BY DEF EndOfFile, Unreadable
<1>2. TypeOK /\ TablesSound /\ GroupsSound /\ next \in Nat \ {0} /\ file.lines \in Seq(Line)
    BY DEF IInv, TypeOK
<1>3. result' \in ResultRecord /\ result.reports \subseteq result'.reports
    <2>1. CASE file.broken
        <3>1. result' = Reporting({ErrorAt(0)})
            BY <2>1 DEF EndOfFile
        <3> QED
            BY <1>2, <3>1, ErrorAdded
    <2>2. CASE ~file.broken
        BY <1>2, <2>2 DEF EndOfFile, TypeOK
    <2> QED
        BY <2>1, <2>2
<1>4. next' \in Nat \ {0}
    BY <1>1
<1>5. TypeOK' /\ TablesSound'
    BY <1>1, <1>2, <1>3, <1>4, TablesStaySound DEF TypeOK
<1>6. Reading /\ ReadSoFar' = ReadSoFar
    BY <1>1, <1>2 DEF ReadSoFar, Reading, GroupsSound
<1>7. GroupsSound'
    BY <1>1, <1>2, <1>3, <1>6, GroupsStaySound
<1>8. \A i \in DOMAIN groups : ~(i < next')
    BY <1>1, <1>2 DEF TypeOK
<1>9. ImportSound'
    BY <1>1, <1>8 DEF ImportSound
<1> QED
    BY <1>5, <1>7, <1>9 DEF IInv
-----------------------------------------------------------------------------
LEMMA ValidLine ==
    ASSUME NEW l \in Line, LineValid(l)
    PROVE  /\ l.course \in Course /\ l.name \in Name /\ l.slot \in Slot /\ l.room \in Room
           /\ l.expected \in Count /\ l.allocated \in Count
           /\ ExamOf(l) \in ExamKey /\ RoomOf(l) \in RoomKey
BY DEF LineValid, Line, ExamOf, RoomOf, ExamKey, RoomKey

\* A step that reads a valid line: what is left to show is about the groups alone.
LEMMA LineReadKeeps ==
    ASSUME IInv, Parsing, next' = next + 1,
           UNCHANGED <<courses, rooms, exams, allocations, work, phase, file, nextRoom, imports>>,
           NEW l, NEW n, l = file.lines[next], n = next, LineGrouped(l, n)', GroupsGrow,
           \A g \in DOMAIN groups' : GroupSound(groups[g])', Holds(names', names),
           IsTable(names', Course, Name), groups' \in Seq(GroupRecord),
           result' \in ResultRecord, result.reports \subseteq result'.reports
    PROVE  IInv'
<1>1. TypeOK /\ TablesSound /\ GroupsSound /\ next \in Nat \ {0} /\ file.lines \in Seq(Line)
      /\ phase = "parsing" /\ ~Unreadable /\ ~Unreadable' /\ next <= Len(file.lines)
    BY DEF IInv, TypeOK, Parsing, Unreadable
<1>2. next' \in Nat \ {0} /\ ReadSoFar' = ReadSoFar \cup {next} /\ next \in DOMAIN file.lines
    BY <1>1 DEF ReadSoFar
<1>3. TypeOK' /\ TablesSound'
    BY <1>1, <1>2, TablesStaySound DEF TypeOK
<1>4. /\ ReadSoFar \subseteq DOMAIN file.lines
      /\ \A i \in ReadSoFar : LineValid(file.lines[i]) => LineGrouped(file.lines[i], i)
    BY <1>1 DEF GroupsSound, Reading
<1>5. ASSUME NEW i \in ReadSoFar', LineValid(file.lines[i])
      PROVE  LineGrouped(file.lines[i], i)'
    <2>1. CASE i \in ReadSoFar
        <3>1. PICK m : m = file.lines[i]
            OBVIOUS
        <3>2. LineGrouped(m, i)
            BY <1>4, <1>5, <2>1, <3>1
        <3>3. LineGrouped(m, i)'
            BY <3>2, LineStaysGrouped
        <3> QED
            BY <3>1, <3>3
    <2>2. CASE i = n
        BY <2>2
    <2> QED
        BY <1>2, <2>1, <2>2
<1>6. GroupsSound'
    BY <1>1, <1>2, <1>4, <1>5 DEF GroupsSound, LineValid
<1>7. ImportSound'
    BY <1>1 DEF ImportSound
<1> QED
    BY <1>3, <1>6, <1>7 DEF IInv
\* What is reported about a line's course name.
LEMMA NameReported ==
    ASSUME NEW l \in Line, LineValid(l), TypeOK
    PROVE  Complains(Conflict("course_name", next, names, l.course, l.name),
                     "course_name", names, l.course, l.name)
<1>1. "course_name" \in Kinds /\ next \in Nat /\ l.course \in ReportKey /\ l.name \in Incoming
    BY ValidLine DEF Kinds, TypeOK, ReportKey, Incoming
<1> QED
    BY <1>1, ConflictComplains

LEMMA OpenGroupKeeps ==
    ASSUME IInv, OpenGroup PROVE IInv'
<1> DEFINE known == With(names, file.lines[next].course, file.lines[next].name)
<1>1. PICK l, n, canonical : l = file.lines[next] /\ n = next /\ canonical = known
    OBVIOUS
<1> DEFINE more == Conflict("course_name", n, names, l.course, l.name)
           row == [line |-> n, room |-> l.room, allocated |-> l.allocated]
           new == [line |-> n, course |-> l.course, name |-> canonical[l.course],
                   slot |-> l.slot, expected |-> l.expected, rooms |-> <<row>>]
<1>2. /\ Parsing /\ next' = next + 1 /\ LineValid(l)
      /\ names' = canonical /\ groups' = Append(groups, new) /\ result' = Reporting(more)
      /\ canonical = With(names, l.course, l.name)
      /\ UNCHANGED <<courses, rooms, exams, allocations, work, phase, file, nextRoom, imports>>
    BY <1>1 DEF OpenGroup, RoomRow
<1>3. TypeOK /\ n \in Nat \ {0} /\ l \in Line /\ file.lines \in Seq(Line)
      /\ groups \in Seq(GroupRecord) /\ n \in DOMAIN file.lines
    BY <1>1, <1>2 DEF IInv, TypeOK, Parsing
<1>4. /\ l.course \in Course /\ l.name \in Name /\ l.slot \in Slot /\ l.room \in Room
      /\ l.expected \in Count /\ l.allocated \in Count
    BY <1>2, <1>3, ValidLine
<1>5. Extended(canonical, names, Course, Name, l.course, l.name)
    <2>1. IsTable(names, Course, Name)
        BY <1>3 DEF TypeOK
    <2> QED
        BY <1>2, <1>4, <2>1, WithExtends
<1>6. /\ IsTable(canonical, Course, Name) /\ Holds(canonical, names)
      /\ l.course \in DOMAIN canonical /\ canonical[l.course] \in Name
      /\ canonical[l.course] # l.name => l.course \in DOMAIN names /\ names[l.course] # l.name
    BY <1>5 DEF Extended, IsTable, Holds
<1>7. Complains(more, "course_name", names, l.course, l.name)
    BY <1>1, <1>2, <1>3, NameReported
<1> HIDE DEF more
<1>8. /\ result' \in ResultRecord /\ result'.reports = result.reports \cup more
    <2>1. more \in SUBSET ReportRecord /\ result \in ResultRecord
        BY <1>3, <1>7 DEF Complains, TypeOK
    <2>2. Reporting(more) \in ResultRecord /\ Reporting(more).reports = result.reports \cup more
        BY <2>1, ReportingTyped
    <2> QED
        BY <1>2, <2>2
<1>9. row \in RowRecord /\ row.line = n /\ row.room = l.room /\ row.allocated = l.allocated
    BY <1>3, <1>4 DEF RowRecord
<1> HIDE DEF row
<1>10. <<row>> \in Seq(RowRecord) /\ <<row>> # <<>> /\ DOMAIN <<row>> = {1} /\ <<row>>[1] = row
    BY <1>9
<1>11. /\ new \in GroupRecord /\ new.line = n /\ new.course = l.course /\ new.slot = l.slot
       /\ new.name = canonical[l.course] /\ new.expected = l.expected /\ new.rooms = <<row>>
    BY <1>3, <1>4, <1>6, <1>10 DEF GroupRecord
<1> HIDE DEF new
<1>12. /\ groups' \in Seq(GroupRecord) /\ DOMAIN groups' = DOMAIN groups \cup {Len(groups) + 1}
       /\ groups'[Len(groups) + 1] = new /\ \A g \in DOMAIN groups : groups'[g] = groups[g]
    BY <1>2, <1>3, <1>11
<1>13. GroupsGrow
    BY <1>12 DEF GroupsGrow
<1>14. ReadSoFar' = ReadSoFar \cup {n} /\ \A i \in ReadSoFar : i \in ReadSoFar'
    BY <1>1, <1>2, <1>3 DEF ReadSoFar, Parsing
<1>15. LineGrouped(l, n)'
    <2>1. PICK g : g = Len(groups) + 1
        OBVIOUS
    <2>2. g \in DOMAIN groups' /\ groups'[g] = new
        BY <1>12, <2>1
    <2>3. LineRow(l, n, groups[g], groups[g].rooms[1])'
        BY <1>3, <1>9, <1>10, <1>11, <2>2 DEF LineRow, Agrees
    <2>4. 1 \in DOMAIN groups'[g].rooms
        BY <1>10, <1>11, <2>2
    <2>5. LineGroup(l, n, groups[g])'
        BY <1>3, <1>11, <2>2, <2>3, <2>4 DEF LineGroup, Agrees, ExamOf
    <2>6. canonical[l.course] = l.name \/ ReportedIn(result'.reports, "course_name", l.course, l.name)
        BY <1>6, <1>7, <1>8 DEF Complains, ReportedIn
    <2>7. Agrees("course_name", names[l.course], l.course, l.name)'
        BY <1>2, <2>6 DEF Agrees, Reported, ReportedIn
    <2> QED
        BY <1>2, <1>6, <2>2, <2>5, <2>7 DEF LineGrouped
<1>16. ASSUME NEW g \in DOMAIN groups' PROVE GroupSound(groups[g])'
    <2>1. PICK x : x = groups'[g]
        OBVIOUS
    <2>2. CASE g \in DOMAIN groups
        <3>1. GroupSound(x)
            BY <1>2, <1>12, <2>1, <2>2 DEF IInv, GroupsSound, Reading, Parsing
        <3> QED
            BY <1>2, <1>6, <1>14, <2>1, <3>1, GroupStaysSound
    <2>3. CASE g \notin DOMAIN groups
        <3>1. x = new
            BY <1>12, <2>1, <2>3
        <3>2. RowSound(x, row)'
            BY <1>1, <1>2, <1>9, <1>11, <1>14, <3>1 DEF RowSound, RoomOf, LineValid
        <3>3. GroupSound(x)'
            BY <1>1, <1>2, <1>6, <1>10, <1>11, <1>14, <3>1, <3>2
               DEF GroupSound, ExamOf, LineValid
        <3> QED
            BY <2>1, <3>3
    <2> QED
        BY <2>2, <2>3
<1> QED
    BY <1>1, <1>2, <1>6, <1>8, <1>12, <1>13, <1>15, <1>16, LineReadKeeps
\* What a further line says against its group is reported.
LEMMA LineComplains ==
    ASSUME TypeOK, NEW l \in Line, LineValid(l), NEW g \in GroupRecord, SameGroup(g, l)
    PROVE  /\ LineConflicts(g, l) \in SUBSET ReportRecord
           /\ l.course \in DOMAIN names /\ names[l.course] # l.name =>
                 ReportedIn(LineConflicts(g, l), "course_name", l.course, l.name)
           /\ g.expected # l.expected =>
                 ReportedIn(LineConflicts(g, l), "expected_student_count", ExamOf(l), l.expected)
           /\ \A j \in DOMAIN g.rooms :
                 g.rooms[j].room = l.room /\ g.rooms[j].allocated # l.allocated =>
                    ReportedIn(LineConflicts(g, l), "exam_room_allocation", RoomOf(l), l.allocated)
<1> DEFINE A == Conflict("course_name", next, names, l.course, l.name)
           r == Report("expected_student_count", next, ExamOf(l), l.expected)
           q == Report("exam_room_allocation", next, RoomOf(l), l.allocated)
           allocated == {g.rooms[j].allocated : j \in {k \in DOMAIN g.rooms : g.rooms[k].room = l.room}}
           B == {r : n \in {g.expected} \ {l.expected}}
           C == {q : n \in allocated \ {l.allocated}}
<1>1. LineConflicts(g, l) = A \cup B \cup C
    BY DEF LineConflicts, ExamOf, RoomOf
<1>2. Complains(A, "course_name", names, l.course, l.name)
    BY NameReported
<1>3. /\ next \in Nat /\ ExamOf(l) \in ReportKey /\ RoomOf(l) \in ReportKey
      /\ l.expected \in Incoming /\ l.allocated \in Incoming
      /\ "expected_student_count" \in Kinds /\ "exam_room_allocation" \in Kinds
    BY ValidLine DEF TypeOK, ReportKey, Incoming, Kinds
<1>4. /\ r \in ReportRecord /\ r.kind = "expected_student_count" /\ r.key = ExamOf(l)
      /\ r.incoming = l.expected
    BY <1>3, ReportTyped
<1>5. /\ q \in ReportRecord /\ q.kind = "exam_room_allocation" /\ q.key = RoomOf(l)
      /\ q.incoming = l.allocated
    BY <1>3, ReportTyped
<1> HIDE DEF A, r, q
<1>6. B \in SUBSET ReportRecord /\ (g.expected # l.expected => r \in B)
    BY <1>4
<1>7. /\ C \in SUBSET ReportRecord
      /\ \A j \in DOMAIN g.rooms :
            g.rooms[j].room = l.room /\ g.rooms[j].allocated # l.allocated => q \in C
    BY <1>5
<1> HIDE DEF B, C
<1> QED
    BY <1>1, <1>2, <1>4, <1>5, <1>6, <1>7 DEF Complains, ReportedIn

\* The group with one more room.
Roomier(g, row) == [g EXCEPT !.rooms = Append(@, row)]

LEMMA RoomierTyped ==
    ASSUME NEW g \in GroupRecord, NEW row \in RowRecord
    PROVE  /\ Roomier(g, row) \in GroupRecord
           /\ Roomier(g, row).line = g.line /\ Roomier(g, row).course = g.course
           /\ Roomier(g, row).slot = g.slot /\ Roomier(g, row).name = g.name
           /\ Roomier(g, row).expected = g.expected
           /\ DOMAIN Roomier(g, row).rooms = DOMAIN g.rooms \cup {Len(g.rooms) + 1}
           /\ Roomier(g, row).rooms[Len(g.rooms) + 1] = row
           /\ \A k \in DOMAIN g.rooms : Roomier(g, row).rooms[k] = g.rooms[k]
<1>1. g.rooms \in Seq(RowRecord)
    BY DEF GroupRecord
<1> DEFINE more == Append(g.rooms, row)
<1>2. /\ more \in Seq(RowRecord) /\ DOMAIN more = DOMAIN g.rooms \cup {Len(g.rooms) + 1}
      /\ more[Len(g.rooms) + 1] = row /\ \A k \in DOMAIN g.rooms : more[k] = g.rooms[k]
    BY <1>1
<1>3. Roomier(g, row) = [g EXCEPT !.rooms = more]
    BY DEF Roomier
<1> HIDE DEF more
<1>4. Roomier(g, row) \in GroupRecord /\ Roomier(g, row).rooms = more
    BY <1>2, <1>3 DEF GroupRecord
<1> QED
    BY <1>2, <1>3, <1>4 DEF GroupRecord

Replaced(s, i, x) == [s EXCEPT ![i] = x]

LEMMA ReplacedTyped ==
    ASSUME NEW S, NEW s \in Seq(S), NEW i \in DOMAIN s, NEW x \in S
    PROVE  /\ Replaced(s, i, x) \in Seq(S) /\ DOMAIN Replaced(s, i, x) = DOMAIN s
           /\ \A m \in DOMAIN s : m # i => Replaced(s, i, x)[m] = s[m]
           /\ Replaced(s, i, x)[i] = x
BY DEF Replaced

\* Afterwards the group has the line's room: it had it, or got it from the line.
HasRoom(new, g, l, n) ==
    /\ new \in GroupRecord
    /\ new.line = g.line /\ new.course = g.course /\ new.slot = g.slot
    /\ new.name = g.name /\ new.expected = g.expected
    /\ DOMAIN g.rooms \subseteq DOMAIN new.rooms
    /\ \A k \in DOMAIN g.rooms : new.rooms[k] = g.rooms[k]
    /\ \A k \in DOMAIN new.rooms : k \notin DOMAIN g.rooms =>
          /\ new.rooms[k].line = n /\ new.rooms[k].room = l.room
          /\ new.rooms[k].allocated = l.allocated
    /\ \E k \in DOMAIN new.rooms : new.rooms[k].room = l.room

LEMMA GroupExtended ==
    ASSUME TypeOK, NEW l \in Line, LineValid(l), NEW n \in Nat, NEW i \in DOMAIN groups,
           groups' = IF \A j \in DOMAIN groups[i].rooms : groups[i].rooms[j].room # l.room
                     THEN [groups EXCEPT ![i].rooms =
                              Append(@, [line |-> n, room |-> l.room, allocated |-> l.allocated])]
                     ELSE groups
    PROVE  /\ groups' \in Seq(GroupRecord) /\ DOMAIN groups' = DOMAIN groups
           /\ \A g \in DOMAIN groups : g # i => groups'[g] = groups[g]
           /\ HasRoom(groups'[i], groups[i], l, n)
<1> DEFINE row == [line |-> n, room |-> l.room, allocated |-> l.allocated]
<1>1. groups \in Seq(GroupRecord) /\ groups[i] \in GroupRecord
    BY DEF TypeOK
<1>2. CASE \A j \in DOMAIN groups[i].rooms : groups[i].rooms[j].room # l.room
    <2>1. row \in RowRecord /\ row.line = n /\ row.room = l.room /\ row.allocated = l.allocated
        BY ValidLine DEF RowRecord
    <2>2. groups' = [groups EXCEPT ![i].rooms = Append(@, row)]
        BY <1>2
    <2> HIDE DEF row
    <2>3. PICK g, k : g = groups[i] /\ k = Len(g.rooms) + 1
        OBVIOUS
    <2>4. groups' = [groups EXCEPT ![i] = Roomier(g, row)]
        BY <2>2, <2>3 DEF Roomier
    <2>5. /\ Roomier(g, row) \in GroupRecord
          /\ Roomier(g, row).line = g.line /\ Roomier(g, row).course = g.course
          /\ Roomier(g, row).slot = g.slot /\ Roomier(g, row).name = g.name
          /\ Roomier(g, row).expected = g.expected
          /\ DOMAIN Roomier(g, row).rooms = DOMAIN g.rooms \cup {k}
          /\ Roomier(g, row).rooms[k] = row
          /\ \A m \in DOMAIN g.rooms : Roomier(g, row).rooms[m] = g.rooms[m]
        BY <1>1, <2>1, <2>3, RoomierTyped
    <2>6. PICK new : new = Roomier(g, row)
        OBVIOUS
    <2>7. HasRoom(new, g, l, n)
        BY <2>1, <2>5, <2>6 DEF HasRoom
    <2>8. /\ groups' \in Seq(GroupRecord) /\ DOMAIN groups' = DOMAIN groups
          /\ \A m \in DOMAIN groups : m # i => groups'[m] = groups[m]
          /\ groups'[i] = new
        <3>1. groups' = Replaced(groups, i, new) /\ new \in GroupRecord
            BY <2>4, <2>5, <2>6 DEF Replaced
        <3>2. /\ Replaced(groups, i, new) \in Seq(GroupRecord)
              /\ DOMAIN Replaced(groups, i, new) = DOMAIN groups
              /\ \A m \in DOMAIN groups : m # i => Replaced(groups, i, new)[m] = groups[m]
              /\ Replaced(groups, i, new)[i] = new
            BY <1>1, <3>1, ReplacedTyped
        <3> QED
            BY <3>1, <3>2
    <2> QED
        BY <2>3, <2>7, <2>8
<1>3. CASE \E j \in DOMAIN groups[i].rooms : groups[i].rooms[j].room = l.room
    <2>1. groups' = groups
        BY <1>3
    <2>2. PICK g : g = groups[i]
        OBVIOUS
    <2>3. HasRoom(g, g, l, n)
        BY <1>1, <1>3, <2>2 DEF HasRoom
    <2> QED
        BY <1>1, <2>1, <2>2, <2>3
<1> QED
    BY <1>2, <1>3
LEMMA ExtendGroupKeeps ==
    ASSUME IInv, ExtendGroup PROVE IInv'
<1>1. PICK l, n : l = file.lines[next] /\ n = next
    OBVIOUS
<1>2. TypeOK /\ Parsing /\ n \in Nat \ {0} /\ l \in Line /\ LineValid(l)
      /\ file.lines \in Seq(Line) /\ groups \in Seq(GroupRecord) /\ n \in DOMAIN file.lines
    BY <1>1 DEF IInv, TypeOK, Parsing, ExtendGroup
<1>3. PICK i \in DOMAIN groups :
          LET same == {j \in DOMAIN groups[i].rooms : groups[i].rooms[j].room = l.room}
          IN  /\ SameGroup(groups[i], l)
              /\ groups' = IF same = {}
                           THEN [groups EXCEPT ![i].rooms = Append(@, RoomRow(l))]
                           ELSE groups
              /\ result' = [Reporting(LineConflicts(groups[i], l)) EXCEPT
                     !.duplicates = IF \E j \in same : groups[i].rooms[j].allocated = l.allocated
                                    THEN @ + 1 ELSE @]
    BY <1>1 DEF ExtendGroup
<1>4. PICK g : g = groups[i]
    OBVIOUS
<1>5. g \in GroupRecord /\ SameGroup(g, l) /\ ExamOf(l) = <<g.course, g.slot>>
    BY <1>2, <1>3, <1>4 DEF SameGroup, ExamOf
<1>6. next' = next + 1 /\ UNCHANGED <<courses, rooms, exams, allocations, work, phase, file,
                                      nextRoom, names, imports>>
    BY DEF ExtendGroup
<1>7. /\ groups' \in Seq(GroupRecord) /\ DOMAIN groups' = DOMAIN groups
      /\ \A m \in DOMAIN groups : m # i => groups'[m] = groups[m]
      /\ HasRoom(groups'[i], g, l, n)
    <2>1. groups' = IF \A j \in DOMAIN groups[i].rooms : groups[i].rooms[j].room # l.room
                    THEN [groups EXCEPT ![i].rooms =
                             Append(@, [line |-> n, room |-> l.room, allocated |-> l.allocated])]
                    ELSE groups
        BY <1>1, <1>3 DEF RoomRow
    <2> QED
        BY <1>2, <1>4, <2>1, GroupExtended
<1>8. PICK new : new = groups'[i]
    OBVIOUS
<1>9. HasRoom(new, g, l, n)
    BY <1>7, <1>8
<1> DEFINE more == LineConflicts(g, l)
<1>10. /\ more \in SUBSET ReportRecord
       /\ l.course \in DOMAIN names /\ names[l.course] # l.name =>
             ReportedIn(more, "course_name", l.course, l.name)
       /\ g.expected # l.expected =>
             ReportedIn(more, "expected_student_count", ExamOf(l), l.expected)
       /\ \A j \in DOMAIN g.rooms :
             g.rooms[j].room = l.room /\ g.rooms[j].allocated # l.allocated =>
                ReportedIn(more, "exam_room_allocation", RoomOf(l), l.allocated)
    BY <1>2, <1>5, LineComplains
<1>11. PICK again : result' = Repeated(Reporting(more), again)
    <2> DEFINE dup == \E j \in {k \in DOMAIN groups[i].rooms : groups[i].rooms[k].room = l.room} :
                         groups[i].rooms[j].allocated = l.allocated
    <2>1. result' = Repeated(Reporting(more), dup)
        BY <1>3, <1>4 DEF Repeated
    <2> QED
        BY <2>1
<1> HIDE DEF more
<1>12. result' \in ResultRecord /\ result'.reports = result.reports \cup more
    <2>1. result \in ResultRecord
        BY <1>2 DEF TypeOK
    <2>2. Reporting(more) \in ResultRecord /\ Reporting(more).reports = result.reports \cup more
        BY <1>10, <2>1, ReportingTyped
    <2> QED
        BY <1>11, <2>2, RepeatedTyped
<1>13. GroupSound(g) /\ l.course \in DOMAIN names /\ Holds(names', names)
    <2>1. GroupSound(g)
        BY <1>2, <1>4 DEF IInv, GroupsSound, Reading, Parsing
    <2> QED
        BY <1>5, <1>6, <2>1 DEF GroupSound, SameGroup, Holds
<1>14. GroupsGrow
    <2>1. ASSUME NEW m \in DOMAIN groups
          PROVE  /\ m \in DOMAIN groups'
                 /\ groups'[m].course = groups[m].course /\ groups'[m].slot = groups[m].slot
                 /\ groups'[m].line = groups[m].line /\ groups'[m].expected = groups[m].expected
                 /\ \A k \in DOMAIN groups[m].rooms :
                       k \in DOMAIN groups'[m].rooms /\ groups'[m].rooms[k] = groups[m].rooms[k]
        <3>1. CASE m = i
            BY <1>4, <1>7, <1>8, <1>9, <3>1 DEF HasRoom
        <3>2. CASE m # i
            BY <1>7, <3>2
        <3> QED
            BY <3>1, <3>2
    <2> QED
        BY <2>1 DEF GroupsGrow
<1>15. ReadSoFar' = ReadSoFar \cup {n} /\ (\A j \in ReadSoFar : j \in ReadSoFar')
       /\ \A j \in ReadSoFar : j \in Nat /\ j <= n
    BY <1>1, <1>2, <1>6 DEF ReadSoFar, Parsing
<1>16. LineGrouped(l, n)'
    <2>1. PICK k \in DOMAIN new.rooms : new.rooms[k].room = l.room
        BY <1>9 DEF HasRoom
    <2>2. new.rooms[k].line <= n
          /\ (new.rooms[k].allocated = l.allocated
              \/ ReportedIn(more, "exam_room_allocation", RoomOf(l), l.allocated))
        <3>1. CASE k \in DOMAIN g.rooms
            <4>1. new.rooms[k] = g.rooms[k]
                BY <1>9, <3>1 DEF HasRoom
            <4>2. g.rooms[k].line \in ReadSoFar
                BY <1>13, <3>1 DEF GroupSound, RowSound
            <4> QED
                BY <1>10, <1>15, <2>1, <3>1, <4>1, <4>2
        <3>2. CASE k \notin DOMAIN g.rooms
            BY <1>2, <1>9, <3>2 DEF HasRoom
        <3> QED
            BY <3>1, <3>2
    <2>3. LineRow(l, n, groups[i], groups[i].rooms[k])'
        BY <1>8, <1>12, <2>1, <2>2 DEF LineRow, Agrees, Reported, ReportedIn, RoomOf
    <2>4. new.line = g.line /\ new.course = g.course /\ new.slot = g.slot
          /\ new.expected = g.expected
        BY <1>9 DEF HasRoom
    <2>5. g.line <= n
        BY <1>13, <1>15 DEF GroupSound
    <2>6. LineGroup(l, n, groups[i])'
        BY <1>5, <1>8, <1>10, <1>12, <2>1, <2>3, <2>4, <2>5
           DEF LineGroup, Agrees, Reported, ReportedIn, ExamOf
    <2>7. Agrees("course_name", names[l.course], l.course, l.name)'
        BY <1>6, <1>10, <1>12, <1>13 DEF Agrees, Reported, ReportedIn
    <2> QED
        BY <1>6, <1>7, <1>13, <2>6, <2>7 DEF LineGrouped
<1>17. ASSUME NEW m \in DOMAIN groups' PROVE GroupSound(groups[m])'
    <2>1. PICK x : x = groups'[m]
        OBVIOUS
    <2>2. CASE m # i
        <3>1. GroupSound(x)
            BY <1>2, <1>7, <2>1, <2>2 DEF IInv, GroupsSound, Reading, Parsing
        <3> QED
            BY <1>6, <1>13, <1>15, <2>1, <3>1, GroupStaysSound
    <2>3. CASE m = i
        <3>1. GroupSound(g)'
            BY <1>6, <1>13, <1>15, GroupStaysSound
        <3>2. x = new
            BY <1>8, <2>1, <2>3
        <3>3. ASSUME NEW k \in DOMAIN new.rooms PROVE RowSound(new, new.rooms[k])'
            <4>1. CASE k \in DOMAIN g.rooms
                <5>1. RowSound(g, g.rooms[k])'
                    BY <3>1, <4>1 DEF GroupSound
                <5> QED
                    BY <1>9, <4>1, <5>1 DEF HasRoom, RowSound
            <4>2. CASE k \notin DOMAIN g.rooms
                <5>1. new.rooms[k].line = n /\ new.rooms[k].room = l.room
                      /\ new.course = l.course /\ new.slot = l.slot
                    BY <1>5, <1>9, <4>2 DEF HasRoom, SameGroup
                <5> QED
                    BY <1>1, <1>2, <1>6, <1>15, <5>1 DEF RowSound, RoomOf, LineValid
            <4> QED
                BY <4>1, <4>2
        <3>4. new.rooms # <<>>
            BY <1>9 DEF HasRoom
        <3>5. GroupSound(new)'
            BY <1>9, <3>1, <3>3, <3>4 DEF GroupSound, HasRoom
        <3> QED
            BY <2>1, <3>2, <3>5
    <2> QED
        BY <2>2, <2>3
<1>18. IsTable(names', Course, Name) /\ result.reports \subseteq result'.reports
    BY <1>2, <1>6, <1>12 DEF TypeOK
<1> QED
    BY <1>1, <1>2, <1>6, <1>7, <1>12, <1>13, <1>14, <1>16, <1>17, <1>18, LineReadKeeps
-----------------------------------------------------------------------------
\* What an import step may do to the tables and the result.
Gains ==
    /\ Holds(work'.exams, work.exams) /\ Holds(work'.allocations, work.allocations)
    /\ result.reports \subseteq result'.reports /\ result.warnings \subseteq result'.warnings
    /\ UNCHANGED <<courses, rooms>>

LEMMA AgreesStays ==
    ASSUME result.reports \subseteq result'.reports, NEW kind, NEW known, NEW key, NEW value,
           Agrees(kind, known, key, value)
    PROVE  Agrees(kind, known, key, value)'
BY DEF Agrees, Reported

LEMMA RowStaysImported ==
    ASSUME Gains, NEW g, NEW row, RowImported(g, row) PROVE RowImported(g, row)'
<1> DEFINE key == <<g.course, g.slot, row.room>>
<1>1. CASE row.room \in DOMAIN rooms
    <2>1. /\ key \in DOMAIN work.allocations
          /\ Agrees("exam_room_allocation", work.allocations[key], key, row.allocated)
          /\ row.allocated > rooms[row.room] => key \in result.warnings
        BY <1>1 DEF RowImported
    <2>2. key \in DOMAIN work'.allocations /\ work'.allocations[key] = work.allocations[key]
        BY <2>1 DEF Gains, Holds
    <2>3. PICK known : known = work.allocations[key]
        OBVIOUS
    <2>4. Agrees("exam_room_allocation", known, key, row.allocated)'
        BY <2>1, <2>3, AgreesStays DEF Gains
    <2> HIDE DEF key
    <2>5. Agrees("exam_room_allocation", work.allocations[key], key, row.allocated)'
        BY <2>2, <2>3, <2>4 DEF key
    <2>6. row.allocated > rooms'[row.room] => key \in result'.warnings
        BY <2>1 DEF Gains
    <2>7. row.room \in DOMAIN rooms'
        BY <1>1 DEF Gains
    <2> QED
        BY <2>2, <2>5, <2>6, <2>7 DEF RowImported, key
<1>2. CASE row.room \notin DOMAIN rooms
    BY <1>2 DEF RowImported, Gains, ErrorAt, Report
<1> QED
    BY <1>1, <1>2

LEMMA ExamStaysImported ==
    ASSUME Gains, NEW g, ExamImported(g) PROVE ExamImported(g)'
<1> DEFINE key == <<g.course, g.slot>>
<1>1. /\ g.course \in DOMAIN courses /\ key \in DOMAIN work.exams
      /\ Agrees("expected_student_count", work.exams[key], key, g.expected)
      /\ Agrees("course_name", courses[g.course], g.course, g.name)
    BY DEF ExamImported
<1>2. /\ key \in DOMAIN work'.exams /\ work'.exams[key] = work.exams[key]
      /\ courses' = courses
    BY <1>1 DEF Gains, Holds
<1>3. PICK count, name : count = work.exams[key] /\ name = courses[g.course]
    OBVIOUS
<1>4. Agrees("expected_student_count", count, key, g.expected)'
    BY <1>1, <1>3, AgreesStays DEF Gains
<1>5. Agrees("course_name", name, g.course, g.name)'
    BY <1>1, <1>3, AgreesStays DEF Gains
<1> QED
    BY <1>1, <1>2, <1>3, <1>4, <1>5 DEF ExamImported

LEMMA GroupStaysImported ==
    ASSUME Gains, NEW g, GroupImported(g) PROVE GroupImported(g)'
<1>1. CASE g.course \in DOMAIN courses
    <2>1. ExamImported(g)' /\ \A k \in DOMAIN g.rooms : RowImported(g, g.rooms[k])'
        BY <1>1, ExamStaysImported, RowStaysImported DEF GroupImported
    <2> QED
        BY <1>1, <2>1 DEF GroupImported, Gains
<1>2. CASE g.course \notin DOMAIN courses
    BY <1>2 DEF GroupImported, Gains, ErrorAt, Report
<1> QED
    BY <1>1, <1>2

\* Everything but the place in the file that an import step keeps.
LEMMA StepKeeps ==
    ASSUME IInv, phase \in {"exams", "rooms"}, phase' \in {"exams", "rooms"}, Gains,
           UNCHANGED <<exams, allocations, file, names, groups, imports>>,
           work' = [exams |-> work'.exams, allocations |-> work'.allocations],
           IsTable(work'.exams, ExamKey, Count), IsTable(work'.allocations, RoomKey, Count),
           \A e \in DOMAIN work'.exams : e \in DOMAIN work.exams \/ e[1] \in DOMAIN courses,
           \A a \in DOMAIN work'.allocations : a \in DOMAIN work.allocations
               \/ (a[1] \in DOMAIN courses /\ a[3] \in DOMAIN rooms),
           result' \in ResultRecord, next' \in Nat \ {0}, nextRoom' \in Nat \ {0}
    PROVE  /\ TypeOK' /\ TablesSound' /\ GroupsSound' /\ ~Unreadable'
           /\ \A i \in DOMAIN groups : i < next => GroupImported(groups[i])'
<1>1. TypeOK /\ TablesSound /\ GroupsSound /\ ImportSound /\ ~Unreadable
    BY DEF IInv, ImportSound
<1>2. courses' = courses /\ rooms' = rooms /\ Holds(work'.exams, work.exams)
      /\ Holds(work'.allocations, work.allocations)
    BY DEF Gains
<1>3. TypeOK'
    BY <1>1, <1>2 DEF TypeOK
<1>4. TablesSound'
    BY <1>1, <1>2 DEF TablesSound, Holds
<1>5. Reading /\ ReadSoFar' = ReadSoFar /\ ~Unreadable'
    BY <1>1 DEF Reading, ReadSoFar, Unreadable
<1>6. GroupsSound'
    BY <1>1, <1>5, GroupsStaySound DEF Gains
<1>7. ASSUME NEW i \in DOMAIN groups, i < next PROVE GroupImported(groups[i])'
    <2>1. PICK g : g = groups[i]
        OBVIOUS
    <2>2. GroupImported(g)
        BY <1>1, <1>7, <2>1 DEF ImportSound
    <2>3. GroupImported(g)'
        BY <2>2, GroupStaysImported
    <2> QED
        BY <2>1, <2>3
<1> QED
    BY <1>3, <1>4, <1>5, <1>6, <1>7

LEMMA GroupTyped ==
    ASSUME TypeOK, NEW i \in DOMAIN groups, NEW g, g = groups[i]
    PROVE  /\ g \in GroupRecord /\ g.course \in Course /\ g.slot \in Slot /\ g.name \in Name
           /\ g.expected \in Count /\ g.line \in Nat /\ g.rooms \in Seq(RowRecord)
           /\ <<g.course, g.slot>> \in ExamKey
<1>1. g \in GroupRecord
    BY DEF TypeOK
<1> QED
    BY <1>1 DEF GroupRecord, ExamKey

LEMMA SkipGroupKeeps ==
    ASSUME IInv, SkipGroup PROVE IInv'
<1>1. PICK g, n : g = Group /\ n = next
    OBVIOUS
<1>2. /\ phase = "exams" /\ phase' = "exams" /\ n \in DOMAIN groups /\ g = groups[n]
      /\ g.course \notin DOMAIN courses /\ next' = n + 1 /\ n \in Nat \ {0}
      /\ result' = Reporting({ErrorAt(g.line)})
      /\ UNCHANGED <<courses, rooms, exams, allocations, work, phase, file, nextRoom, names,
                     groups, imports>>
    BY <1>1 DEF SkipGroup, IInv, TypeOK, Group
<1>3. TypeOK /\ g.line \in Nat
    BY <1>2, GroupTyped DEF IInv
<1>4. /\ result' \in ResultRecord /\ result.reports \subseteq result'.reports
      /\ ErrorAt(g.line) \in result'.reports /\ result'.warnings = result.warnings
    BY <1>2, <1>3, ErrorAdded
<1>5. Gains
    BY <1>2, <1>4 DEF Gains, Holds
<1>6. /\ next' \in Nat \ {0} /\ nextRoom' \in Nat \ {0}
      /\ work' = [exams |-> work'.exams, allocations |-> work'.allocations]
      /\ IsTable(work'.exams, ExamKey, Count) /\ IsTable(work'.allocations, RoomKey, Count)
    BY <1>2, <1>3 DEF TypeOK
<1>7. /\ TypeOK' /\ TablesSound' /\ GroupsSound' /\ ~Unreadable'
      /\ \A i \in DOMAIN groups : i < next => GroupImported(groups[i])'
    BY <1>2, <1>4, <1>5, <1>6, StepKeeps
<1>8. GroupImported(g)'
    BY <1>2, <1>4 DEF GroupImported, ErrorAt, Report
<1>9. ASSUME NEW i \in DOMAIN groups, i < next' PROVE GroupImported(groups[i])'
    <2>1. i \in Nat
        BY <1>3 DEF TypeOK
    <2>2. CASE i < next
        BY <1>7, <2>2
    <2>3. CASE i = n
        BY <1>2, <1>8, <2>3
    <2> QED
        BY <1>1, <1>2, <1>9, <2>1, <2>2, <2>3
<1>10. ImportSound'
    BY <1>2, <1>7, <1>9 DEF ImportSound
<1> QED
    BY <1>7, <1>10 DEF IInv
ExamsNow(w, table) == [w EXCEPT !.exams = table]
AllocationsNow(w, table) == [w EXCEPT !.allocations = table]

LEMMA WorkNow ==
    ASSUME TypeOK, NEW table
    PROVE  /\ ExamsNow(work, table) = [exams |-> table, allocations |-> work.allocations]
           /\ AllocationsNow(work, table) = [exams |-> work.exams, allocations |-> table]
BY DEF TypeOK, ExamsNow, AllocationsNow

LEMMA ImportExamKeeps ==
    ASSUME IInv, ImportExam PROVE IInv'
<1>1. PICK g, n, key : g = Group /\ n = next /\ key = <<g.course, g.slot>>
    OBVIOUS
<1> DEFINE table == With(work.exams, key, g.expected)
           P == Conflict("course_name", g.line, courses, g.course, g.name)
           Q == Conflict("expected_student_count", g.line, work.exams, key, g.expected)
<1>2. /\ phase = "exams" /\ phase' = "rooms" /\ n \in DOMAIN groups /\ g = groups[n]
      /\ g.course \in DOMAIN courses /\ nextRoom' = 1 /\ n \in Nat \ {0}
      /\ work' = ExamsNow(work, table) /\ result' = Reporting(P \cup Q)
      /\ UNCHANGED <<courses, rooms, exams, allocations, file, next, names, groups, imports>>
    BY <1>1 DEF ImportExam, IInv, TypeOK, Group, ExamsNow, ExamConflicts
<1>3. TypeOK /\ TablesSound /\ GroupsSound /\ ImportSound /\ result \in ResultRecord
    BY DEF IInv, TypeOK
<1>4. /\ g \in GroupRecord /\ g.course \in Course /\ g.name \in Name /\ g.expected \in Count
      /\ g.line \in Nat /\ g.rooms \in Seq(RowRecord) /\ key \in ExamKey
    BY <1>1, <1>2, <1>3, GroupTyped
<1>5. /\ "course_name" \in Kinds /\ "expected_student_count" \in Kinds
      /\ g.course \in ReportKey /\ key \in ReportKey /\ g.name \in Incoming
      /\ g.expected \in Incoming
    BY <1>4 DEF Kinds, ReportKey, Incoming
<1>6. /\ Complains(P, "course_name", courses, g.course, g.name)
      /\ Complains(Q, "expected_student_count", work.exams, key, g.expected)
    BY <1>4, <1>5, ConflictComplains
<1>7. Extended(table, work.exams, ExamKey, Count, key, g.expected)
    <2>1. IsTable(work.exams, ExamKey, Count)
        BY <1>3 DEF TypeOK
    <2> QED
        BY <1>4, <2>1, WithExtends
<1> HIDE DEF table, P, Q
<1>8. /\ result' \in ResultRecord /\ result'.reports = result.reports \cup P \cup Q
      /\ result'.warnings = result.warnings
    <2> DEFINE more == P \cup Q
    <2>1. more \in SUBSET ReportRecord
        BY <1>6 DEF Complains
    <2>2. /\ Reporting(more) \in ResultRecord /\ Reporting(more).reports = result.reports \cup more
          /\ Reporting(more).warnings = result.warnings
        BY <1>3, <2>1, ReportingTyped
    <2> QED
        BY <1>2, <2>2
<1>9. work' = [exams |-> table, allocations |-> work.allocations]
    BY <1>2, <1>3, WorkNow
<1>10. work'.exams = table /\ work'.allocations = work.allocations
    BY <1>9
<1>11. /\ IsTable(table, ExamKey, Count) /\ Holds(table, work.exams)
       /\ DOMAIN table = DOMAIN work.exams \cup {key}
       /\ key \notin DOMAIN work.exams => table[key] = g.expected
    BY <1>7 DEF Extended
<1>12. Gains
    BY <1>2, <1>8, <1>10, <1>11 DEF Gains, Holds
<1>13. /\ IsTable(work'.exams, ExamKey, Count) /\ IsTable(work'.allocations, RoomKey, Count)
       /\ work' = [exams |-> work'.exams, allocations |-> work'.allocations]
       /\ \A e \in DOMAIN work'.exams : e \in DOMAIN work.exams \/ e[1] \in DOMAIN courses
       /\ \A a \in DOMAIN work'.allocations : a \in DOMAIN work.allocations
       /\ next' \in Nat \ {0} /\ nextRoom' \in Nat \ {0}
    BY <1>1, <1>2, <1>3, <1>9, <1>10, <1>11 DEF TypeOK
<1>14. /\ TypeOK' /\ TablesSound' /\ GroupsSound' /\ ~Unreadable'
       /\ \A i \in DOMAIN groups : i < next => GroupImported(groups[i])'
    BY <1>2, <1>8, <1>12, <1>13, StepKeeps
<1>15. ExamImported(g)'
    <2>1. work.exams[key] = table[key] \/ table[key] = g.expected
        BY <1>11 DEF Holds
    <2>2. table[key] = g.expected
          \/ ReportedIn(result'.reports, "expected_student_count", key, g.expected)
        BY <1>6, <1>8, <1>11 DEF Holds, Complains, ReportedIn
    <2>3. courses[g.course] = g.name
          \/ ReportedIn(result'.reports, "course_name", g.course, g.name)
        BY <1>2, <1>6, <1>8 DEF Complains, ReportedIn
    <2> QED
        BY <1>1, <1>2, <1>10, <1>11, <2>2, <2>3 DEF ExamImported, Agrees, Reported, ReportedIn
<1>16. 1 \in DOMAIN g.rooms
    <2>1. GroupSound(g)
        BY <1>2, <1>3 DEF GroupsSound, Reading, ImportSound
    <2> QED
        BY <1>4, <2>1 DEF GroupSound
<1>17. ImportSound'
    <2>1. next' = n /\ groups' = groups /\ Group' = g /\ \A k \in DOMAIN g.rooms : ~(k < nextRoom')
        BY <1>1, <1>2, <1>4 DEF Group
    <2>2. ExamImported(Group)'
        BY <1>15, <2>1 DEF ExamImported
    <2> QED
        BY <1>2, <1>14, <1>16, <2>1, <2>2 DEF ImportSound
<1> QED
    BY <1>14, <1>17 DEF IInv

\* The row at hand was imported, and the step goes on to the next row or group.
LEMMA AdvanceKeeps ==
    ASSUME IInv, phase = "rooms", Advance, Gains, UNCHANGED <<file, groups>>,
           NEW g, NEW row, g = Group, row = Row, RowImported(g, row)', ~Unreadable',
           \A i \in DOMAIN groups : i < next => GroupImported(groups[i])'
    PROVE  ImportSound' /\ phase' \in {"exams", "rooms"}
<1>1. PICK n, m : n = next /\ m = nextRoom
    OBVIOUS
<1>2. /\ TypeOK /\ n \in DOMAIN groups /\ g = groups[n] /\ m \in DOMAIN g.rooms
      /\ row = g.rooms[m] /\ ExamImported(g) /\ n \in Nat /\ m \in Nat
      /\ \A k \in DOMAIN g.rooms : k < m => RowImported(g, g.rooms[k])
    BY <1>1 DEF IInv, ImportSound, Group, Row, TypeOK
<1>3. g.rooms \in Seq(RowRecord)
    BY <1>2, GroupTyped
<1>4. ExamImported(g)'
    BY <1>2, ExamStaysImported
<1>5. ASSUME NEW k \in DOMAIN g.rooms, k <= m PROVE RowImported(g, g.rooms[k])'
    <2>1. PICK r : r = g.rooms[k]
        OBVIOUS
    <2>2. CASE k < m
        <3>1. RowImported(g, r)
            BY <1>2, <2>1, <2>2
        <3>2. RowImported(g, r)'
            BY <3>1, RowStaysImported
        <3> QED
            BY <2>1, <3>2
    <2>3. CASE k = m
        <3>1. r = row
            BY <1>2, <2>1, <2>3
        <3> QED
            BY <2>1, <3>1
    <2> QED
        BY <1>2, <1>3, <1>5, <2>2, <2>3
<1>6. CASE m < Len(g.rooms)
    <2>1. nextRoom' = m + 1 /\ next' = n /\ phase' = "rooms"
        BY <1>1, <1>6 DEF Advance
    <2>2. Group' = g /\ m + 1 \in DOMAIN g.rooms
        BY <1>2, <1>3, <1>6, <2>1 DEF Group
    <2>3. \A k \in DOMAIN g.rooms : k < m + 1 => k <= m
        BY <1>2, <1>3
    <2>4. ExamImported(Group)'
        BY <1>4, <2>2 DEF ExamImported
    <2>5. \A k \in DOMAIN Group'.rooms : k < nextRoom' => RowImported(g, g.rooms[k])'
        BY <1>5, <2>1, <2>2, <2>3
    <2>6. (\A k \in DOMAIN Group.rooms : k < nextRoom => RowImported(Group, Group.rooms[k]))'
        BY <2>2, <2>5 DEF RowImported
    <2> QED
        BY <1>1, <1>2, <2>1, <2>2, <2>4, <2>6 DEF ImportSound
<1>7. CASE ~(m < Len(g.rooms))
    <2>1. nextRoom' = 1 /\ next' = n + 1 /\ phase' = "exams"
        BY <1>1, <1>7 DEF Advance
    <2>2. \A k \in DOMAIN g.rooms : k <= m
        BY <1>2, <1>3, <1>7
    <2>3. GroupImported(g)'
        <3>1. g.course \in DOMAIN courses'
            BY <1>4 DEF ExamImported
        <3> QED
            BY <1>4, <1>5, <2>2, <3>1 DEF GroupImported
    <2>4. ASSUME NEW i \in DOMAIN groups, i < n + 1 PROVE GroupImported(groups[i])'
        <3>1. i \in Nat
            BY <1>2 DEF TypeOK
        <3>2. CASE i < n
            BY <1>1, <3>2
        <3>3. CASE i = n
            BY <1>2, <2>3, <3>3
        <3> QED
            BY <1>2, <2>4, <3>1, <3>2, <3>3
    <2> QED
        BY <2>1, <2>4 DEF ImportSound
<1> QED
    BY <1>6, <1>7

\* The row at hand and the key of its allocation.
LEMMA RowTyped ==
    ASSUME IInv, phase = "rooms", NEW g, NEW row, g = Group, row = Row
    PROVE  /\ row \in RowRecord /\ row.line \in Nat /\ row.room \in Room /\ row.allocated \in Count
           /\ g.course \in DOMAIN courses /\ RowKey = <<g.course, g.slot, row.room>>
           /\ RowKey \in RoomKey
<1>1. /\ TypeOK /\ next \in DOMAIN groups /\ g = groups[next] /\ nextRoom \in DOMAIN g.rooms
      /\ row = g.rooms[nextRoom] /\ ExamImported(g)
    BY DEF IInv, ImportSound, Group, Row
<1>2. g.rooms \in Seq(RowRecord) /\ g.course \in Course /\ g.slot \in Slot
    BY <1>1, GroupTyped
<1>3. row \in RowRecord
    <2>1. PICK rs, m : rs = g.rooms /\ m = nextRoom
        OBVIOUS
    <2>2. rs \in Seq(RowRecord) /\ m \in DOMAIN rs /\ row = rs[m]
        BY <1>1, <1>2, <2>1
    <2>3. rs[m] \in RowRecord
        BY <2>2
    <2> QED
        BY <2>2, <2>3
<1>4. RowKey = <<g.course, g.slot, row.room>>
    BY DEF RowKey
<1>5. row.line \in Nat /\ row.room \in Room /\ row.allocated \in Count
    BY <1>3 DEF RowRecord
<1> QED
    BY <1>1, <1>2, <1>3, <1>4, <1>5 DEF RoomKey, ExamImported

LEMMA PlacesTyped ==
    ASSUME IInv, phase = "rooms", Advance
    PROVE  next' \in Nat \ {0} /\ nextRoom' \in Nat \ {0}
BY DEF IInv, TypeOK, Advance

LEMMA SkipRoomKeeps ==
    ASSUME IInv, SkipRoom PROVE IInv'
<1>1. PICK g, row : g = Group /\ row = Row
    OBVIOUS
<1>2. /\ phase = "rooms" /\ Advance /\ row.room \notin DOMAIN rooms
      /\ result' = Reporting({ErrorAt(row.line)})
      /\ UNCHANGED <<courses, rooms, exams, allocations, work, file, names, groups, imports>>
    BY <1>1 DEF SkipRoom
<1>3. TypeOK /\ row.line \in Nat
    BY <1>1, <1>2, RowTyped DEF IInv
<1>4. /\ result' \in ResultRecord /\ result.reports \subseteq result'.reports
      /\ ErrorAt(row.line) \in result'.reports /\ result'.warnings = result.warnings
    BY <1>2, <1>3, ErrorAdded
<1>5. Gains
    BY <1>2, <1>4 DEF Gains, Holds
<1>6. /\ next' \in Nat \ {0} /\ nextRoom' \in Nat \ {0} /\ phase' \in {"exams", "rooms"}
      /\ work' = [exams |-> work'.exams, allocations |-> work'.allocations]
      /\ IsTable(work'.exams, ExamKey, Count) /\ IsTable(work'.allocations, RoomKey, Count)
    BY <1>2, <1>3, PlacesTyped DEF TypeOK, Advance
<1>7. /\ TypeOK' /\ TablesSound' /\ GroupsSound' /\ ~Unreadable'
      /\ \A i \in DOMAIN groups : i < next => GroupImported(groups[i])'
    BY <1>2, <1>4, <1>5, <1>6, StepKeeps
<1>8. RowImported(g, row)'
    BY <1>2, <1>4 DEF RowImported, ErrorAt, Report
<1>9. ImportSound'
    BY <1>1, <1>2, <1>5, <1>7, <1>8, AdvanceKeeps
<1> QED
    BY <1>7, <1>9 DEF IInv

LEMMA ImportRoomKeeps ==
    ASSUME IInv, ImportRoom PROVE IInv'
<1>1. PICK g, row, key : g = Group /\ row = Row /\ key = RowKey
    OBVIOUS
<1> DEFINE table == With(work.allocations, key, row.allocated)
           more == Conflict("exam_room_allocation", row.line, work.allocations, key, row.allocated)
<1>2. /\ phase = "rooms" /\ Advance /\ row.room \in DOMAIN rooms
      /\ work' = AllocationsNow(work, table)
      /\ result' = Warned(Reporting(more), row.allocated > rooms[row.room], key)
      /\ UNCHANGED <<courses, rooms, exams, allocations, file, names, groups, imports>>
    BY <1>1 DEF ImportRoom, AllocationsNow, Warned, Exceeds
<1>3. TypeOK /\ result \in ResultRecord
    BY DEF IInv, TypeOK
<1>4. /\ row.line \in Nat /\ row.room \in Room /\ row.allocated \in Count
      /\ g.course \in DOMAIN courses /\ key = <<g.course, g.slot, row.room>> /\ key \in RoomKey
    BY <1>1, <1>2, RowTyped
<1>5. "exam_room_allocation" \in Kinds /\ key \in ReportKey /\ row.allocated \in Incoming
    BY <1>4 DEF Kinds, ReportKey, Incoming
<1>6. Complains(more, "exam_room_allocation", work.allocations, key, row.allocated)
    BY <1>4, <1>5, ConflictComplains
<1>7. Extended(table, work.allocations, RoomKey, Count, key, row.allocated)
    <2>1. IsTable(work.allocations, RoomKey, Count)
        BY <1>3 DEF TypeOK
    <2> QED
        BY <1>4, <2>1, WithExtends
<1> HIDE DEF table, more
<1>8. /\ result' \in ResultRecord /\ result'.reports = result.reports \cup more
      /\ result.warnings \subseteq result'.warnings
      /\ row.allocated > rooms[row.room] => key \in result'.warnings
    <2>1. more \in SUBSET ReportRecord
        BY <1>6 DEF Complains
    <2>2. /\ Reporting(more) \in ResultRecord /\ Reporting(more).reports = result.reports \cup more
          /\ Reporting(more).warnings = result.warnings
        BY <1>3, <2>1, ReportingTyped
    <2>3. PICK r, exceeds : r = Reporting(more) /\ exceeds = (row.allocated > rooms[row.room])
        OBVIOUS
    <2>4. /\ Warned(r, exceeds, key) \in ResultRecord
          /\ Warned(r, exceeds, key).reports = r.reports
          /\ r.warnings \subseteq Warned(r, exceeds, key).warnings
          /\ exceeds => key \in Warned(r, exceeds, key).warnings
        BY <1>4, <2>2, <2>3, WarnedTyped
    <2> QED
        BY <1>2, <2>2, <2>3, <2>4
<1>9. work' = [exams |-> work.exams, allocations |-> table]
    BY <1>2, <1>3, WorkNow
<1>10. work'.exams = work.exams /\ work'.allocations = table
    BY <1>9
<1>11. /\ IsTable(table, RoomKey, Count) /\ Holds(table, work.allocations)
       /\ DOMAIN table = DOMAIN work.allocations \cup {key}
       /\ key \notin DOMAIN work.allocations => table[key] = row.allocated
    BY <1>7 DEF Extended
<1>12. Gains
    BY <1>2, <1>8, <1>10, <1>11 DEF Gains, Holds
<1>13. /\ IsTable(work'.exams, ExamKey, Count) /\ IsTable(work'.allocations, RoomKey, Count)
       /\ work' = [exams |-> work'.exams, allocations |-> work'.allocations]
       /\ \A e \in DOMAIN work'.exams : e \in DOMAIN work.exams
       /\ \A a \in DOMAIN work'.allocations : a \in DOMAIN work.allocations
             \/ (a[1] \in DOMAIN courses /\ a[3] \in DOMAIN rooms)
       /\ next' \in Nat \ {0} /\ nextRoom' \in Nat \ {0} /\ phase' \in {"exams", "rooms"}
    <2>1. key[1] = g.course /\ key[3] = row.room
        BY <1>4
    <2>2. phase' \in {"exams", "rooms"}
        BY <1>2 DEF Advance
    <2> QED
        BY <1>2, <1>3, <1>4, <1>9, <1>10, <1>11, <2>1, <2>2, PlacesTyped DEF TypeOK
<1>14. /\ TypeOK' /\ TablesSound' /\ GroupsSound' /\ ~Unreadable'
       /\ \A i \in DOMAIN groups : i < next => GroupImported(groups[i])'
    BY <1>2, <1>8, <1>12, <1>13, StepKeeps
<1>15. RowImported(g, row)'
    <2>1. table[key] = row.allocated
          \/ ReportedIn(result'.reports, "exam_room_allocation", key, row.allocated)
        BY <1>6, <1>8, <1>11 DEF Holds, Complains, ReportedIn
    <2>2. key \in DOMAIN work'.allocations /\ work'.allocations[key] = table[key]
        BY <1>10, <1>11
    <2>3. Agrees("exam_room_allocation", work.allocations[key], key, row.allocated)'
        BY <2>1, <2>2 DEF Agrees, Reported, ReportedIn
    <2> QED
        BY <1>2, <1>4, <1>8, <2>2, <2>3 DEF RowImported
<1>16. ImportSound'
    BY <1>1, <1>2, <1>12, <1>14, <1>15, AdvanceKeeps
<1> QED
    BY <1>14, <1>16 DEF IInv

LEMMA CommitKeeps ==
    ASSUME IInv, Commit PROVE IInv'
<1>1. /\ phase = "exams" /\ phase' = "done" /\ next > Len(groups)
      /\ exams' = work.exams /\ allocations' = work.allocations
      /\ UNCHANGED <<courses, rooms, work, file, next, nextRoom, names, groups, imports>>
    BY DEF Commit
<1>2. TypeOK /\ TablesSound /\ GroupsSound /\ ImportSound /\ ~Unreadable /\ ~Unreadable'
    BY <1>1 DEF IInv, ImportSound, Unreadable
<1>3. /\ result' \in ResultRecord /\ result'.reports = result.reports
      /\ result'.warnings = result.warnings
    <2>1. result \in ResultRecord
        BY <1>2 DEF TypeOK
    <2>2. PICK s \in {"success", "partial", "failed"} : result' = [result EXCEPT !.status = s]
        BY DEF Commit
    <2> QED
        BY <2>1, <2>2 DEF ResultRecord
<1>4. TypeOK'
    BY <1>1, <1>2, <1>3 DEF TypeOK
<1>5. TablesSound'
    BY <1>1, <1>2 DEF TablesSound, Holds
<1>6. Reading /\ ReadSoFar' = ReadSoFar
    BY <1>1, <1>2 DEF Reading, ReadSoFar
<1>7. GroupsSound'
    BY <1>1, <1>2, <1>3, <1>6, GroupsStaySound
<1>8. Gains
    BY <1>1, <1>3 DEF Gains, Holds
<1>9. \A i \in DOMAIN groups : i < next
    BY <1>1, <1>2 DEF TypeOK
<1>10. ASSUME NEW i \in DOMAIN groups PROVE GroupImported(groups[i])'
    <2>1. PICK g : g = groups[i]
        OBVIOUS
    <2>2. GroupImported(g)
        BY <1>1, <1>2, <1>9, <2>1 DEF ImportSound
    <2>3. GroupImported(g)'
        BY <1>8, <2>2, GroupStaysImported
    <2> QED
        BY <1>1, <2>1, <2>3
<1>11. ImportSound'
    BY <1>1, <1>2, <1>9, <1>10 DEF ImportSound
<1> QED
    BY <1>4, <1>5, <1>7, <1>11 DEF IInv

LEMMA InitIInv == Init => IInv
<1> SUFFICES ASSUME Init PROVE IInv
    OBVIOUS
<1>1. /\ courses = << >> /\ rooms = << >> /\ exams = << >> /\ allocations = << >>
      /\ work = [exams |-> << >>, allocations |-> << >>]
      /\ phase = "idle" /\ file = NoFile /\ next = 1 /\ nextRoom = 1
      /\ names = << >> /\ groups = <<>> /\ result = EmptyResult /\ imports = 0
    BY DEF Init
<1>2. work.exams = << >> /\ work.allocations = << >>
    BY <1>1
<1>3. /\ file.required \in BOOLEAN /\ file.broken \in BOOLEAN /\ file.lines = <<>>
    BY <1>1 DEF NoFile
<1>4. /\ IsTable(courses, Course, Name) /\ IsTable(rooms, Room, Count)
      /\ IsTable(exams, ExamKey, Count) /\ IsTable(allocations, RoomKey, Count)
      /\ IsTable(work.exams, ExamKey, Count) /\ IsTable(work.allocations, RoomKey, Count)
      /\ IsTable(names, Course, Name) /\ DOMAIN work.exams = {} /\ DOMAIN work.allocations = {}
    BY <1>1, <1>2, EmptyIsTable
<1>5. file.lines \in Seq(Line) /\ groups \in Seq(GroupRecord)
    BY <1>1, <1>3
<1>6. TypeOK
    BY <1>1, <1>2, <1>3, <1>4, <1>5, EmptyResultTyped DEF TypeOK
<1>7. TablesSound
    BY <1>1, <1>2, <1>4 DEF TablesSound, Holds
<1>8. GroupsSound /\ ImportSound
    BY <1>1 DEF GroupsSound, Reading, ImportSound
<1> QED
    BY <1>6, <1>7, <1>8 DEF IInv

LEMMA StutterKeeps ==
    ASSUME IInv, UNCHANGED vars PROVE IInv'
<1>1. UNCHANGED <<courses, rooms, exams, allocations, work, phase, file, next, nextRoom, names,
                  groups, result, imports>>
    BY DEF vars
<1>2. TypeOK' /\ TablesSound'
    BY <1>1 DEF IInv, TypeOK, TablesSound
<1>3. GroupsSound'
    <2>1. CASE Reading
        <3>1. ReadSoFar' = ReadSoFar
            BY <1>1 DEF ReadSoFar
        <3> QED
            BY <1>1, <2>1, <3>1, GroupsStaySound DEF IInv
    <2>2. CASE ~Reading
        BY <1>1, <2>2 DEF GroupsSound, Reading, Unreadable
    <2> QED
        BY <2>1, <2>2
<1>4. Gains
    BY <1>1 DEF Gains, Holds
<1>5. \A g : GroupImported(g) => GroupImported(g)'
    BY <1>4, GroupStaysImported
<1>6. \A g : ExamImported(g) => ExamImported(g)'
    BY <1>4, ExamStaysImported
<1>7. \A g, row : RowImported(g, row) => RowImported(g, row)'
    BY <1>4, RowStaysImported
<1>8. ImportSound'
    BY <1>1, <1>5, <1>6, <1>7 DEF IInv, ImportSound, Unreadable, Group, GroupImported,
       ExamImported, RowImported
<1> QED
    BY <1>2, <1>3, <1>8 DEF IInv

LEMMA NextKeepsIInv == IInv /\ [Next]_vars => IInv'
<1> SUFFICES ASSUME IInv, [Next]_vars PROVE IInv'
    OBVIOUS
<1> QED
    BY AddCourseKeeps, AddRoomKeeps, BeginImportKeeps, RejectFileKeeps, RejectLineKeeps,
       OpenGroupKeeps, ExtendGroupKeeps, EndOfFileKeeps, SkipGroupKeeps, ImportExamKeeps,
       SkipRoomKeeps, ImportRoomKeeps, CommitKeeps, AbandonKeeps, StutterKeeps DEF Next

\* The inductive invariant holds over any sequence of imports and failures.
THEOREM InvariantHolds == Spec => []IInv
BY InitIInv, NextKeepsIInv, PTL DEF Spec

\* The tables, the groups of the file and the result keep their types.
THEOREM TypeCorrect == Spec => []TypeOK
<1>1. IInv => TypeOK
    BY DEF IInv
<1> QED
    BY <1>1, InvariantHolds, PTL
-----------------------------------------------------------------------------
\* What the invariant says, once the import is over, of line i: its group and its row
\* were opened by lines no later than it and imported, and agree with it or it was
\* reported.
Opener(j, i) == j \in 1..i /\ LineValid(file.lines[j])

Settled(l, i, g, row) ==
    /\ ExamOf(l) = <<g.course, g.slot>> /\ RoomOf(l) = <<g.course, g.slot, row.room>>
    /\ l.course = g.course /\ l.room = row.room
    /\ Opener(g.line, i) /\ ExamOf(file.lines[g.line]) = ExamOf(l)
    /\ Opener(row.line, i) /\ RoomOf(file.lines[row.line]) = RoomOf(l)
    /\ Agrees("course_name", g.name, l.course, l.name)
    /\ Agrees("expected_student_count", g.expected, ExamOf(l), l.expected)
    /\ Agrees("exam_room_allocation", row.allocated, RoomOf(l), l.allocated)
    /\ GroupImported(g) /\ (g.course \in DOMAIN courses => RowImported(g, row))
    /\ row.allocated \in Count

LEMMA LineSettled ==
    ASSUME IInv, NEW i \in DOMAIN file.lines, Imported(i), NEW l, l = file.lines[i]
    PROVE  \E g, row : Settled(l, i, g, row)
<1>1. /\ TypeOK /\ Reading /\ i \in ReadSoFar /\ LineValid(l)
      /\ ReadSoFar = DOMAIN file.lines
    BY DEF IInv, Imported, Reading, ReadSoFar
<1>2. LineGrouped(l, i) /\ \A x \in DOMAIN groups : GroupSound(groups[x])
    BY <1>1 DEF IInv, GroupsSound
<1>3. /\ l.course \in DOMAIN names
      /\ Agrees("course_name", names[l.course], l.course, l.name)
      /\ \E x \in DOMAIN groups : LineGroup(l, i, groups[x])
    BY <1>2 DEF LineGrouped
<1>4. PICK x \in DOMAIN groups : LineGroup(l, i, groups[x])
    BY <1>3
<1>5. PICK g : g = groups[x]
    OBVIOUS
<1>6. /\ ExamOf(l) = <<g.course, g.slot>> /\ g.line <= i
      /\ Agrees("expected_student_count", g.expected, ExamOf(l), l.expected)
      /\ \E k \in DOMAIN g.rooms : LineRow(l, i, g, g.rooms[k])
    BY <1>4, <1>5 DEF LineGroup
<1>7. PICK k \in DOMAIN g.rooms : LineRow(l, i, g, g.rooms[k])
    BY <1>6
<1>8. PICK row : row = g.rooms[k]
    OBVIOUS
<1>9. /\ row.room = l.room /\ row.line <= i
      /\ Agrees("exam_room_allocation", row.allocated, RoomOf(l), l.allocated)
    BY <1>7, <1>8 DEF LineRow
<1>10. GroupSound(g)
    BY <1>2, <1>4, <1>5
<1>11. /\ g.line \in DOMAIN file.lines /\ LineValid(file.lines[g.line])
       /\ ExamOf(file.lines[g.line]) = <<g.course, g.slot>> /\ g.name = names[g.course]
       /\ RowSound(g, row)
    BY <1>1, <1>8, <1>10 DEF GroupSound
<1>12. /\ row.line \in DOMAIN file.lines /\ LineValid(file.lines[row.line])
       /\ RoomOf(file.lines[row.line]) = <<g.course, g.slot, row.room>>
    BY <1>1, <1>11 DEF RowSound
<1>13. l.course = g.course /\ l.slot = g.slot
    BY <1>6 DEF ExamOf
<1>14. RoomOf(l) = <<g.course, g.slot, row.room>>
    BY <1>9, <1>13 DEF RoomOf
<1>15. GroupImported(g) /\ (g.course \in DOMAIN courses => RowImported(g, row))
    <2>1. GroupImported(g)
        BY <1>4, <1>5 DEF IInv, ImportSound, Imported
    <2> QED
        BY <1>8, <2>1 DEF GroupImported
<1>16. Opener(g.line, i) /\ Opener(row.line, i)
    <2>1. DOMAIN file.lines = 1..Len(file.lines) /\ Len(file.lines) \in Nat
        BY <1>1 DEF TypeOK
    <2>2. g.line \in 1..i /\ row.line \in 1..i
        BY <1>6, <1>9, <1>11, <1>12, <2>1
    <2> QED
        BY <1>11, <1>12, <2>2 DEF Opener
<1>17. row.allocated \in Count
    <2>1. g.rooms \in Seq(RowRecord)
        BY <1>1, <1>4, <1>5, GroupTyped
    <2>2. row \in RowRecord
        BY <1>8, <2>1
    <2> QED
        BY <2>2 DEF RowRecord
<1>18. Agrees("course_name", g.name, l.course, l.name)
    BY <1>3, <1>11, <1>13
<1>19. Settled(l, i, g, row)
    BY <1>6, <1>9, <1>11, <1>12, <1>13, <1>14, <1>15, <1>16, <1>17, <1>18 DEF Settled
<1> QED
    BY <1>19

LEMMA AgreesChain ==
    ASSUME NEW kind, NEW a, NEW b, NEW c, NEW key,
           Agrees(kind, a, key, b), Agrees(kind, b, key, c)
    PROVE  Agrees(kind, a, key, c)
BY DEF Agrees

\* After an import the tables are the imported ones, of known courses and rooms.
LEMMA TablesImported ==
    ASSUME IInv, phase = "done", ~Unreadable
    PROVE  /\ exams = work.exams /\ allocations = work.allocations
           /\ \A e \in DOMAIN exams : e[1] \in DOMAIN courses
           /\ \A a \in DOMAIN allocations : a[1] \in DOMAIN courses /\ a[3] \in DOMAIN rooms
BY DEF IInv, ImportSound, TablesSound

\* What every line's course name, student count and allocation are compared with.
LineFactsReported(l) ==
    /\ l.course \in DOMAIN courses =>
          Agrees("course_name", courses[l.course], l.course, l.name)
    /\ ExamOf(l) \in DOMAIN exams =>
          Agrees("expected_student_count", exams[ExamOf(l)], ExamOf(l), l.expected)
    /\ RoomOf(l) \in DOMAIN allocations =>
          Agrees("exam_room_allocation", allocations[RoomOf(l)], RoomOf(l), l.allocated)

LEMMA LineReported ==
    ASSUME IInv, NEW i \in DOMAIN file.lines, Imported(i), NEW l, l = file.lines[i]
    PROVE  LineFactsReported(l)
<1>1. PICK g, row : Settled(l, i, g, row)
    BY LineSettled
<1>2. /\ ExamOf(l) = <<g.course, g.slot>> /\ RoomOf(l) = <<g.course, g.slot, row.room>>
      /\ l.course = g.course /\ l.room = row.room
      /\ Agrees("course_name", g.name, l.course, l.name)
      /\ Agrees("expected_student_count", g.expected, ExamOf(l), l.expected)
      /\ Agrees("exam_room_allocation", row.allocated, RoomOf(l), l.allocated)
      /\ GroupImported(g) /\ (g.course \in DOMAIN courses => RowImported(g, row))
    BY <1>1 DEF Settled
<1>3. /\ exams = work.exams /\ allocations = work.allocations
      /\ \A e \in DOMAIN exams : e[1] \in DOMAIN courses
      /\ \A a \in DOMAIN allocations : a[1] \in DOMAIN courses /\ a[3] \in DOMAIN rooms
    BY TablesImported DEF Imported
<1>4. l.course \in DOMAIN courses => ExamImported(g)
    BY <1>2 DEF GroupImported
<1>5. ASSUME l.course \in DOMAIN courses
      PROVE  Agrees("course_name", courses[l.course], l.course, l.name)
    <2>1. Agrees("course_name", courses[l.course], l.course, g.name)
        BY <1>2, <1>4, <1>5 DEF ExamImported
    <2> QED
        BY <1>2, <2>1, AgreesChain
<1>6. ASSUME ExamOf(l) \in DOMAIN exams
      PROVE  Agrees("expected_student_count", exams[ExamOf(l)], ExamOf(l), l.expected)
    <2>1. l.course \in DOMAIN courses
        <3>1. PICK e : e = ExamOf(l)
            OBVIOUS
        <3>2. e[1] \in DOMAIN courses /\ e[1] = l.course
            BY <1>2, <1>3, <1>6, <3>1
        <3> QED
            BY <3>2
    <2>2. Agrees("expected_student_count", exams[ExamOf(l)], ExamOf(l), g.expected)
        BY <1>2, <1>3, <1>4, <2>1 DEF ExamImported
    <2> QED
        BY <1>2, <2>2, AgreesChain
<1>7. ASSUME RoomOf(l) \in DOMAIN allocations
      PROVE  Agrees("exam_room_allocation", allocations[RoomOf(l)], RoomOf(l), l.allocated)
    <2>1. l.course \in DOMAIN courses /\ l.room \in DOMAIN rooms
        <3>1. PICK a : a = RoomOf(l)
            OBVIOUS
        <3>2. a[1] \in DOMAIN courses /\ a[1] = l.course /\ a[3] \in DOMAIN rooms /\ a[3] = l.room
            BY <1>2, <1>3, <1>7, <3>1
        <3> QED
            BY <3>2
    <2>2. Agrees("exam_room_allocation", allocations[RoomOf(l)], RoomOf(l), row.allocated)
        BY <1>2, <1>3, <2>1 DEF RowImported
    <2> QED
        BY <1>2, <2>2, AgreesChain
<1> QED
    BY <1>5, <1>6, <1>7 DEF LineFactsReported

\* Every course name, student count and allocation of a file that is not the stored one
\* was reported as a conflict, whatever the file's lines repeat and contradict.
THEOREM DisagreementsReported == Spec => []EveryDisagreementReported
<1>1. IInv => EveryDisagreementReported
    <2> SUFFICES ASSUME IInv, NEW i \in DOMAIN file.lines, Imported(i), NEW l, l = file.lines[i]
                 PROVE  LineFactsReported(l)
        BY DEF EveryDisagreementReported, LineFactsReported, Agrees
    <2> QED
        BY LineReported
<1> QED
    BY <1>1, InvariantHolds, PTL

\* No allocation over its room's capacity goes unnoticed by the import of a line about it.
THEOREM OverflowIsNoticed == Spec => []OverflowNoticed
<1>1. IInv => OverflowNoticed
    <2> SUFFICES ASSUME IInv, NEW i \in DOMAIN file.lines, Imported(i),
                        NEW key, key = RoomOf(file.lines[i]),
                        key \in DOMAIN allocations, allocations[key] > rooms[key[3]]
                 PROVE  \/ key \in result.warnings
                        \/ \E n \in Count : Reported("exam_room_allocation", key, n)
        BY DEF OverflowNoticed
    <2>1. PICK l : l = file.lines[i]
        OBVIOUS
    <2>2. PICK g, row : Settled(l, i, g, row)
        BY <2>1, LineSettled
    <2>3. /\ key = <<g.course, g.slot, row.room>> /\ row.allocated \in Count
          /\ (g.course \in DOMAIN courses => RowImported(g, row))
        BY <2>1, <2>2 DEF Settled
    <2>4. /\ allocations = work.allocations
          /\ key[1] \in DOMAIN courses /\ key[3] \in DOMAIN rooms
        BY TablesImported DEF Imported
    <2>5. key[1] = g.course /\ key[3] = row.room
        BY <2>3
    <2>6. /\ Agrees("exam_room_allocation", allocations[key], key, row.allocated)
          /\ row.allocated > rooms[row.room] => key \in result.warnings
        BY <2>3, <2>4, <2>5 DEF RowImported
    <2> QED
        BY <2>3, <2>5, <2>6 DEF Agrees
<1> QED
    BY <1>1, InvariantHolds, PTL

\* Whether line i is stored, or which error says why not.
LineKept(i) ==
    LET l == file.lines[i]
    IN  /\ l.course \in DOMAIN courses <=> ExamOf(l) \in DOMAIN exams
        /\ l.course \in DOMAIN courses \/ ErrorFor(i, ExamOf)
        /\ (l.course \in DOMAIN courses /\ l.room \in DOMAIN rooms)
              <=> RoomOf(l) \in DOMAIN allocations
        /\ RoomOf(l) \in DOMAIN allocations \/ ErrorFor(i, RoomOf) \/ ErrorFor(i, ExamOf)

LEMMA LineIsKept ==
    ASSUME IInv, NEW i \in DOMAIN file.lines, Imported(i)
    PROVE  LineKept(i)
<1>1. PICK l : l = file.lines[i]
    OBVIOUS
<1>2. PICK g, row : Settled(l, i, g, row)
    BY <1>1, LineSettled
<1>3. /\ ExamOf(l) = <<g.course, g.slot>> /\ RoomOf(l) = <<g.course, g.slot, row.room>>
      /\ l.course = g.course /\ l.room = row.room
      /\ Opener(g.line, i) /\ ExamOf(file.lines[g.line]) = ExamOf(l)
      /\ Opener(row.line, i) /\ RoomOf(file.lines[row.line]) = RoomOf(l)
      /\ GroupImported(g) /\ (g.course \in DOMAIN courses => RowImported(g, row))
    BY <1>2 DEF Settled
<1>4. /\ exams = work.exams /\ allocations = work.allocations
      /\ \A e \in DOMAIN exams : e[1] \in DOMAIN courses
      /\ \A a \in DOMAIN allocations : a[1] \in DOMAIN courses /\ a[3] \in DOMAIN rooms
    BY TablesImported DEF Imported
<1>5. ExamOf(l)[1] = l.course /\ RoomOf(l)[1] = l.course /\ RoomOf(l)[3] = l.room
    BY <1>3
<1>6. l.course \in DOMAIN courses <=> ExamOf(l) \in DOMAIN exams
    BY <1>3, <1>4, <1>5 DEF GroupImported, ExamImported
<1>7. (l.course \in DOMAIN courses /\ l.room \in DOMAIN rooms)
         <=> RoomOf(l) \in DOMAIN allocations
    BY <1>3, <1>4, <1>5 DEF RowImported
<1>8. l.course \notin DOMAIN courses => ErrorFor(i, ExamOf)
    BY <1>1, <1>3 DEF GroupImported, ErrorFor, Opener
<1>9. l.course \in DOMAIN courses /\ l.room \notin DOMAIN rooms => ErrorFor(i, RoomOf)
    BY <1>1, <1>3 DEF RowImported, ErrorFor, Opener
<1> QED
    BY <1>1, <1>6, <1>7, <1>8, <1>9 DEF LineKept

\* An import stores exactly what its lines say of known courses and rooms; whatever it
\* leaves out has an error on the line that opened the exam or the room.
THEOREM NothingIsDropped == Spec => []NothingDropped
<1>1. IInv => NothingDropped
    <2> SUFFICES ASSUME IInv, NEW i \in DOMAIN file.lines, Imported(i) PROVE LineKept(i)
        BY DEF NothingDropped, LineKept
    <2> QED
        BY LineIsKept
<1> QED
    BY <1>1, InvariantHolds, PTL
-----------------------------------------------------------------------------
\* Tables that hold what others held keep the stored facts.
LEMMA HoldingLearns ==
    ASSUME Holds(exams', exams), Holds(allocations', allocations),
           DOMAIN exams' \subseteq ExamKey, DOMAIN allocations \subseteq RoomKey
    PROVE  Policy!Learn
<1>1. ASSUME NEW key \in DOMAIN StoredFacts
      PROVE  key \in DOMAIN StoredFacts' /\ StoredFacts'[key] = StoredFacts[key]
    <2>1. CASE key \in DOMAIN exams
        BY <2>1 DEF Holds, StoredFacts
    <2>2. CASE key \notin DOMAIN exams
        <3>1. key \in DOMAIN allocations
            BY <2>2 DEF StoredFacts
        <3>2. key \notin ExamKey
            <4>1. key \in RoomKey
                BY <3>1
            <4>2. PICK c, s, r : key = <<c, s, r>>
                BY <4>1 DEF RoomKey
            <4> QED
                BY <4>2 DEF ExamKey
        <3>3. key \notin DOMAIN exams'
            BY <3>2
        <3> QED
            BY <2>2, <3>1, <3>3 DEF Holds, StoredFacts
    <2> QED
        BY <2>1, <2>2
<1> QED
    BY <1>1 DEF Policy!Learn

\* Schedule import implements the policy "the first value wins": a stored student count
\* or allocation is never replaced, and never forgotten.
THEOREM FirstValuesAreKept == Spec => FirstValuesKept
<1>1. Init => Policy!Init
    BY DEF Init, Policy!Init, StoredFacts
<1>2. IInv /\ [Next]_vars => [Policy!Next]_StoredFacts
    <2> SUFFICES ASSUME IInv, [Next]_vars
                 PROVE  Policy!Next \/ StoredFacts' = StoredFacts
        OBVIOUS
    <2>1. CASE Commit
        <3>1. Holds(exams', exams) /\ Holds(allocations', allocations)
            BY <2>1 DEF Commit, IInv, TablesSound
        <3>2. DOMAIN exams' \subseteq ExamKey /\ DOMAIN allocations \subseteq RoomKey
            BY <2>1 DEF Commit, IInv, TypeOK, IsTable
        <3> QED
            BY <3>1, <3>2, HoldingLearns DEF Policy!Next
    <2>2. CASE exams' = exams /\ allocations' = allocations
        BY <2>2 DEF StoredFacts
    <2> QED
        BY <2>1, <2>2 DEF Next, vars, AddCourse, AddRoom, BeginImport, RejectFile, RejectLine,
           OpenGroup, ExtendGroup, EndOfFile, SkipGroup, ImportExam, SkipRoom, ImportRoom, Abandon
<1> QED
    BY <1>1, <1>2, InvariantHolds, PTL DEF Spec, FirstValuesKept, Policy!Spec
=============================================================================
