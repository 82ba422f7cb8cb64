------------------------- MODULE RegistrationImport -------------------------
(***************************************************************************)
(* Importing registrations from a CSV file: the parser and the service of  *)
(* backend/app/services/registration_import, the endpoint of api/          *)
(* registrations.py, and a database reset (api/admin.py) in another        *)
(* thread.                                                                 *)
(*                                                                         *)
(* A file is [required, broken, lines]: whether every required column is   *)
(* there, whether the CSV reader fails after the last line, and the lines, *)
(* records [student, studentName, course, courseName] of stripped cells.   *)
(*                                                                         *)
(* The database holds two tables of named rows (number -> [id, name]) and  *)
(* the registrations, pairs of row ids.  The import reads what is          *)
(* committed until it writes; from then on it holds the write lock and     *)
(* reads its own view.                                                     *)
(***************************************************************************)
EXTENDS Integers, Sequences, FiniteSets

CONSTANTS Student, Course,  \* student numbers, course codes
          Name,             \* names of either
          Empty,            \* an empty cell
          Files,            \* the files that may be imported
          MaxImports, MaxResets  \* bounds on the requests

Line == [student : Student \cup {Empty}, studentName : Name \cup {Empty},
         course : Course \cup {Empty}, courseName : Name \cup {Empty}]

FilesAssumption ==
    /\ Empty \notin Student \cup Course \cup Name
    /\ MaxImports \in Nat /\ MaxResets \in Nat
    /\ \A f \in Files :
          /\ f.required \in BOOLEAN /\ f.broken \in BOOLEAN
          /\ f.lines \in Seq(Line)

ASSUME FilesAreTyped == FilesAssumption

VARIABLES db,        \* what is committed
          work,      \* the import's view once it has written
          locked,    \* the import holds the write lock
          phase,     \* "idle", "parsing", "student", "course", "registration", "done"
          file, next,  \* the file, and the line to parse or the row to resolve
          names,     \* canonical names of the file: [student, course]
          parsed,    \* the records the parser returns
          cache,     \* ids resolved in this run: [student, course]
          result,    \* the RegistrationImportResult so far
          disturbed, \* a reset came since the import at hand began
          imports, resets  \* counters

vars == <<db, work, locked, phase, file, next, names, parsed, cache, result,
          disturbed, imports, resets>>

EmptyDatabase == [student |-> << >>, course |-> << >>, registrations |-> {}]

Nothing == [student |-> << >>, course |-> << >>]

NoFile == [required |-> TRUE, broken |-> FALSE, lines |-> <<>>]

EmptyResult ==
    [status |-> "success", reports |-> {}, duplicates |-> 0,
     created |-> [student |-> 0, course |-> 0, registration |-> 0],
     existing |-> [student |-> 0, course |-> 0, registration |-> 0]]

Report(kind, line, key, existing, incoming) ==
    [kind |-> kind, line |-> line, key |-> key, existing |-> existing, incoming |-> incoming]

ErrorAt(line) == Report("error", line, Empty, Empty, Empty)

Init ==
    /\ db = EmptyDatabase /\ work = EmptyDatabase /\ locked = FALSE
    /\ phase = "idle" /\ file = NoFile /\ next = 1
    /\ names = Nothing /\ parsed = <<>> /\ cache = Nothing
    /\ result = EmptyResult
    /\ disturbed = FALSE /\ imports = 0 /\ resets = 0

\* What a query of the import's session returns from.
View == IF locked THEN work ELSE db

\* A function extended by one pair, if the key is new.
With(f, key, value) ==
    [k \in DOMAIN f \cup {key} |-> IF k \in DOMAIN f THEN f[k] ELSE value]
-----------------------------------------------------------------------------
\* POST /registrations/import.
BeginImport ==
    /\ phase \in {"idle", "done"} /\ imports < MaxImports
    /\ \E f \in Files : file' = f
    /\ phase' = "parsing" /\ next' = 1
    /\ names' = Nothing /\ parsed' = <<>> /\ cache' = Nothing
    /\ result' = EmptyResult
    /\ disturbed' = FALSE
    /\ imports' = imports + 1
    /\ UNCHANGED <<db, work, locked, resets>>

\* A required column is missing, or the reader fails before the first line.
Unreadable == ~file.required \/ (file.broken /\ file.lines = <<>>)

RejectFile ==
    /\ phase = "parsing" /\ Unreadable
    /\ result' = [result EXCEPT !.status = "failed", !.reports = {ErrorAt(0)}]
    /\ phase' = "done"
    /\ UNCHANGED <<db, work, locked, file, next, names, parsed, cache, disturbed,
                   imports, resets>>

\* A line without an empty cell.
Complete(l) ==
    Empty \notin {l.student, l.studentName, l.course, l.courseName}

Parsing == phase = "parsing" /\ ~Unreadable /\ next <= Len(file.lines)

\* A line with an empty cell is reported and left out.
RejectLine ==
    /\ Parsing /\ ~Complete(file.lines[next])
    /\ result' = [result EXCEPT !.reports = @ \cup {ErrorAt(next)}]
    /\ next' = next + 1
    /\ UNCHANGED <<db, work, locked, phase, file, names, parsed, cache, disturbed,
                   imports, resets>>

\* Faulty variant: disagreements about courses are not reported.
StudentConflict(kind, line, known, key, name) ==
    {Report(kind, line, key, known[key], name) : k \in {key} \cap
        {x \in DOMAIN known : kind = "student_name" /\ known[x] # name}}

\* A conflict when the key already has another name.
NameConflict(kind, line, known, key, name) ==
    {Report(kind, line, key, known[key], name) : k \in {key} \cap
        {x \in DOMAIN known : known[x] # name}}

\* Faulty variant: a file has one registration per student.
SeenStudent(l) == \E i \in DOMAIN parsed : parsed[i].student = l.student

Seen(l) == \E i \in DOMAIN parsed : parsed[i].student = l.student /\ parsed[i].course = l.course

\* A complete line: names are compared with the first of the file, and the
\* registration is recorded unless the file has it already.
ReadLine ==
    /\ Parsing /\ Complete(file.lines[next])
    /\ LET l == file.lines[next]
           students == With(names.student, l.student, l.studentName)
           courses == With(names.course, l.course, l.courseName)
           conflicts == NameConflict("student_name", next, names.student, l.student, l.studentName)
                        \cup NameConflict("course_name", next, names.course, l.course, l.courseName)
       IN  /\ names' = [student |-> students, course |-> courses]
           /\ result' = [result EXCEPT !.reports = @ \cup conflicts,
                                       !.duplicates = IF Seen(l) THEN @ + 1 ELSE @]
           /\ parsed' = IF Seen(l) THEN parsed
                        ELSE Append(parsed, [line |-> next,
                                 student |-> l.student, studentName |-> students[l.student],
                                 course |-> l.course, courseName |-> courses[l.course]])
    /\ next' = next + 1
    /\ UNCHANGED <<db, work, locked, phase, file, cache, disturbed, imports, resets>>

EndOfFile ==
    /\ phase = "parsing" /\ ~Unreadable /\ next > Len(file.lines)
    /\ result' = IF file.broken THEN [result EXCEPT !.reports = @ \cup {ErrorAt(0)}] ELSE result
    /\ phase' = "student" /\ next' = 1
    /\ UNCHANGED <<db, work, locked, file, names, parsed, cache, disturbed, imports, resets>>
-----------------------------------------------------------------------------
Row == parsed[next]

\* SQLite gives a new row the highest id plus one.
NewId(table) ==
    LET ids == {table[k].id : k \in DOMAIN table}
    IN  IF ids = {} THEN 1 ELSE 1 + CHOOSE m \in ids : \A i \in ids : i <= m

\* What the run remembers of a resolved student or course.
Remember(table, key, id) == [cache EXCEPT ![table] = With(@, key, id)]

\* _resolve_student and _resolve_course: from the cache, from the database
\* (reporting another name), or as a new row.
Resolve(table, kind, key, name) ==
    \/ /\ key \in DOMAIN cache[table]
       /\ UNCHANGED <<work, locked, cache, result>>
    \/ /\ key \notin DOMAIN cache[table]
       /\ key \in DOMAIN View[table]
       /\ cache' = Remember(table, key, View[table][key].id)
       /\ result' = [result EXCEPT
              !.existing[table] = @ + 1,
              !.reports = @ \cup NameConflict(kind, Row.line,
                  [k \in DOMAIN View[table] |-> View[table][k].name], key, name)]
       /\ UNCHANGED <<work, locked>>
    \/ /\ key \notin DOMAIN cache[table]
       /\ key \notin DOMAIN View[table]
       /\ LET id == NewId(View[table])
          IN  /\ work' = [View EXCEPT ![table] = With(@, key, [id |-> id, name |-> name])]
              /\ cache' = Remember(table, key, id)
       /\ locked' = TRUE
       /\ result' = [result EXCEPT !.created[table] = @ + 1]

ResolveStudent ==
    /\ phase = "student" /\ next <= Len(parsed)
    /\ Resolve("student", "student_name", Row.student, Row.studentName)
    /\ phase' = "course"
    /\ UNCHANGED <<db, file, next, names, parsed, disturbed, imports, resets>>

ResolveCourse ==
    /\ phase = "course"
    /\ Resolve("course", "course_name", Row.course, Row.courseName)
    /\ phase' = "registration"
    /\ UNCHANGED <<db, file, next, names, parsed, disturbed, imports, resets>>

\* _resolve_registration: by the ids resolved for this row.
ResolveRegistration ==
    /\ phase = "registration"
    /\ LET pair == <<cache.student[Row.student], cache.course[Row.course]>>
       IN  IF pair \in View.registrations
           THEN /\ result' = [result EXCEPT !.existing.registration = @ + 1]
                /\ UNCHANGED <<work, locked>>
           ELSE /\ work' = [View EXCEPT !.registrations = @ \cup {pair}]
                /\ locked' = TRUE
                /\ result' = [result EXCEPT !.created.registration = @ + 1]
    /\ phase' = "student" /\ next' = next + 1
    /\ UNCHANGED <<db, file, names, parsed, cache, disturbed, imports, resets>>

\* Every row resolved: the status, the commit, the response.
Commit ==
    /\ phase = "student" /\ next > Len(parsed)
    /\ db' = View /\ locked' = FALSE
    /\ result' = [result EXCEPT !.status =
                     IF result.reports = {} THEN "success" ELSE "partial"]
    /\ phase' = "done"
    /\ UNCHANGED <<work, file, next, names, parsed, cache, disturbed, imports, resets>>

\* The request ends without its commit: the write lock was not to be had, or the
\* server stopped.  Nothing it wrote is kept.
Abandon ==
    /\ phase \notin {"idle", "done"}
    /\ phase' = "idle" /\ locked' = FALSE
    /\ UNCHANGED <<db, work, file, next, names, parsed, cache, result, disturbed,
                   imports, resets>>

\* Faulty variant: the reset leaves the courses.
EmptiedButCourses(database) == [EmptyDatabase EXCEPT !.course = database.course]

Emptied(database) == EmptyDatabase

\* POST /admin/database/reset, in a thread of its own: it needs the write lock.
Reset ==
    /\ ~locked /\ resets < MaxResets
    /\ db' = Emptied(db)
    /\ disturbed' = TRUE
    /\ resets' = resets + 1
    /\ UNCHANGED <<work, locked, phase, file, next, names, parsed, cache, result, imports>>

Next ==
    \/ BeginImport \/ RejectFile \/ RejectLine \/ ReadLine \/ EndOfFile
    \/ ResolveStudent \/ ResolveCourse \/ ResolveRegistration
    \/ Commit \/ Abandon \/ Reset

Spec == Init /\ [][Next]_vars
-----------------------------------------------------------------------------
Accepted == {i \in DOMAIN file.lines : Complete(file.lines[i])}

Reported(kind, key, name) ==
    \E r \in result.reports : r.kind = kind /\ r.key = key /\ r.incoming = name

\* The stored name wins and the disagreement is reported: once an import is done,
\* every name of the file that is not the stored one is the incoming value of a
\* conflict, whether it met another name in the file, in the database or both.
EveryDisagreementReported ==
    phase = "done" /\ ~Unreadable /\ ~disturbed =>
        \A i \in Accepted :
            LET l == file.lines[i]
            IN  /\ l.student \in DOMAIN db.student =>
                      \/ db.student[l.student].name = l.studentName
                      \/ Reported("student_name", l.student, l.studentName)
                /\ l.course \in DOMAIN db.course =>
                      \/ db.course[l.course].name = l.courseName
                      \/ Reported("course_name", l.course, l.courseName)

Resolves(d) ==
    \A pair \in d.registrations :
        /\ \E s \in DOMAIN d.student : d.student[s].id = pair[1]
        /\ \E c \in DOMAIN d.course : d.course[c].id = pair[2]

RegisteredIn(d) ==
    {p \in (DOMAIN d.student) \X (DOMAIN d.course) :
        <<d.student[p[1]].id, d.course[p[2]].id>> \in d.registrations}

\* An import no reset came in between adds to the registrations exactly those of
\* the file's complete lines, whatever their names; ids that a reset has freed and
\* new rows take again never give a student the registrations of another.
CommitAddsTheFile ==
    [][ phase = "student" /\ phase' = "done" /\ ~disturbed /\ Resolves(db) =>
          /\ Resolves(db')
          /\ RegisteredIn(db') = RegisteredIn(db) \cup
                {<<file.lines[i].student, file.lines[i].course>> : i \in Accepted} ]_vars

StoredNames ==
    [key \in ({"student"} \X (DOMAIN db.student)) \cup ({"course"} \X (DOMAIN db.course))
     |-> IF key[1] = "student" THEN db.student[key[2]].name ELSE db.course[key[2]].name]

Policy == INSTANCE FirstValueWins WITH facts <- StoredNames

\* Registration import implements the conflict policy: a student's or a course's
\* name is never replaced, over any sequence of imports and failures; a reset
\* forgets all names together, even one in the middle of an import.
FirstValuesKept == Policy!Spec
=============================================================================
