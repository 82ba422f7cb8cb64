---------------------- MODULE RegistrationImportProofs ----------------------
(***************************************************************************)
(* What registration import stores and reports, for any students, courses, *)
(* names and files, any number of imports and resets, and a failure or a   *)
(* reset anywhere in between.                                              *)
(***************************************************************************)
EXTENDS RegistrationImport, TLAPS, WellFoundedInduction

NamedRow == [id : Nat, name : Name]

\* A table of named rows: no id is there twice, and there is a largest.
IsTable(table, keys) ==
    /\ table \in [DOMAIN table -> NamedRow] /\ DOMAIN table \subseteq keys
    /\ \A k, l \in DOMAIN table : table[k].id = table[l].id => k = l
    /\ \E b \in Nat : \A k \in DOMAIN table : table[k].id <= b

IsDatabase(d) ==
    /\ d = [student |-> d.student, course |-> d.course, registrations |-> d.registrations]
    /\ IsTable(d.student, Student) /\ IsTable(d.course, Course)
    /\ d.registrations \subseteq Nat \X Nat

\* A table that has every row of another, unchanged.
Holds(new, old) ==
    DOMAIN old \subseteq DOMAIN new /\ \A k \in DOMAIN old : new[k] = old[k]

Extends(new, old) == Holds(new.student, old.student) /\ Holds(new.course, old.course)

\* A set of naturals with an upper bound that is not empty has a greatest element.
LEMMA GreatestNatural ==
    ASSUME NEW b \in Nat, NEW T \in SUBSET Nat, T # {}, \A k \in T : k <= b
    PROVE  \E m \in T : \A k \in T : k <= m
<1> DEFINE D == {b - k : k \in T}
<1>1. D \in SUBSET Nat /\ D # {}
    <2>1. \A k \in T : b - k \in Nat
        OBVIOUS
    <2> QED
        BY <2>1
<1> HIDE DEF D
<1>2. PICK d \in D : \A e \in D : ~(<<e, d>> \in OpToRel(<, Nat))
    BY <1>1, NatLessThanWellFounded, WFMin
<1>3. \A e \in D : d <= e
    <2> SUFFICES ASSUME NEW e \in D PROVE d <= e
        OBVIOUS
    <2>1. ~(e < d)
        BY <1>1, <1>2 DEF OpToRel
    <2> QED
        BY <1>1, <2>1
<1>4. PICK m \in T : d = b - m
    BY DEF D
<1>5. ASSUME NEW k \in T PROVE k <= m
    <2>1. b - k \in D
        BY DEF D
    <2>2. d <= b - k
        BY <1>3, <2>1
    <2> QED
        BY <1>4, <2>2
<1> QED
    BY <1>5

\* A new row's id is larger than every id in use.
LEMMA NewIdIsNew ==
    ASSUME NEW keys, NEW table, IsTable(table, keys)
    PROVE  NewId(table) \in Nat /\ \A k \in DOMAIN table : table[k].id < NewId(table)
<1> DEFINE ids == {table[k].id : k \in DOMAIN table}
<1>1. \A k \in DOMAIN table : table[k].id \in Nat
    BY DEF IsTable, NamedRow
<1>2. ids \in SUBSET Nat
    BY <1>1
<1>3. PICK b \in Nat : \A i \in ids : i <= b
    BY DEF IsTable
<1>4. \A k \in DOMAIN table : table[k].id \in ids
    OBVIOUS
<1>5. NewId(table) = IF ids = {} THEN 1 ELSE 1 + CHOOSE m \in ids : \A i \in ids : i <= m
    BY DEF NewId
<1> HIDE DEF ids
<1>6. CASE ids = {}
    BY <1>4, <1>5, <1>6
<1>7. CASE ids # {}
    <2> DEFINE top == CHOOSE m \in ids : \A i \in ids : i <= m
    <2>1. \E m \in ids : \A i \in ids : i <= m
        BY <1>2, <1>3, <1>7, GreatestNatural
    <2>2. top \in ids /\ \A i \in ids : i <= top
        BY <2>1
    <2>3. NewId(table) = 1 + top
        BY <1>5, <1>7
    <2> HIDE DEF top
    <2>4. top \in Nat
        BY <1>2, <2>2
    <2> QED
        BY <1>1, <1>4, <2>2, <2>3, <2>4
<1> QED
    BY <1>6, <1>7

\* A table with one more row.
WithRow(table, key, name) == With(table, key, [id |-> NewId(table), name |-> name])

HasNewRow(new, table, keys, key, name) ==
    /\ IsTable(new, keys) /\ Holds(new, table)
    /\ DOMAIN new = DOMAIN table \cup {key}
    /\ new[key].id = NewId(table) /\ new[key].name = name

LEMMA RowAdded ==
    ASSUME NEW keys, NEW table, IsTable(table, keys), NEW key \in keys,
           key \notin DOMAIN table, NEW name \in Name
    PROVE  HasNewRow(WithRow(table, key, name), table, keys, key, name)
<1> DEFINE id == NewId(table)
           row == [id |-> id, name |-> name]
           new == With(table, key, row)
<1>1. id \in Nat /\ \A k \in DOMAIN table : table[k].id < id
    BY NewIdIsNew
<1> HIDE DEF id
<1>2. row \in NamedRow /\ row.id = id /\ row.name = name
    BY <1>1 DEF NamedRow
<1> HIDE DEF row
<1>3. /\ DOMAIN new = DOMAIN table \cup {key} /\ new[key] = row
      /\ \A k \in DOMAIN table : new[k] = table[k]
      /\ new = [k \in DOMAIN table \cup {key} |-> new[k]]
    BY DEF With
<1> HIDE DEF new
<1>4. \A k \in DOMAIN table : table[k] \in NamedRow /\ table[k].id \in Nat
    BY DEF IsTable, NamedRow
<1>5. new \in [DOMAIN new -> NamedRow]
    BY <1>2, <1>3, <1>4
<1>6. \A k, l \in DOMAIN new : new[k].id = new[l].id => k = l
    <2> SUFFICES ASSUME NEW k \in DOMAIN new, NEW l \in DOMAIN new, new[k].id = new[l].id
                 PROVE  k = l
        OBVIOUS
    <2>1. CASE k = key /\ l \in DOMAIN table
        BY <1>1, <1>2, <1>3, <1>4, <2>1
    <2>2. CASE l = key /\ k \in DOMAIN table
        BY <1>1, <1>2, <1>3, <1>4, <2>2
    <2>3. CASE k \in DOMAIN table /\ l \in DOMAIN table
        BY <1>3, <2>3 DEF IsTable
    <2> QED
        BY <1>3, <2>1, <2>2, <2>3
<1>7. \E b \in Nat : \A k \in DOMAIN new : new[k].id <= b
    <2>1. \A k \in DOMAIN new : new[k].id <= id
        BY <1>1, <1>2, <1>3, <1>4
    <2> QED
        BY <1>1, <2>1
<1>8. DOMAIN new \subseteq keys
    BY <1>3 DEF IsTable
<1> QED
    BY <1>2, <1>3, <1>5, <1>6, <1>7, <1>8 DEF HasNewRow, IsTable, Holds, WithRow, new, row, id
StudentsNow(d, table) == [d EXCEPT !.student = table]

LEMMA StudentsExtended ==
    ASSUME NEW d, IsDatabase(d), NEW table, IsTable(table, Student), Holds(table, d.student)
    PROVE  /\ IsDatabase(StudentsNow(d, table)) /\ Extends(StudentsNow(d, table), d)
           /\ StudentsNow(d, table).student = table
           /\ StudentsNow(d, table).registrations = d.registrations
<1>1. StudentsNow(d, table) = [student |-> table, course |-> d.course,
                               registrations |-> d.registrations]
    BY DEF IsDatabase, StudentsNow
<1>2. /\ StudentsNow(d, table).student = table
      /\ StudentsNow(d, table).course = d.course
      /\ StudentsNow(d, table).registrations = d.registrations
    BY <1>1
<1> QED
    BY <1>1, <1>2 DEF IsDatabase, Extends, Holds
CoursesNow(d, table) == [d EXCEPT !.course = table]

LEMMA CoursesExtended ==
    ASSUME NEW d, IsDatabase(d), NEW table, IsTable(table, Course), Holds(table, d.course)
    PROVE  /\ IsDatabase(CoursesNow(d, table)) /\ Extends(CoursesNow(d, table), d)
           /\ CoursesNow(d, table).course = table
           /\ CoursesNow(d, table).registrations = d.registrations
<1>1. CoursesNow(d, table) = [student |-> d.student, course |-> table,
                               registrations |-> d.registrations]
    BY DEF IsDatabase, CoursesNow
<1>2. /\ CoursesNow(d, table).course = table
      /\ CoursesNow(d, table).student = d.student
      /\ CoursesNow(d, table).registrations = d.registrations
    BY <1>1
<1> QED
    BY <1>1, <1>2 DEF IsDatabase, Extends, Holds
-----------------------------------------------------------------------------
Registered(d, s, c) ==
    /\ s \in DOMAIN d.student /\ c \in DOMAIN d.course
    /\ <<d.student[s].id, d.course[c].id>> \in d.registrations

LEMMA RegisteredInMeans ==
    ASSUME NEW d, NEW s, NEW c
    PROVE  <<s, c>> \in RegisteredIn(d) <=> Registered(d, s, c)
BY DEF RegisteredIn, Registered

\* New rows do not take over registrations: every id that one names is another row's.
LEMMA NewRowsUnregistered ==
    ASSUME NEW d, IsDatabase(d), NEW new, IsDatabase(new), Extends(new, d),
           new.registrations = d.registrations, Resolves(d)
    PROVE  /\ Resolves(new)
           /\ \A s, c : Registered(new, s, c) <=> Registered(d, s, c)
<1>1. ASSUME NEW pair \in d.registrations
      PROVE  /\ \E s \in DOMAIN d.student :
                   d.student[s].id = pair[1] /\ s \in DOMAIN new.student
                   /\ new.student[s].id = pair[1]
             /\ \E c \in DOMAIN d.course :
                   d.course[c].id = pair[2] /\ c \in DOMAIN new.course
                   /\ new.course[c].id = pair[2]
    BY DEF Resolves, Extends, Holds
<1>2. Resolves(new)
    BY <1>1 DEF Resolves
<1>3. ASSUME NEW s, NEW c, Registered(new, s, c) PROVE Registered(d, s, c)
    <2> DEFINE pair == <<new.student[s].id, new.course[c].id>>
    <2>1. pair \in d.registrations /\ s \in DOMAIN new.student /\ c \in DOMAIN new.course
        BY <1>3 DEF Registered
    <2>2. PICK x \in DOMAIN d.student : x \in DOMAIN new.student
              /\ new.student[x].id = new.student[s].id
        BY <1>1, <2>1
    <2>3. PICK y \in DOMAIN d.course : y \in DOMAIN new.course
              /\ new.course[y].id = new.course[c].id
        BY <1>1, <2>1
    <2>4. s = x /\ c = y
        BY <2>1, <2>2, <2>3 DEF IsDatabase, IsTable
    <2>5. d.student[s] = new.student[s] /\ d.course[c] = new.course[c]
        BY <2>2, <2>3, <2>4 DEF Extends, Holds
    <2> QED
        BY <2>1, <2>2, <2>3, <2>4, <2>5 DEF Registered
<1>4. ASSUME NEW s, NEW c, Registered(d, s, c) PROVE Registered(new, s, c)
    BY <1>4 DEF Registered, Extends, Holds
<1> QED
    BY <1>2, <1>3, <1>4

\* A new registration is that of one student and one course.
LEMMA PairAdded ==
    ASSUME NEW d, IsDatabase(d), NEW new,
           new.student = d.student, new.course = d.course,
           NEW s \in DOMAIN d.student, NEW c \in DOMAIN d.course,
           new.registrations = d.registrations
                               \cup {<<d.student[s].id, d.course[c].id>>}
    PROVE  /\ Resolves(d) => Resolves(new)
           /\ \A x, y : Registered(new, x, y) <=> Registered(d, x, y) \/ (x = s /\ y = c)
<1>1. Resolves(d) => Resolves(new)
    BY DEF Resolves
<1>2. ASSUME NEW x, NEW y, Registered(new, x, y)
      PROVE  Registered(d, x, y) \/ (x = s /\ y = c)
    <2>1. /\ x \in DOMAIN d.student /\ y \in DOMAIN d.course
          /\ \/ <<d.student[x].id, d.course[y].id>> \in d.registrations
             \/ d.student[x].id = d.student[s].id /\ d.course[y].id = d.course[c].id
        BY <1>2 DEF Registered
    <2> QED
        BY <2>1 DEF Registered, IsDatabase, IsTable
<1>3. ASSUME NEW x, NEW y, Registered(d, x, y) \/ (x = s /\ y = c)
      PROVE  Registered(new, x, y)
    BY <1>3 DEF Registered
<1> QED
    BY <1>1, <1>2, <1>3
-----------------------------------------------------------------------------
Kinds == {"error", "student_name", "course_name"}
ReportRecord ==
    [kind : Kinds, line : Nat, key : Student \cup Course \cup {Empty},
     existing : Name \cup {Empty}, incoming : Name \cup {Empty}]
Counts == [student : Nat, course : Nat, registration : Nat]
ResultRecord ==
    [status : {"success", "partial", "failed"}, reports : SUBSET ReportRecord,
     duplicates : Nat, created : Counts, existing : Counts]
ParsedRow ==
    [line : Nat, student : Student, studentName : Name, course : Course, courseName : Name]

IsNames(n) ==
    /\ n = [student |-> n.student, course |-> n.course]
    /\ n.student \in [DOMAIN n.student -> Name] /\ DOMAIN n.student \subseteq Student
    /\ n.course \in [DOMAIN n.course -> Name] /\ DOMAIN n.course \subseteq Course

IsCache(c) ==
    /\ c = [student |-> c.student, course |-> c.course]
    /\ c.student \in [DOMAIN c.student -> Nat] /\ DOMAIN c.student \subseteq Student
    /\ c.course \in [DOMAIN c.course -> Nat] /\ DOMAIN c.course \subseteq Course

\* Every variable has its type.
TypeOK ==
    /\ IsDatabase(db) /\ IsDatabase(work)
    /\ locked \in BOOLEAN /\ disturbed \in BOOLEAN
    /\ phase \in {"idle", "parsing", "student", "course", "registration", "done"}
    /\ file.required \in BOOLEAN /\ file.broken \in BOOLEAN /\ file.lines \in Seq(Line)
    /\ next \in Nat \ {0}
    /\ IsNames(names) /\ parsed \in Seq(ParsedRow) /\ IsCache(cache)
    /\ result \in ResultRecord
    /\ imports \in Nat /\ resets \in Nat

Resolving == phase \in {"student", "course", "registration"}

\* The lock is held only while rows are resolved; nothing is cached before.
Stages ==
    /\ locked => Resolving
    /\ Resolving => ~Unreadable
    /\ phase = "parsing" => cache = Nothing

\* What the import has written adds to what is committed.
ViewExtends == locked => Extends(work, db)

ReadSoFar == IF phase = "parsing" THEN 1..(next - 1) ELSE DOMAIN file.lines

\* The known value is the given one, or the difference was reported.
Named(kind, known, key, name) ==
    key \in DOMAIN known /\ (known[key] = name \/ Reported(kind, key, name))

\* The complete lines read so far and the parsed rows are about the same registrations,
\* and rows carry the canonical names.
LinesFound ==
    /\ \A i \in ReadSoFar : i \in DOMAIN file.lines
    /\ \A i \in ReadSoFar : Complete(file.lines[i]) =>
          /\ Named("student_name", names.student, file.lines[i].student,
                   file.lines[i].studentName)
          /\ Named("course_name", names.course, file.lines[i].course,
                   file.lines[i].courseName)
          /\ \E j \in DOMAIN parsed : /\ parsed[j].student = file.lines[i].student
                                      /\ parsed[j].course = file.lines[i].course
    /\ \A j \in DOMAIN parsed :
          /\ \E i \in ReadSoFar : /\ Complete(file.lines[i])
                                  /\ parsed[j].student = file.lines[i].student
                                  /\ parsed[j].course = file.lines[i].course
          /\ parsed[j].student \in DOMAIN names.student
          /\ parsed[j].studentName = names.student[parsed[j].student]
          /\ parsed[j].course \in DOMAIN names.course
          /\ parsed[j].courseName = names.course[parsed[j].course]

LinesRead == phase # "idle" /\ ~Unreadable => LinesFound

\* Rows before the one at hand, and what of it was resolved, are in the cache.
RowsResolved ==
    Resolving =>
        /\ \A j \in DOMAIN parsed : j < next =>
              /\ parsed[j].student \in DOMAIN cache.student
              /\ parsed[j].course \in DOMAIN cache.course
        /\ phase # "student" => next \in DOMAIN parsed /\ Row.student \in DOMAIN cache.student
        /\ phase = "registration" => Row.course \in DOMAIN cache.course

\* As long as no reset came, what is cached is what the import sees, and its name is the
\* file's or was reported.
CacheSound ==
    Resolving /\ ~disturbed =>
        /\ \A k \in DOMAIN cache.student :
              /\ k \in DOMAIN View.student /\ cache.student[k] = View.student[k].id
              /\ k \in DOMAIN names.student
              /\ \/ View.student[k].name = names.student[k]
                 \/ Reported("student_name", k, names.student[k])
        /\ \A k \in DOMAIN cache.course :
              /\ k \in DOMAIN View.course /\ cache.course[k] = View.course[k].id
              /\ k \in DOMAIN names.course
              /\ \/ View.course[k].name = names.course[k]
                 \/ Reported("course_name", k, names.course[k])

\* As long as no reset came, exactly the rows before the one at hand are registered on
\* top of what is committed.
RowsRegistered ==
    Resolving /\ ~disturbed /\ Resolves(db) =>
        /\ Resolves(View)
        /\ \A s, c : Registered(View, s, c) <=>
              \/ Registered(db, s, c)
              \/ \E j \in DOMAIN parsed : j < next /\ parsed[j].student = s
                                          /\ parsed[j].course = c

\* The inductive invariant.
IInv ==
    /\ TypeOK /\ Stages /\ ViewExtends /\ LinesRead /\ RowsResolved
    /\ CacheSound /\ RowsRegistered /\ EveryDisagreementReported
-----------------------------------------------------------------------------
\* A result that counts one more existing record and has more reports.
Found(r, table, more) == [r EXCEPT !.existing[table] = @ + 1, !.reports = @ \cup more]

LEMMA FoundCounted ==
    ASSUME NEW r \in ResultRecord, NEW more \in SUBSET ReportRecord,
           NEW table \in {"student", "course", "registration"}
    PROVE  /\ Found(r, table, more) \in ResultRecord
           /\ Found(r, table, more).reports = r.reports \cup more
<1> DEFINE n == r.existing[table] + 1
<1>1. r.existing \in Counts /\ r.reports \in SUBSET ReportRecord
    BY DEF ResultRecord
<1>2. n \in Nat
    BY <1>1 DEF Counts
<1> HIDE DEF n
<1>3. [r.existing EXCEPT ![table] = n] \in Counts
    BY <1>1, <1>2 DEF Counts
<1>4. [r EXCEPT !.existing = [r.existing EXCEPT ![table] = n], !.reports = r.reports \cup more]
        \in ResultRecord
    BY <1>1, <1>3 DEF ResultRecord
<1>5. [r EXCEPT !.existing = [r.existing EXCEPT ![table] = n],
                !.reports = r.reports \cup more].reports = r.reports \cup more
    BY DEF ResultRecord
<1> QED
    BY <1>4, <1>5 DEF n, Found

\* A result that counts one more new record.
Made(r, table) == [r EXCEPT !.created[table] = @ + 1]

LEMMA MadeCounted ==
    ASSUME NEW r \in ResultRecord, NEW table \in {"student", "course", "registration"}
    PROVE  Made(r, table) \in ResultRecord /\ Made(r, table).reports = r.reports
<1> DEFINE n == r.created[table] + 1
<1>1. r.created \in Counts /\ n \in Nat
    BY DEF ResultRecord, Counts
<1> HIDE DEF n
<1>2. [r.created EXCEPT ![table] = n] \in Counts
    BY <1>1 DEF Counts
<1>3. [r EXCEPT !.created = [r.created EXCEPT ![table] = n]] \in ResultRecord
    BY <1>2 DEF ResultRecord
<1>4. [r EXCEPT !.created = [r.created EXCEPT ![table] = n]].reports = r.reports
    BY DEF ResultRecord
<1> QED
    BY <1>3, <1>4 DEF n, Made

LEMMA Conflicts ==
    ASSUME NEW kind \in Kinds, NEW line \in Nat, NEW key \in Student \cup Course,
           NEW known, key \in DOMAIN known, known[key] \in Name, NEW name \in Name
    PROVE  /\ NameConflict(kind, line, known, key, name) \in SUBSET ReportRecord
           /\ known[key] # name =>
                 \E r \in NameConflict(kind, line, known, key, name) :
                    r.kind = kind /\ r.key = key /\ r.incoming = name
<1> DEFINE report == Report(kind, line, key, known[key], name)
<1>1. report \in ReportRecord /\ report.kind = kind /\ report.key = key /\ report.incoming = name
    BY DEF Report, ReportRecord
<1> HIDE DEF report
<1>2. NameConflict(kind, line, known, key, name) =
        {report : k \in {key} \cap {x \in DOMAIN known : known[x] # name}}
    BY DEF NameConflict, report
<1> QED
    BY <1>1, <1>2

ReportedIn(res, kind, key, name) ==
    \E r \in res.reports : r.kind = kind /\ r.key = key /\ r.incoming = name

\* What the import sees is what is committed, and more.
LEMMA ViewIsDatabase ==
    ASSUME TypeOK, ViewExtends PROVE IsDatabase(View) /\ Extends(View, db)
BY DEF TypeOK, ViewExtends, View, Extends, Holds

\* What a step that resolves a student does.
StudentStep ==
    /\ IsDatabase(work') /\ locked' \in BOOLEAN
    /\ IsDatabase(View') /\ Extends(View', View)
    /\ View'.registrations = View.registrations
    /\ IsCache(cache') /\ cache'.course = cache.course
    /\ DOMAIN cache'.student = DOMAIN cache.student \cup {Row.student}
    /\ \A k \in DOMAIN cache.student : cache'.student[k] = cache.student[k]
    /\ result' \in ResultRecord /\ result.reports \subseteq result'.reports
    /\ Row.student \notin DOMAIN cache.student =>
          /\ Row.student \in DOMAIN View'.student
          /\ cache'.student[Row.student] = View'.student[Row.student].id
          /\ \/ View'.student[Row.student].name = Row.studentName
             \/ ReportedIn(result', "student_name", Row.student, Row.studentName)

LEMMA RowTyped ==
    ASSUME TypeOK, next \in DOMAIN parsed
    PROVE  /\ Row.student \in Student /\ Row.studentName \in Name
           /\ Row.course \in Course /\ Row.courseName \in Name /\ Row.line \in Nat
<1>1. Row \in ParsedRow
    BY DEF TypeOK, Row
<1> QED
    BY <1>1 DEF ParsedRow

LEMMA StudentCacheExtended ==
    ASSUME IsCache(cache), NEW key \in Student, NEW id \in Nat,
           cache' = Remember("student", key, id)
    PROVE  /\ IsCache(cache') /\ cache'.course = cache.course
           /\ DOMAIN cache'.student = DOMAIN cache.student \cup {key}
           /\ \A k \in DOMAIN cache.student : cache'.student[k] = cache.student[k]
           /\ key \notin DOMAIN cache.student => cache'.student[key] = id
BY DEF IsCache, Remember, With
LEMMA StudentCached ==
    ASSUME TypeOK, ViewExtends, next \in DOMAIN parsed, UNCHANGED db,
           Row.student \in DOMAIN cache.student,
           UNCHANGED <<work, locked, cache, result>>
    PROVE  StudentStep
<1>1. View' = View
    BY DEF View
<1>2. Extends(View, View)
    BY DEF Extends, Holds
<1> QED
    BY <1>1, <1>2, ViewIsDatabase DEF StudentStep, TypeOK

LEMMA StudentFound ==
    ASSUME TypeOK, ViewExtends, next \in DOMAIN parsed, UNCHANGED <<db, work, locked>>,
           Row.student \notin DOMAIN cache.student, Row.student \in DOMAIN View.student,
           cache' = Remember("student", Row.student, View.student[Row.student].id),
           result' = [result EXCEPT
              !.existing["student"] = @ + 1,
              !.reports = @ \cup NameConflict("student_name", Row.line,
                  [k \in DOMAIN View.student |-> View.student[k].name],
                  Row.student, Row.studentName)]
    PROVE  StudentStep
<1> DEFINE key == Row.student
           stored == View.student[key]
           known == [k \in DOMAIN View.student |-> View.student[k].name]
           more == NameConflict("student_name", Row.line, known, key, Row.studentName)
<1>1. View' = View /\ IsDatabase(View) /\ Extends(View, View)
    BY ViewIsDatabase DEF View, Extends, Holds
<1>2. key \in Student /\ Row.studentName \in Name /\ Row.line \in Nat
    BY RowTyped
<1>3. stored.id \in Nat /\ stored.name \in Name
    BY <1>1 DEF IsDatabase, IsTable, NamedRow
<1>4. IsCache(cache)
    BY DEF TypeOK
<1>5. /\ IsCache(cache') /\ cache'.course = cache.course
      /\ DOMAIN cache'.student = DOMAIN cache.student \cup {key}
      /\ \A k \in DOMAIN cache.student : cache'.student[k] = cache.student[k]
      /\ cache'.student[key] = stored.id
    BY <1>2, <1>3, <1>4, StudentCacheExtended
<1>6. known[key] = stored.name /\ key \in DOMAIN known
    OBVIOUS
<1>7. /\ more \in SUBSET ReportRecord
      /\ stored.name # Row.studentName =>
            \E r \in more : r.kind = "student_name" /\ r.key = key
                            /\ r.incoming = Row.studentName
    <2> HIDE DEF known, key
    <2>1. "student_name" \in Kinds /\ known[key] \in Name
        BY <1>3, <1>6 DEF Kinds
    <2> QED
        BY <1>2, <1>6, <2>1, Conflicts
<1>8. result' \in ResultRecord /\ result'.reports = result.reports \cup more
    <2> HIDE DEF more
    <2>1. result \in ResultRecord
        BY DEF TypeOK
    <2>2. result' = Found(result, "student", more)
        BY DEF more, Found
    <2>3. /\ Found(result, "student", more) \in ResultRecord
          /\ Found(result, "student", more).reports = result.reports \cup more
        BY <1>7, <2>1, FoundCounted
    <2> QED
        BY <2>2, <2>3
<1>9. \/ stored.name = Row.studentName
      \/ ReportedIn(result', "student_name", key, Row.studentName)
    BY <1>7, <1>8 DEF ReportedIn
<1> QED
    BY <1>1, <1>5, <1>8, <1>9 DEF StudentStep, TypeOK
LEMMA StudentCreated ==
    ASSUME TypeOK, ViewExtends, next \in DOMAIN parsed,
           Row.student \notin DOMAIN cache.student, Row.student \notin DOMAIN View.student,
           work' = [View EXCEPT !["student"] =
                       With(@, Row.student, [id |-> NewId(View.student),
                                             name |-> Row.studentName])],
           cache' = Remember("student", Row.student, NewId(View.student)),
           locked' = TRUE, result' = [result EXCEPT !.created["student"] = @ + 1]
    PROVE  StudentStep
<1> DEFINE key == Row.student
           id == NewId(View.student)
           new == WithRow(View.student, key, Row.studentName)
<1>1. View' = work' /\ IsDatabase(View)
    BY ViewIsDatabase DEF View
<1>2. key \in Student /\ Row.studentName \in Name /\ IsTable(View.student, Student)
    BY <1>1, RowTyped DEF IsDatabase
<1>3. /\ IsTable(new, Student) /\ Holds(new, View.student)
      /\ DOMAIN new = DOMAIN View.student \cup {key}
      /\ new[key].id = id /\ new[key].name = Row.studentName
    <2>1. key \notin DOMAIN View.student
        OBVIOUS
    <2> HIDE DEF key
    <2>2. HasNewRow(WithRow(View.student, key, Row.studentName), View.student, Student,
                    key, Row.studentName)
        BY <1>2, <2>1, RowAdded
    <2> QED
        BY <2>2 DEF HasNewRow
<1>4. id \in Nat
    BY <1>2, NewIdIsNew
<1> HIDE DEF new
<1>5. work' = StudentsNow(View, new)
    BY DEF new, WithRow, StudentsNow
<1>6. /\ IsDatabase(work') /\ Extends(work', View)
      /\ work'.student = new /\ work'.registrations = View.registrations
    <2>1. /\ IsDatabase(StudentsNow(View, new)) /\ Extends(StudentsNow(View, new), View)
          /\ StudentsNow(View, new).student = new
          /\ StudentsNow(View, new).registrations = View.registrations
        BY <1>1, <1>3, StudentsExtended
    <2> QED
        BY <1>5, <2>1
<1> HIDE DEF id
<1>7. /\ IsCache(cache') /\ cache'.course = cache.course
      /\ DOMAIN cache'.student = DOMAIN cache.student \cup {key}
      /\ \A k \in DOMAIN cache.student : cache'.student[k] = cache.student[k]
      /\ cache'.student[key] = id
    <2>1. IsCache(cache) /\ cache' = Remember("student", key, id)
        BY DEF TypeOK, id
    <2> QED
        BY <1>2, <1>4, <2>1, StudentCacheExtended
<1>8. result' \in ResultRecord /\ result'.reports = result.reports
    <2>1. result' = Made(result, "student") /\ result \in ResultRecord
        BY DEF Made, TypeOK
    <2>2. Made(result, "student") \in ResultRecord
          /\ Made(result, "student").reports = result.reports
        BY <2>1, MadeCounted
    <2> QED
        BY <2>1, <2>2
<1>9. key \in DOMAIN work'.student /\ work'.student[key].id = id
      /\ work'.student[key].name = Row.studentName
    BY <1>3, <1>6
<1> QED
    BY <1>1, <1>6, <1>7, <1>8, <1>9 DEF StudentStep

LEMMA StudentResolved ==
    ASSUME TypeOK, ViewExtends, ResolveStudent
    PROVE  StudentStep
<1>1. next \in DOMAIN parsed /\ UNCHANGED db
    BY DEF ResolveStudent, TypeOK
<1>2. Resolve("student", "student_name", Row.student, Row.studentName)
    BY DEF ResolveStudent
<1>3. CASE Row.student \in DOMAIN cache.student
    BY <1>1, <1>2, <1>3, StudentCached DEF Resolve
<1>4. CASE Row.student \notin DOMAIN cache.student /\ Row.student \in DOMAIN View.student
    BY <1>1, <1>2, <1>4, StudentFound DEF Resolve
<1>5. CASE Row.student \notin DOMAIN cache.student /\ Row.student \notin DOMAIN View.student
    BY <1>1, <1>2, <1>5, StudentCreated DEF Resolve
<1> QED
    BY <1>3, <1>4, <1>5
-----------------------------------------------------------------------------
\* What a step that resolves a course does.
CourseStep ==
    /\ IsDatabase(work') /\ locked' \in BOOLEAN
    /\ IsDatabase(View') /\ Extends(View', View)
    /\ View'.registrations = View.registrations
    /\ IsCache(cache') /\ cache'.student = cache.student
    /\ DOMAIN cache'.course = DOMAIN cache.course \cup {Row.course}
    /\ \A k \in DOMAIN cache.course : cache'.course[k] = cache.course[k]
    /\ result' \in ResultRecord /\ result.reports \subseteq result'.reports
    /\ Row.course \notin DOMAIN cache.course =>
          /\ Row.course \in DOMAIN View'.course
          /\ cache'.course[Row.course] = View'.course[Row.course].id
          /\ \/ View'.course[Row.course].name = Row.courseName
             \/ ReportedIn(result', "course_name", Row.course, Row.courseName)

LEMMA CourseCacheExtended ==
    ASSUME IsCache(cache), NEW key \in Course, NEW id \in Nat,
           cache' = Remember("course", key, id)
    PROVE  /\ IsCache(cache') /\ cache'.student = cache.student
           /\ DOMAIN cache'.course = DOMAIN cache.course \cup {key}
           /\ \A k \in DOMAIN cache.course : cache'.course[k] = cache.course[k]
           /\ key \notin DOMAIN cache.course => cache'.course[key] = id
BY DEF IsCache, Remember, With
LEMMA CourseCached ==
    ASSUME TypeOK, ViewExtends, next \in DOMAIN parsed, UNCHANGED db,
           Row.course \in DOMAIN cache.course,
           UNCHANGED <<work, locked, cache, result>>
    PROVE  CourseStep
<1>1. View' = View
    BY DEF View
<1>2. Extends(View, View)
    BY DEF Extends, Holds
<1> QED
    BY <1>1, <1>2, ViewIsDatabase DEF CourseStep, TypeOK

LEMMA CourseFound ==
    ASSUME TypeOK, ViewExtends, next \in DOMAIN parsed, UNCHANGED <<db, work, locked>>,
           Row.course \notin DOMAIN cache.course, Row.course \in DOMAIN View.course,
           cache' = Remember("course", Row.course, View.course[Row.course].id),
           result' = [result EXCEPT
              !.existing["course"] = @ + 1,
              !.reports = @ \cup NameConflict("course_name", Row.line,
                  [k \in DOMAIN View.course |-> View.course[k].name],
                  Row.course, Row.courseName)]
    PROVE  CourseStep
<1> DEFINE key == Row.course
           stored == View.course[key]
           known == [k \in DOMAIN View.course |-> View.course[k].name]
           more == NameConflict("course_name", Row.line, known, key, Row.courseName)
<1>1. View' = View /\ IsDatabase(View) /\ Extends(View, View)
    BY ViewIsDatabase DEF View, Extends, Holds
<1>2. key \in Course /\ Row.courseName \in Name /\ Row.line \in Nat
    BY RowTyped
<1>3. stored.id \in Nat /\ stored.name \in Name
    BY <1>1 DEF IsDatabase, IsTable, NamedRow
<1>4. IsCache(cache)
    BY DEF TypeOK
<1>5. /\ IsCache(cache') /\ cache'.student = cache.student
      /\ DOMAIN cache'.course = DOMAIN cache.course \cup {key}
      /\ \A k \in DOMAIN cache.course : cache'.course[k] = cache.course[k]
      /\ cache'.course[key] = stored.id
    BY <1>2, <1>3, <1>4, CourseCacheExtended
<1>6. known[key] = stored.name /\ key \in DOMAIN known
    OBVIOUS
<1>7. /\ more \in SUBSET ReportRecord
      /\ stored.name # Row.courseName =>
            \E r \in more : r.kind = "course_name" /\ r.key = key
                            /\ r.incoming = Row.courseName
    <2> HIDE DEF known, key
    <2>1. "course_name" \in Kinds /\ known[key] \in Name
        BY <1>3, <1>6 DEF Kinds
    <2> QED
        BY <1>2, <1>6, <2>1, Conflicts
<1>8. result' \in ResultRecord /\ result'.reports = result.reports \cup more
    <2> HIDE DEF more
    <2>1. result \in ResultRecord
        BY DEF TypeOK
    <2>2. result' = Found(result, "course", more)
        BY DEF more, Found
    <2>3. /\ Found(result, "course", more) \in ResultRecord
          /\ Found(result, "course", more).reports = result.reports \cup more
        BY <1>7, <2>1, FoundCounted
    <2> QED
        BY <2>2, <2>3
<1>9. \/ stored.name = Row.courseName
      \/ ReportedIn(result', "course_name", key, Row.courseName)
    BY <1>7, <1>8 DEF ReportedIn
<1> QED
    BY <1>1, <1>5, <1>8, <1>9 DEF CourseStep, TypeOK
LEMMA CourseCreated ==
    ASSUME TypeOK, ViewExtends, next \in DOMAIN parsed,
           Row.course \notin DOMAIN cache.course, Row.course \notin DOMAIN View.course,
           work' = [View EXCEPT !["course"] =
                       With(@, Row.course, [id |-> NewId(View.course),
                                             name |-> Row.courseName])],
           cache' = Remember("course", Row.course, NewId(View.course)),
           locked' = TRUE, result' = [result EXCEPT !.created["course"] = @ + 1]
    PROVE  CourseStep
<1> DEFINE key == Row.course
           id == NewId(View.course)
           new == WithRow(View.course, key, Row.courseName)
<1>1. View' = work' /\ IsDatabase(View)
    BY ViewIsDatabase DEF View
<1>2. key \in Course /\ Row.courseName \in Name /\ IsTable(View.course, Course)
    BY <1>1, RowTyped DEF IsDatabase
<1>3. /\ IsTable(new, Course) /\ Holds(new, View.course)
      /\ DOMAIN new = DOMAIN View.course \cup {key}
      /\ new[key].id = id /\ new[key].name = Row.courseName
    <2>1. key \notin DOMAIN View.course
        OBVIOUS
    <2> HIDE DEF key
    <2>2. HasNewRow(WithRow(View.course, key, Row.courseName), View.course, Course,
                    key, Row.courseName)
        BY <1>2, <2>1, RowAdded
    <2> QED
        BY <2>2 DEF HasNewRow
<1>4. id \in Nat
    BY <1>2, NewIdIsNew
<1> HIDE DEF new
<1>5. work' = CoursesNow(View, new)
    BY DEF new, WithRow, CoursesNow
<1>6. /\ IsDatabase(work') /\ Extends(work', View)
      /\ work'.course = new /\ work'.registrations = View.registrations
    <2>1. /\ IsDatabase(CoursesNow(View, new)) /\ Extends(CoursesNow(View, new), View)
          /\ CoursesNow(View, new).course = new
          /\ CoursesNow(View, new).registrations = View.registrations
        BY <1>1, <1>3, CoursesExtended
    <2> QED
        BY <1>5, <2>1
<1> HIDE DEF id
<1>7. /\ IsCache(cache') /\ cache'.student = cache.student
      /\ DOMAIN cache'.course = DOMAIN cache.course \cup {key}
      /\ \A k \in DOMAIN cache.course : cache'.course[k] = cache.course[k]
      /\ cache'.course[key] = id
    <2>1. IsCache(cache) /\ cache' = Remember("course", key, id)
        BY DEF TypeOK, id
    <2> QED
        BY <1>2, <1>4, <2>1, CourseCacheExtended
<1>8. result' \in ResultRecord /\ result'.reports = result.reports
    <2>1. result' = Made(result, "course") /\ result \in ResultRecord
        BY DEF Made, TypeOK
    <2>2. Made(result, "course") \in ResultRecord
          /\ Made(result, "course").reports = result.reports
        BY <2>1, MadeCounted
    <2> QED
        BY <2>1, <2>2
<1>9. key \in DOMAIN work'.course /\ work'.course[key].id = id
      /\ work'.course[key].name = Row.courseName
    BY <1>3, <1>6
<1> QED
    BY <1>1, <1>6, <1>7, <1>8, <1>9 DEF CourseStep

LEMMA CourseResolved ==
    ASSUME TypeOK, ViewExtends, RowsResolved, ResolveCourse
    PROVE  CourseStep
<1>1. next \in DOMAIN parsed /\ UNCHANGED db
    BY DEF ResolveCourse, RowsResolved, Resolving
<1>2. Resolve("course", "course_name", Row.course, Row.courseName)
    BY DEF ResolveCourse
<1>3. CASE Row.course \in DOMAIN cache.course
    BY <1>1, <1>2, <1>3, CourseCached DEF Resolve
<1>4. CASE Row.course \notin DOMAIN cache.course /\ Row.course \in DOMAIN View.course
    BY <1>1, <1>2, <1>4, CourseFound DEF Resolve
<1>5. CASE Row.course \notin DOMAIN cache.course /\ Row.course \notin DOMAIN View.course
    BY <1>1, <1>2, <1>5, CourseCreated DEF Resolve
<1> QED
    BY <1>3, <1>4, <1>5
-----------------------------------------------------------------------------
LEMMA ExtendsTransitive ==
    ASSUME NEW a, NEW b, NEW c, Extends(a, b), Extends(b, c)
    PROVE  Extends(a, c)
BY DEF Extends, Holds

LEMMA ReportedStays ==
    ASSUME result.reports \subseteq result'.reports,
           NEW kind, NEW key, NEW name, Reported(kind, key, name)
    PROVE  Reported(kind, key, name)'
BY DEF Reported

\* What was read stays as it is while rows are resolved.
LEMMA LinesStayRead ==
    ASSUME LinesRead, Resolving, ~Unreadable, UNCHANGED <<file, names, parsed>>,
           phase' # "parsing", result.reports \subseteq result'.reports
    PROVE  LinesRead'
<1>1. ReadSoFar = DOMAIN file.lines /\ ReadSoFar' = DOMAIN file.lines
    BY DEF ReadSoFar, Resolving
<1>2. ASSUME NEW kind, NEW known, NEW key, NEW name, Named(kind, known, key, name)
      PROVE  key \in DOMAIN known /\ (known[key] = name \/ Reported(kind, key, name)')
    BY <1>2, ReportedStays DEF Named
<1>3. \A l : Complete(l) <=> Complete(l)'
    BY DEF Complete
<1>4. LinesFound
    BY DEF LinesRead, Resolving
<1> QED
    BY <1>1, <1>2, <1>4 DEF LinesRead, LinesFound, Named, Complete

LEMMA ResolveStudentKeeps ==
    ASSUME IInv, ResolveStudent PROVE IInv'
<1>1. /\ TypeOK /\ ViewExtends /\ Stages /\ LinesRead /\ RowsResolved
      /\ CacheSound /\ RowsRegistered
    BY DEF IInv
<1>2. StudentStep
    BY <1>1, StudentResolved
<1>3. /\ phase = "student" /\ phase' = "course" /\ next \in DOMAIN parsed
      /\ UNCHANGED <<db, file, next, names, parsed, disturbed, imports, resets>>
    BY <1>1 DEF ResolveStudent, TypeOK
<1>4. Resolving /\ Resolving' /\ ~Unreadable /\ ~Unreadable' /\ Row' = Row
    BY <1>1, <1>3 DEF Stages, Resolving, Unreadable, Row
<1>5. TypeOK'
    BY <1>1, <1>2, <1>3 DEF TypeOK, StudentStep
<1>6. Stages'
    BY <1>3, <1>4 DEF Stages
<1>7. Extends(View', View) /\ Extends(View, db) /\ db' = db
      /\ IsDatabase(View) /\ IsDatabase(View')
    BY <1>1, <1>2, <1>3, ViewIsDatabase DEF StudentStep
<1>8. ViewExtends'
    <2>1. Extends(View', db)
        BY <1>7, ExtendsTransitive
    <2> QED
        BY <1>7, <2>1 DEF ViewExtends, View
<1>9. LinesRead'
    BY <1>1, <1>2, <1>3, <1>4, LinesStayRead DEF StudentStep
<1>10. RowsResolved'
    BY <1>1, <1>2, <1>3, <1>4 DEF RowsResolved, StudentStep
<1>11. CacheSound'
    <2> SUFFICES ASSUME ~disturbed PROVE CacheSound'
        BY <1>3 DEF CacheSound
    <2>1. /\ DOMAIN View.student \subseteq DOMAIN View'.student
          /\ DOMAIN View.course \subseteq DOMAIN View'.course
          /\ \A k \in DOMAIN View.student : View'.student[k] = View.student[k]
          /\ \A k \in DOMAIN View.course : View'.course[k] = View.course[k]
        BY <1>7 DEF Extends, Holds
    <2>2. ASSUME NEW k \in DOMAIN cache'.student
          PROVE  /\ k \in DOMAIN View'.student /\ cache'.student[k] = View'.student[k].id
                 /\ k \in DOMAIN names.student
                 /\ \/ View'.student[k].name = names.student[k]
                    \/ Reported("student_name", k, names.student[k])'
        <3>1. CASE k \in DOMAIN cache.student
            <4>1. /\ k \in DOMAIN View.student /\ cache.student[k] = View.student[k].id
                  /\ k \in DOMAIN names.student
                  /\ \/ View.student[k].name = names.student[k]
                     \/ Reported("student_name", k, names.student[k])
                BY <1>1, <1>4, <3>1 DEF CacheSound
            <4>2. cache'.student[k] = cache.student[k]
                BY <1>2, <3>1 DEF StudentStep
            <4>3. Reported("student_name", k, names.student[k]) =>
                    Reported("student_name", k, names.student[k])'
                BY <1>2, <1>3 DEF Reported, StudentStep
            <4> QED
                BY <2>1, <4>1, <4>2, <4>3
        <3>2. CASE k \notin DOMAIN cache.student
            <4>1. k = Row.student
                BY <1>2, <2>2, <3>2 DEF StudentStep
            <4>2. k \in DOMAIN names.student /\ Row.studentName = names.student[k]
                BY <1>1, <1>3, <1>4, <4>1 DEF LinesRead, LinesFound, Row, Resolving
            <4>3. /\ k \in DOMAIN View'.student
                  /\ cache'.student[k] = View'.student[k].id
                  /\ \/ View'.student[k].name = names.student[k]
                     \/ ReportedIn(result', "student_name", k, names.student[k])
                BY <1>2, <3>2, <4>1, <4>2 DEF StudentStep
            <4>4. ReportedIn(result', "student_name", k, names.student[k]) =>
                    Reported("student_name", k, names.student[k])'
                BY <1>3 DEF Reported, ReportedIn
            <4> QED
                BY <4>2, <4>3, <4>4
        <3> QED
            BY <3>1, <3>2
    <2>3. ASSUME NEW k \in DOMAIN cache'.course
          PROVE  /\ k \in DOMAIN View'.course /\ cache'.course[k] = View'.course[k].id
                 /\ k \in DOMAIN names.course
                 /\ \/ View'.course[k].name = names.course[k]
                    \/ Reported("course_name", k, names.course[k])'
        <3>1. cache'.course = cache.course /\ k \in DOMAIN cache.course
            BY <1>2, <2>3 DEF StudentStep
        <3>2. /\ k \in DOMAIN View.course /\ cache.course[k] = View.course[k].id
              /\ k \in DOMAIN names.course
              /\ \/ View.course[k].name = names.course[k]
                 \/ Reported("course_name", k, names.course[k])
            BY <1>1, <1>4, <3>1 DEF CacheSound
        <3>3. Reported("course_name", k, names.course[k]) =>
                Reported("course_name", k, names.course[k])'
            BY <1>2, <1>3 DEF Reported, StudentStep
        <3> QED
            BY <2>1, <3>1, <3>2, <3>3
    <2> QED
        BY <1>3, <2>2, <2>3 DEF CacheSound
<1>12. RowsRegistered'
    <2> SUFFICES ASSUME ~disturbed, Resolves(db) PROVE RowsRegistered'
        BY <1>3 DEF RowsRegistered, Resolves
    <2>1. View'.registrations = View.registrations
        BY <1>2 DEF StudentStep
    <2>2. Resolves(View)
          /\ \A s, c : Registered(View, s, c) <=>
               \/ Registered(db, s, c)
               \/ \E j \in DOMAIN parsed : j < next /\ parsed[j].student = s
                                           /\ parsed[j].course = c
        BY <1>1, <1>4 DEF RowsRegistered
    <2>3. Resolves(View')
          /\ \A s, c : Registered(View', s, c) <=> Registered(View, s, c)
        BY <1>7, <2>1, <2>2, NewRowsUnregistered
    <2>4. \A s, c : Registered(db, s, c)' <=> Registered(db, s, c)
        BY <1>3 DEF Registered
    <2>5. \A s, c : Registered(View, s, c)' <=> Registered(View', s, c)
        BY DEF Registered
    <2>6. Resolves(View)'
        BY <2>3 DEF Resolves
    <2> QED
        BY <1>3, <2>2, <2>3, <2>4, <2>5, <2>6 DEF RowsRegistered
<1>13. EveryDisagreementReported'
    BY <1>3 DEF EveryDisagreementReported
<1> QED
    BY <1>5, <1>6, <1>8, <1>9, <1>10, <1>11, <1>12, <1>13 DEF IInv

LEMMA ResolveCourseKeeps ==
    ASSUME IInv, ResolveCourse PROVE IInv'
<1>1. /\ TypeOK /\ ViewExtends /\ Stages /\ LinesRead /\ RowsResolved
      /\ CacheSound /\ RowsRegistered
    BY DEF IInv
<1>2. CourseStep
    BY <1>1, CourseResolved
<1>3. /\ phase = "course" /\ phase' = "registration" /\ next \in DOMAIN parsed
      /\ UNCHANGED <<db, file, next, names, parsed, disturbed, imports, resets>>
    BY <1>1 DEF ResolveCourse, RowsResolved, Resolving
<1>4. Resolving /\ Resolving' /\ ~Unreadable /\ ~Unreadable' /\ Row' = Row
    BY <1>1, <1>3 DEF Stages, Resolving, Unreadable, Row
<1>5. TypeOK'
    BY <1>1, <1>2, <1>3 DEF TypeOK, CourseStep
<1>6. Stages'
    BY <1>3, <1>4 DEF Stages
<1>7. Extends(View', View) /\ Extends(View, db) /\ db' = db
      /\ IsDatabase(View) /\ IsDatabase(View')
    BY <1>1, <1>2, <1>3, ViewIsDatabase DEF CourseStep
<1>8. ViewExtends'
    <2>1. Extends(View', db)
        BY <1>7, ExtendsTransitive
    <2> QED
        BY <1>7, <2>1 DEF ViewExtends, View
<1>9. LinesRead'
    BY <1>1, <1>2, <1>3, <1>4, LinesStayRead DEF CourseStep
<1>10. RowsResolved'
    BY <1>1, <1>2, <1>3, <1>4 DEF RowsResolved, CourseStep
<1>11. CacheSound'
    <2> SUFFICES ASSUME ~disturbed PROVE CacheSound'
        BY <1>3 DEF CacheSound
    <2>1. /\ DOMAIN View.course \subseteq DOMAIN View'.course
          /\ DOMAIN View.student \subseteq DOMAIN View'.student
          /\ \A k \in DOMAIN View.course : View'.course[k] = View.course[k]
          /\ \A k \in DOMAIN View.student : View'.student[k] = View.student[k]
        BY <1>7 DEF Extends, Holds
    <2>2. ASSUME NEW k \in DOMAIN cache'.course
          PROVE  /\ k \in DOMAIN View'.course /\ cache'.course[k] = View'.course[k].id
                 /\ k \in DOMAIN names.course
                 /\ \/ View'.course[k].name = names.course[k]
                    \/ Reported("course_name", k, names.course[k])'
        <3>1. CASE k \in DOMAIN cache.course
            <4>1. /\ k \in DOMAIN View.course /\ cache.course[k] = View.course[k].id
                  /\ k \in DOMAIN names.course
                  /\ \/ View.course[k].name = names.course[k]
                     \/ Reported("course_name", k, names.course[k])
                BY <1>1, <1>4, <3>1 DEF CacheSound
            <4>2. cache'.course[k] = cache.course[k]
                BY <1>2, <3>1 DEF CourseStep
            <4>3. Reported("course_name", k, names.course[k]) =>
                    Reported("course_name", k, names.course[k])'
                BY <1>2, <1>3 DEF Reported, CourseStep
            <4> QED
                BY <2>1, <4>1, <4>2, <4>3
        <3>2. CASE k \notin DOMAIN cache.course
            <4>1. k = Row.course
                BY <1>2, <2>2, <3>2 DEF CourseStep
            <4>2. k \in DOMAIN names.course /\ Row.courseName = names.course[k]
                BY <1>1, <1>3, <1>4, <4>1 DEF LinesRead, LinesFound, Row, Resolving
            <4>3. /\ k \in DOMAIN View'.course
                  /\ cache'.course[k] = View'.course[k].id
                  /\ \/ View'.course[k].name = names.course[k]
                     \/ ReportedIn(result', "course_name", k, names.course[k])
                BY <1>2, <3>2, <4>1, <4>2 DEF CourseStep
            <4>4. ReportedIn(result', "course_name", k, names.course[k]) =>
                    Reported("course_name", k, names.course[k])'
                BY <1>3 DEF Reported, ReportedIn
            <4> QED
                BY <4>2, <4>3, <4>4
        <3> QED
            BY <3>1, <3>2
    <2>3. ASSUME NEW k \in DOMAIN cache'.student
          PROVE  /\ k \in DOMAIN View'.student /\ cache'.student[k] = View'.student[k].id
                 /\ k \in DOMAIN names.student
                 /\ \/ View'.student[k].name = names.student[k]
                    \/ Reported("student_name", k, names.student[k])'
        <3>1. cache'.student = cache.student /\ k \in DOMAIN cache.student
            BY <1>2, <2>3 DEF CourseStep
        <3>2. /\ k \in DOMAIN View.student /\ cache.student[k] = View.student[k].id
              /\ k \in DOMAIN names.student
              /\ \/ View.student[k].name = names.student[k]
                 \/ Reported("student_name", k, names.student[k])
            BY <1>1, <1>4, <3>1 DEF CacheSound
        <3>3. Reported("student_name", k, names.student[k]) =>
                Reported("student_name", k, names.student[k])'
            BY <1>2, <1>3 DEF Reported, CourseStep
        <3> QED
            BY <2>1, <3>1, <3>2, <3>3
    <2> QED
        BY <1>3, <2>2, <2>3 DEF CacheSound
<1>12. RowsRegistered'
    <2> SUFFICES ASSUME ~disturbed, Resolves(db) PROVE RowsRegistered'
        BY <1>3 DEF RowsRegistered, Resolves
    <2>1. View'.registrations = View.registrations
        BY <1>2 DEF CourseStep
    <2>2. Resolves(View)
          /\ \A s, c : Registered(View, s, c) <=>
               \/ Registered(db, s, c)
               \/ \E j \in DOMAIN parsed : j < next /\ parsed[j].student = s
                                           /\ parsed[j].course = c
        BY <1>1, <1>4 DEF RowsRegistered
    <2>3. Resolves(View')
          /\ \A s, c : Registered(View', s, c) <=> Registered(View, s, c)
        BY <1>7, <2>1, <2>2, NewRowsUnregistered
    <2>4. \A s, c : Registered(db, s, c)' <=> Registered(db, s, c)
        BY <1>3 DEF Registered
    <2>5. \A s, c : Registered(View, s, c)' <=> Registered(View', s, c)
        BY DEF Registered
    <2>6. Resolves(View)'
        BY <2>3 DEF Resolves
    <2> QED
        BY <1>3, <2>2, <2>3, <2>4, <2>5, <2>6 DEF RowsRegistered
<1>13. EveryDisagreementReported'
    BY <1>3 DEF EveryDisagreementReported
<1> QED
    BY <1>5, <1>6, <1>8, <1>9, <1>10, <1>11, <1>12, <1>13 DEF IInv
-----------------------------------------------------------------------------
PairNow(d, pair) == [d EXCEPT !.registrations = @ \cup {pair}]

LEMMA PairTyped ==
    ASSUME NEW d, IsDatabase(d), NEW pair \in Nat \X Nat
    PROVE  /\ IsDatabase(PairNow(d, pair))
           /\ PairNow(d, pair).student = d.student /\ PairNow(d, pair).course = d.course
           /\ PairNow(d, pair).registrations = d.registrations \cup {pair}
<1>1. PairNow(d, pair) = [student |-> d.student, course |-> d.course,
                          registrations |-> d.registrations \cup {pair}]
    BY DEF IsDatabase, PairNow
<1>2. /\ PairNow(d, pair).student = d.student /\ PairNow(d, pair).course = d.course
      /\ PairNow(d, pair).registrations = d.registrations \cup {pair}
    BY <1>1
<1> QED
    BY <1>1, <1>2 DEF IsDatabase

\* What a step that resolves the registration of a row does.
PairStep ==
    LET pair == <<cache.student[Row.student], cache.course[Row.course]>>
    IN  /\ IsDatabase(work') /\ locked' \in BOOLEAN /\ IsDatabase(View')
        /\ View'.student = View.student /\ View'.course = View.course
        /\ View'.registrations = View.registrations \cup {pair}
        /\ result' \in ResultRecord /\ result'.reports = result.reports

LEMMA ExistingTyped ==
    ASSUME NEW r \in ResultRecord
    PROVE  /\ [r EXCEPT !.existing.registration = @ + 1] \in ResultRecord
           /\ [r EXCEPT !.existing.registration = @ + 1].reports = r.reports
<1> DEFINE n == r.existing.registration + 1
<1>1. r.existing \in Counts /\ n \in Nat
    BY DEF ResultRecord, Counts
<1> HIDE DEF n
<1>2. [r.existing EXCEPT !.registration = n] \in Counts
    BY <1>1 DEF Counts
<1>3. [r EXCEPT !.existing = [r.existing EXCEPT !.registration = n]] \in ResultRecord
    BY <1>2 DEF ResultRecord
<1>4. [r EXCEPT !.existing = [r.existing EXCEPT !.registration = n]].reports = r.reports
    BY DEF ResultRecord
<1> QED
    BY <1>3, <1>4 DEF n

LEMMA RegistrationResolved ==
    ASSUME TypeOK, ViewExtends, RowsResolved, ResolveRegistration
    PROVE  PairStep
<1> DEFINE pair == <<cache.student[Row.student], cache.course[Row.course]>>
<1>1. pair \in Nat \X Nat
    <2>1. Row.student \in DOMAIN cache.student /\ Row.course \in DOMAIN cache.course
        BY DEF RowsResolved, ResolveRegistration, Resolving
    <2>2. cache.student[Row.student] \in Nat /\ cache.course[Row.course] \in Nat
        BY <2>1 DEF TypeOK, IsCache
    <2> QED
        BY <2>2
<1>2. IsDatabase(View) /\ result \in ResultRecord
    BY ViewIsDatabase DEF TypeOK
<1>3. CASE pair \in View.registrations
    <2>1. /\ result' = [result EXCEPT !.existing.registration = @ + 1]
          /\ View' = View /\ UNCHANGED <<work, locked>>
        BY <1>3 DEF ResolveRegistration, View
    <2>2. result' \in ResultRecord /\ result'.reports = result.reports
        BY <1>2, <2>1, ExistingTyped
    <2> HIDE DEF pair
    <2>3. View.registrations = View.registrations \cup {pair}
        BY <1>3
    <2>4. IsDatabase(work') /\ locked' \in BOOLEAN
        BY <2>1 DEF TypeOK
    <2> QED
        BY <1>2, <2>1, <2>2, <2>3, <2>4 DEF PairStep, pair
<1>4. CASE pair \notin View.registrations
    <2>1. /\ result' = [result EXCEPT !.created.registration = @ + 1]
          /\ work' = PairNow(View, pair) /\ locked' = TRUE
        BY <1>4 DEF ResolveRegistration, PairNow
    <2>2. result' \in ResultRecord /\ result'.reports = result.reports
        <3>1. result' = Made(result, "registration")
            BY <2>1 DEF Made
        <3>2. Made(result, "registration") \in ResultRecord
              /\ Made(result, "registration").reports = result.reports
            BY <1>2, MadeCounted
        <3> QED
            BY <3>1, <3>2
    <2>3. View' = work'
        BY <2>1 DEF View
    <2> HIDE DEF pair
    <2>4. /\ IsDatabase(PairNow(View, pair))
          /\ PairNow(View, pair).student = View.student
          /\ PairNow(View, pair).course = View.course
          /\ PairNow(View, pair).registrations = View.registrations \cup {pair}
        BY <1>1, <1>2, PairTyped
    <2> QED
        BY <2>1, <2>2, <2>3, <2>4 DEF PairStep, pair
<1> QED
    BY <1>3, <1>4
LEMMA ResolveRegistrationKeeps ==
    ASSUME IInv, ResolveRegistration PROVE IInv'
<1>1. /\ TypeOK /\ ViewExtends /\ Stages /\ LinesRead /\ RowsResolved
      /\ CacheSound /\ RowsRegistered
    BY DEF IInv
<1>2. PairStep
    BY <1>1, RegistrationResolved
<1>3. /\ phase = "registration" /\ phase' = "student" /\ next' = next + 1
      /\ next \in DOMAIN parsed /\ Row.student \in DOMAIN cache.student
      /\ Row.course \in DOMAIN cache.course
      /\ UNCHANGED <<db, file, names, parsed, cache, disturbed, imports, resets>>
    BY <1>1 DEF ResolveRegistration, RowsResolved, Resolving
<1>4. Resolving /\ Resolving' /\ ~Unreadable /\ ~Unreadable'
    BY <1>1, <1>3 DEF Stages, Resolving, Unreadable
<1>5. /\ View'.student = View.student /\ View'.course = View.course
      /\ View'.registrations = View.registrations
            \cup {<<cache.student[Row.student], cache.course[Row.course]>>}
      /\ result'.reports = result.reports
    BY <1>2 DEF PairStep
<1>6. next \in Nat /\ next' \in Nat \ {0} /\ \A j \in DOMAIN parsed : j \in Nat
    BY <1>1, <1>3 DEF TypeOK
<1>7. \A j \in DOMAIN parsed : j < next' <=> j < next \/ j = next
    BY <1>3, <1>6
<1>8. TypeOK'
    BY <1>1, <1>2, <1>3, <1>6 DEF TypeOK, PairStep
<1>9. Stages'
    BY <1>3, <1>4 DEF Stages
<1>10. IsDatabase(View) /\ Extends(View, db)
    BY <1>1, ViewIsDatabase
<1>11. ViewExtends'
    <2>1. Extends(View', db)
        BY <1>5, <1>10 DEF Extends
    <2> QED
        BY <1>3, <2>1 DEF ViewExtends, View
<1>12. LinesRead'
    BY <1>1, <1>3, <1>4, <1>5, LinesStayRead
<1>13. RowsResolved'
    BY <1>1, <1>3, <1>4, <1>7 DEF RowsResolved, Row
<1>14. \A kind, key, name : Reported(kind, key, name)' <=> Reported(kind, key, name)
    BY <1>5 DEF Reported
<1>15. CacheSound'
    <2> SUFFICES ASSUME ~disturbed PROVE CacheSound'
        BY <1>3 DEF CacheSound
    <2>1. /\ \A k \in DOMAIN cache.student :
                /\ k \in DOMAIN View.student /\ cache.student[k] = View.student[k].id
                /\ k \in DOMAIN names.student
                /\ \/ View.student[k].name = names.student[k]
                   \/ Reported("student_name", k, names.student[k])
          /\ \A k \in DOMAIN cache.course :
                /\ k \in DOMAIN View.course /\ cache.course[k] = View.course[k].id
                /\ k \in DOMAIN names.course
                /\ \/ View.course[k].name = names.course[k]
                   \/ Reported("course_name", k, names.course[k])
        BY <1>1, <1>4 DEF CacheSound
    <2> QED
        BY <1>3, <1>5, <1>14, <2>1 DEF CacheSound, Reported
<1>16. RowsRegistered'
    <2> SUFFICES ASSUME ~disturbed, Resolves(db) PROVE RowsRegistered'
        BY <1>3 DEF RowsRegistered, Resolves
    <2>1. Resolves(View)
          /\ \A s, c : Registered(View, s, c) <=>
               \/ Registered(db, s, c)
               \/ \E j \in DOMAIN parsed : j < next /\ parsed[j].student = s
                                           /\ parsed[j].course = c
        BY <1>1, <1>4 DEF RowsRegistered
    <2>2. /\ Row.student \in DOMAIN View.student /\ Row.course \in DOMAIN View.course
          /\ cache.student[Row.student] = View.student[Row.student].id
          /\ cache.course[Row.course] = View.course[Row.course].id
        BY <1>1, <1>3, <1>4 DEF CacheSound
    <2>3. Resolves(View')
          /\ \A s, c : Registered(View', s, c) <=>
               Registered(View, s, c) \/ (s = Row.student /\ c = Row.course)
        BY <1>5, <1>10, <2>1, <2>2, PairAdded
    <2>4. \A s, c : Registered(db, s, c)' <=> Registered(db, s, c)
        BY <1>3 DEF Registered
    <2>5. \A s, c : Registered(View, s, c)' <=> Registered(View', s, c)
        BY DEF Registered
    <2>6. Resolves(View)'
        BY <2>3 DEF Resolves
    <2>7. ASSUME NEW s, NEW c
          PROVE  (\E j \in DOMAIN parsed : j < next' /\ parsed[j].student = s
                                           /\ parsed[j].course = c)
                 <=> \/ \E j \in DOMAIN parsed : j < next /\ parsed[j].student = s
                                                 /\ parsed[j].course = c
                     \/ s = Row.student /\ c = Row.course
        BY <1>3, <1>7 DEF Row
    <2> QED
        BY <1>3, <2>1, <2>3, <2>4, <2>5, <2>6, <2>7 DEF RowsRegistered
<1>17. EveryDisagreementReported'
    BY <1>3 DEF EveryDisagreementReported
<1> QED
    BY <1>8, <1>9, <1>11, <1>12, <1>13, <1>15, <1>16, <1>17 DEF IInv

LEMMA CommitKeeps ==
    ASSUME IInv, Commit PROVE IInv'
<1>1. /\ TypeOK /\ ViewExtends /\ Stages /\ LinesRead /\ RowsResolved
      /\ CacheSound /\ RowsRegistered
    BY DEF IInv
<1>2. /\ phase = "student" /\ phase' = "done" /\ locked' = FALSE /\ db' = View
      /\ next > Len(parsed)
      /\ result' = [result EXCEPT !.status =
                       IF result.reports = {} THEN "success" ELSE "partial"]
      /\ UNCHANGED <<work, file, next, names, parsed, cache, disturbed, imports, resets>>
    BY DEF Commit
<1>3. result' \in ResultRecord /\ result'.reports = result.reports
    <2>1. result \in ResultRecord
        BY <1>1 DEF TypeOK
    <2>2. PICK s \in {"success", "partial", "failed"} :
              result' = [result EXCEPT !.status = s]
        BY <1>2
    <2> QED
        BY <2>1, <2>2 DEF ResultRecord
<1>4. Resolving /\ ~Resolving' /\ ~Unreadable /\ ~Unreadable'
    BY <1>1, <1>2 DEF Stages, Resolving, Unreadable
<1>5. IsDatabase(View)
    BY <1>1, ViewIsDatabase
<1>6. TypeOK'
    BY <1>1, <1>2, <1>3, <1>5 DEF TypeOK
<1>7. Stages' /\ ViewExtends' /\ RowsResolved' /\ CacheSound' /\ RowsRegistered'
    BY <1>2, <1>4 DEF Stages, ViewExtends, RowsResolved, CacheSound, RowsRegistered
<1>8. LinesRead'
    BY <1>1, <1>2, <1>3, <1>4, LinesStayRead
<1>9. EveryDisagreementReported'
    <2> SUFFICES ASSUME ~disturbed, NEW i \in Accepted
                 PROVE  LET l == file.lines[i]
                        IN  /\ l.student \in DOMAIN View.student =>
                                 \/ View.student[l.student].name = l.studentName
                                 \/ Reported("student_name", l.student, l.studentName)
                            /\ l.course \in DOMAIN View.course =>
                                 \/ View.course[l.course].name = l.courseName
                                 \/ Reported("course_name", l.course, l.courseName)
        BY <1>2, <1>3 DEF EveryDisagreementReported, Accepted, Complete, Reported
    <2> DEFINE l == file.lines[i]
    <2>1. /\ Named("student_name", names.student, l.student, l.studentName)
          /\ Named("course_name", names.course, l.course, l.courseName)
          /\ \E j \in DOMAIN parsed : parsed[j].student = l.student
                                      /\ parsed[j].course = l.course
        BY <1>1, <1>2, <1>4 DEF LinesRead, LinesFound, ReadSoFar, Accepted
    <2> HIDE DEF l
    <2>2. PICK j \in DOMAIN parsed : parsed[j].student = l.student
                                     /\ parsed[j].course = l.course
        BY <2>1
    <2>3. j < next
        BY <1>1, <1>2 DEF TypeOK
    <2>4. l.student \in DOMAIN cache.student /\ l.course \in DOMAIN cache.course
        BY <1>1, <1>4, <2>2, <2>3 DEF RowsResolved
    <2>5. /\ \/ View.student[l.student].name = names.student[l.student]
             \/ Reported("student_name", l.student, names.student[l.student])
          /\ \/ View.course[l.course].name = names.course[l.course]
             \/ Reported("course_name", l.course, names.course[l.course])
        BY <1>1, <1>4, <2>4 DEF CacheSound
    <2> QED
        BY <2>1, <2>5 DEF Named, l
<1> QED
    BY <1>6, <1>7, <1>8, <1>9 DEF IInv
-----------------------------------------------------------------------------
LEMMA WithAdds ==
    ASSUME NEW f, NEW key, NEW value
    PROVE  /\ DOMAIN With(f, key, value) = DOMAIN f \cup {key}
           /\ With(f, key, value) = [k \in DOMAIN f \cup {key} |-> With(f, key, value)[k]]
           /\ \A k \in DOMAIN f : With(f, key, value)[k] = f[k]
           /\ key \notin DOMAIN f => With(f, key, value)[key] = value
BY DEF With

\* Only what is parsed or resolved from here on is in the way of the other conjuncts.
LEMMA NotYetResolving ==
    ASSUME IInv, phase' \in {"idle", "parsing"}, ~Resolving,
           UNCHANGED <<db, work, locked>>
    PROVE  /\ (locked = FALSE) /\ ViewExtends' /\ RowsResolved' /\ CacheSound'
           /\ RowsRegistered' /\ EveryDisagreementReported' /\ ~Resolving'
<1>1. ~Resolving' /\ locked = FALSE /\ phase' # "done"
    BY DEF Resolving, IInv, Stages, TypeOK
<1> QED
    BY <1>1 DEF ViewExtends, RowsResolved, CacheSound, RowsRegistered,
       EveryDisagreementReported

LEMMA BeginImportKeeps ==
    ASSUME IInv, BeginImport PROVE IInv'
<1>1. /\ phase \in {"idle", "done"} /\ phase' = "parsing" /\ file' \in Files /\ next' = 1
      /\ names' = Nothing /\ parsed' = <<>> /\ cache' = Nothing /\ result' = EmptyResult
      /\ disturbed' = FALSE /\ imports' = imports + 1
      /\ UNCHANGED <<db, work, locked, resets>>
    BY DEF BeginImport
<1>2. /\ locked = FALSE /\ ViewExtends' /\ RowsResolved' /\ CacheSound'
      /\ RowsRegistered' /\ EveryDisagreementReported' /\ ~Resolving'
    BY <1>1, NotYetResolving DEF Resolving
<1>3. IsNames(Nothing) /\ IsCache(Nothing)
    BY DEF IsNames, IsCache, Nothing
<1>4. EmptyResult \in ResultRecord
    BY DEF EmptyResult, ResultRecord, Counts
<1>5. file'.required \in BOOLEAN /\ file'.broken \in BOOLEAN /\ file'.lines \in Seq(Line)
    BY <1>1, FilesAreTyped DEF FilesAssumption
<1>6. TypeOK /\ TypeOK'
    <2>1. TypeOK
        BY DEF IInv
    <2>2. imports' \in Nat /\ next' \in Nat \ {0} /\ parsed' \in Seq(ParsedRow)
        BY <1>1, <2>1 DEF TypeOK
    <2> QED
        BY <1>1, <1>3, <1>4, <1>5, <2>1, <2>2 DEF TypeOK
<1>7. Stages'
    BY <1>1, <1>2 DEF Stages
<1>8. LinesRead'
    <2>1. ReadSoFar' = {} /\ DOMAIN parsed' = {}
        BY <1>1 DEF ReadSoFar
    <2> QED
        BY <2>1 DEF LinesRead, LinesFound
<1> QED
    BY <1>2, <1>6, <1>7, <1>8 DEF IInv

LEMMA RejectFileKeeps ==
    ASSUME IInv, RejectFile PROVE IInv'
<1>1. /\ phase = "parsing" /\ phase' = "done" /\ Unreadable /\ Unreadable'
      /\ result' = [result EXCEPT !.status = "failed", !.reports = {ErrorAt(0)}]
      /\ UNCHANGED <<db, work, locked, file, next, names, parsed, cache, disturbed,
                     imports, resets>>
    BY DEF RejectFile, Unreadable
<1>2. TypeOK /\ result \in ResultRecord /\ ~Resolving /\ ~Resolving' /\ locked = FALSE
    BY <1>1 DEF IInv, TypeOK, Resolving, Stages
<1>3. ErrorAt(0) \in ReportRecord
    BY DEF ErrorAt, Report, ReportRecord, Kinds
<1>4. result' \in ResultRecord
    <2> DEFINE e == ErrorAt(0)
    <2> HIDE DEF e
    <2>1. result' = [result EXCEPT !.status = "failed", !.reports = {e}] /\ e \in ReportRecord
        BY <1>1, <1>3 DEF e
    <2> QED
        BY <1>2, <2>1 DEF ResultRecord
<1>5. TypeOK'
    BY <1>1, <1>2, <1>4 DEF TypeOK
<1> QED
    BY <1>1, <1>2, <1>5 DEF IInv, Stages, ViewExtends, LinesRead, RowsResolved, CacheSound,
       RowsRegistered, EveryDisagreementReported

LEMMA ErrorAdded ==
    ASSUME NEW n \in Nat, result \in ResultRecord,
           result' = [result EXCEPT !.reports = @ \cup {ErrorAt(n)}]
    PROVE  result' \in ResultRecord /\ result.reports \subseteq result'.reports
<1> DEFINE e == ErrorAt(n)
<1>1. e \in ReportRecord
    BY DEF ErrorAt, Report, ReportRecord, Kinds
<1> HIDE DEF e
<1>2. result' = [result EXCEPT !.reports = @ \cup {e}]
    BY DEF e
<1> QED
    BY <1>1, <1>2 DEF ResultRecord

LEMMA RejectLineKeeps ==
    ASSUME IInv, RejectLine PROVE IInv'
<1>1. /\ phase = "parsing" /\ phase' = "parsing" /\ ~Unreadable /\ ~Unreadable'
      /\ next <= Len(file.lines) /\ ~Complete(file.lines[next]) /\ next' = next + 1
      /\ result' = [result EXCEPT !.reports = @ \cup {ErrorAt(next)}]
      /\ UNCHANGED <<db, work, locked, phase, file, names, parsed, cache, disturbed,
                     imports, resets>>
    BY DEF RejectLine, Parsing, Unreadable
<1>2. TypeOK /\ LinesRead /\ Stages /\ result \in ResultRecord /\ next \in Nat \ {0}
      /\ file.lines \in Seq(Line)
    BY DEF IInv, TypeOK
<1>3. ViewExtends' /\ RowsResolved' /\ CacheSound'
      /\ RowsRegistered' /\ EveryDisagreementReported' /\ ~Resolving'
    BY <1>1, NotYetResolving DEF Resolving
<1>4. result' \in ResultRecord /\ result.reports \subseteq result'.reports
    BY <1>1, <1>2, ErrorAdded
<1>5. next' \in Nat \ {0} /\ ReadSoFar' = ReadSoFar \cup {next} /\ next \in DOMAIN file.lines
    BY <1>1, <1>2 DEF ReadSoFar
<1>6. TypeOK'
    BY <1>1, <1>2, <1>4, <1>5 DEF TypeOK
<1>7. Stages'
    BY <1>1, <1>2, <1>3 DEF Stages, Resolving
<1>8. LinesRead'
    <2>1. LinesFound
        BY <1>1, <1>2 DEF LinesRead
    <2>2. ASSUME NEW kind, NEW known, NEW key, NEW name, Named(kind, known, key, name)
          PROVE  key \in DOMAIN known /\ (known[key] = name \/ Reported(kind, key, name)')
        BY <1>4, <2>2, ReportedStays DEF Named
    <2> QED
        BY <1>1, <1>5, <2>1, <2>2 DEF LinesRead, LinesFound, Named, Complete
<1> QED
    BY <1>3, <1>6, <1>7, <1>8 DEF IInv

LEMMA EndOfFileKeeps ==
    ASSUME IInv, EndOfFile PROVE IInv'
<1>1. /\ phase = "parsing" /\ phase' = "student" /\ ~Unreadable /\ ~Unreadable'
      /\ next > Len(file.lines) /\ next' = 1
      /\ UNCHANGED <<db, work, locked, file, names, parsed, cache, disturbed, imports, resets>>
    BY DEF EndOfFile, Unreadable
<1>2. TypeOK /\ LinesRead /\ result \in ResultRecord /\ next \in Nat \ {0}
      /\ file.lines \in Seq(Line) /\ locked = FALSE /\ cache = Nothing /\ parsed \in Seq(ParsedRow)
    BY <1>1 DEF IInv, TypeOK, Stages, Resolving
<1>3. result' \in ResultRecord /\ result.reports \subseteq result'.reports
    <2>1. CASE file.broken
        <3>1. result' = [result EXCEPT !.reports = @ \cup {ErrorAt(0)}]
            BY <2>1 DEF EndOfFile
        <3> QED
            BY <1>2, <3>1, ErrorAdded
    <2>2. CASE ~file.broken
        BY <1>2, <2>2 DEF EndOfFile
    <2> QED
        BY <2>1, <2>2
<1>4. next' \in Nat \ {0}
    BY <1>1
<1>5. TypeOK'
    BY <1>1, <1>2, <1>3, <1>4 DEF TypeOK
<1>6. Stages' /\ ViewExtends' /\ EveryDisagreementReported'
    BY <1>1, <1>2 DEF Stages, ViewExtends, EveryDisagreementReported, Resolving
<1>7. ReadSoFar' = DOMAIN file.lines
      /\ \A i \in DOMAIN file.lines : i \in ReadSoFar
    BY <1>1, <1>2 DEF ReadSoFar
<1>8. LinesRead'
    <2>1. LinesFound
        BY <1>1, <1>2 DEF LinesRead
    <2>2. ASSUME NEW kind, NEW known, NEW key, NEW name, Named(kind, known, key, name)
          PROVE  key \in DOMAIN known /\ (known[key] = name \/ Reported(kind, key, name)')
        BY <1>3, <2>2, ReportedStays DEF Named
    <2> QED
        BY <1>1, <1>7, <2>1, <2>2 DEF LinesRead, LinesFound, Named, Complete
<1>9. View' = View /\ View = db /\ \A j \in DOMAIN parsed : ~(j < next')
    BY <1>1, <1>2 DEF View
<1>10. RowsResolved' /\ CacheSound'
    BY <1>1, <1>2, <1>9 DEF RowsResolved, CacheSound, Nothing
<1>11. RowsRegistered'
    BY <1>1, <1>2, <1>9 DEF RowsRegistered, View, Resolves, Registered
<1> QED
    BY <1>5, <1>6, <1>8, <1>10, <1>11 DEF IInv
\* The names of the file after one more line.
Learned(known, key, name) == With(known, key, name)

IsLearned(new, known, key, name) ==
    /\ new \in [DOMAIN new -> Name] /\ DOMAIN new = DOMAIN known \cup {key}
    /\ \A k \in DOMAIN known : new[k] = known[k]
    /\ new[key] # name => key \in DOMAIN known /\ known[key] # name

LEMMA LineNamed ==
    ASSUME NEW known, known \in [DOMAIN known -> Name], NEW key, NEW name \in Name
    PROVE  IsLearned(Learned(known, key, name), known, key, name)
<1> DEFINE new == With(known, key, name)
<1>1. /\ DOMAIN new = DOMAIN known \cup {key}
      /\ new = [k \in DOMAIN known \cup {key} |-> new[k]]
      /\ \A k \in DOMAIN known : new[k] = known[k]
      /\ key \notin DOMAIN known => new[key] = name
    BY WithAdds
<1> HIDE DEF new
<1>2. \A k \in DOMAIN new : new[k] \in Name
    BY <1>1
<1>3. new \in [DOMAIN new -> Name]
    BY <1>1, <1>2
<1>4. new[key] # name => key \in DOMAIN known /\ known[key] # name
    BY <1>1
<1> QED
    BY <1>1, <1>3, <1>4 DEF IsLearned, Learned, new

LEMMA ConflictsReported ==
    ASSUME NEW kind \in Kinds, NEW line \in Nat, NEW key \in Student \cup Course,
           NEW known, known \in [DOMAIN known -> Name], NEW name \in Name
    PROVE  /\ NameConflict(kind, line, known, key, name) \in SUBSET ReportRecord
           /\ key \in DOMAIN known /\ known[key] # name =>
                 \E r \in NameConflict(kind, line, known, key, name) :
                    r.kind = kind /\ r.key = key /\ r.incoming = name
<1>1. CASE key \in DOMAIN known
    BY <1>1, Conflicts
<1>2. CASE key \notin DOMAIN known
    BY <1>2 DEF NameConflict
<1> QED
    BY <1>1, <1>2

\* The result after a line that was read.
LineResult(r, more, seen) ==
    [r EXCEPT !.reports = @ \cup more, !.duplicates = IF seen THEN @ + 1 ELSE @]

LEMMA LineCounted ==
    ASSUME NEW r \in ResultRecord, NEW more \in SUBSET ReportRecord, NEW seen
    PROVE  /\ LineResult(r, more, seen) \in ResultRecord
           /\ LineResult(r, more, seen).reports = r.reports \cup more
<1> DEFINE n == IF seen THEN r.duplicates + 1 ELSE r.duplicates
<1>1. n \in Nat
    BY DEF ResultRecord
<1>2. LineResult(r, more, seen) = [r EXCEPT !.reports = r.reports \cup more, !.duplicates = n]
    BY DEF LineResult
<1> HIDE DEF n
<1> QED
    BY <1>1, <1>2 DEF ResultRecord

\* What a step that reads the complete line l does.
LineStep(l, more) ==
    /\ l \in Line /\ Complete(l) /\ l = file.lines[next]
    /\ names' = [student |-> Learned(names.student, l.student, l.studentName),
                 course |-> Learned(names.course, l.course, l.courseName)]
    /\ more = NameConflict("student_name", next, names.student, l.student, l.studentName)
              \cup NameConflict("course_name", next, names.course, l.course, l.courseName)
    /\ result' = LineResult(result, more, Seen(l))
    /\ parsed' = IF Seen(l) THEN parsed
                 ELSE Append(parsed, [line |-> next,
                         student |-> l.student,
                         studentName |-> Learned(names.student, l.student, l.studentName)[l.student],
                         course |-> l.course,
                         courseName |-> Learned(names.course, l.course, l.courseName)[l.course]])

LEMMA LineIsRead ==
    ASSUME TypeOK, ReadLine
    PROVE  \E l, more : LineStep(l, more)
<1> DEFINE l == file.lines[next]
           more == NameConflict("student_name", next, names.student, l.student, l.studentName)
                   \cup NameConflict("course_name", next, names.course, l.course, l.courseName)
<1>1. l \in Line /\ Complete(l)
    BY DEF ReadLine, Parsing, TypeOK
<1>2. LineStep(l, more)
    BY <1>1 DEF ReadLine, LineStep, Learned, LineResult
<1> QED
    BY <1>2

LEMMA LineNames ==
    ASSUME NEW l, NEW more, TypeOK, LineStep(l, more)
    PROVE  /\ l.student \in Student /\ l.studentName \in Name
           /\ l.course \in Course /\ l.courseName \in Name
           /\ IsNames(names')
           /\ DOMAIN names'.student = DOMAIN names.student \cup {l.student}
           /\ DOMAIN names'.course = DOMAIN names.course \cup {l.course}
           /\ \A k \in DOMAIN names.student : names'.student[k] = names.student[k]
           /\ \A k \in DOMAIN names.course : names'.course[k] = names.course[k]
           /\ result' \in ResultRecord /\ result.reports \subseteq result'.reports
           /\ names'.student[l.student] # l.studentName =>
                 ReportedIn(result', "student_name", l.student, l.studentName)
           /\ names'.course[l.course] # l.courseName =>
                 ReportedIn(result', "course_name", l.course, l.courseName)
<1>1. /\ l.student \in Student /\ l.studentName \in Name
      /\ l.course \in Course /\ l.courseName \in Name
    BY DEF LineStep, Line, Complete
<1>2. /\ names.student \in [DOMAIN names.student -> Name] /\ DOMAIN names.student \subseteq Student
      /\ names.course \in [DOMAIN names.course -> Name] /\ DOMAIN names.course \subseteq Course
      /\ next \in Nat /\ result \in ResultRecord
    BY DEF TypeOK, IsNames
<1> DEFINE S == Learned(names.student, l.student, l.studentName)
           C == Learned(names.course, l.course, l.courseName)
           P == NameConflict("student_name", next, names.student, l.student, l.studentName)
           Q == NameConflict("course_name", next, names.course, l.course, l.courseName)
<1>3. IsLearned(S, names.student, l.student, l.studentName)
    BY <1>1, <1>2, LineNamed
<1>4. IsLearned(C, names.course, l.course, l.courseName)
    BY <1>1, <1>2, LineNamed
<1>5. names' = [student |-> S, course |-> C] /\ more = P \cup Q
      /\ result' = LineResult(result, more, Seen(l))
    BY DEF LineStep
<1>6. "student_name" \in Kinds /\ "course_name" \in Kinds
    BY DEF Kinds
<1>7. /\ P \in SUBSET ReportRecord
      /\ l.student \in DOMAIN names.student /\ names.student[l.student] # l.studentName =>
            \E r \in P : r.kind = "student_name" /\ r.key = l.student
                         /\ r.incoming = l.studentName
    BY <1>1, <1>2, <1>6, ConflictsReported
<1>8. /\ Q \in SUBSET ReportRecord
      /\ l.course \in DOMAIN names.course /\ names.course[l.course] # l.courseName =>
            \E r \in Q : r.kind = "course_name" /\ r.key = l.course
                         /\ r.incoming = l.courseName
    BY <1>1, <1>2, <1>6, ConflictsReported
<1> HIDE DEF S, C, P, Q
<1>9. result' \in ResultRecord /\ result'.reports = result.reports \cup P \cup Q
    <2>1. more \in SUBSET ReportRecord
        BY <1>5, <1>7, <1>8
    <2>2. LineResult(result, more, Seen(l)) \in ResultRecord
          /\ LineResult(result, more, Seen(l)).reports = result.reports \cup more
        BY <1>2, <2>1, LineCounted
    <2> QED
        BY <1>5, <2>2
<1>10. names'.student = S /\ names'.course = C
    BY <1>5
<1>11. IsNames(names')
    BY <1>1, <1>2, <1>3, <1>4, <1>5, <1>10 DEF IsNames, IsLearned
<1>12. /\ S[l.student] # l.studentName =>
             ReportedIn(result', "student_name", l.student, l.studentName)
       /\ C[l.course] # l.courseName =>
             ReportedIn(result', "course_name", l.course, l.courseName)
    BY <1>3, <1>4, <1>7, <1>8, <1>9 DEF ReportedIn, IsLearned
<1> QED
    BY <1>1, <1>3, <1>4, <1>9, <1>10, <1>11, <1>12 DEF IsLearned
LEMMA LineParsed ==
    ASSUME NEW l, NEW more, TypeOK, LineStep(l, more)
    PROVE  /\ parsed' \in Seq(ParsedRow) /\ DOMAIN parsed \subseteq DOMAIN parsed'
           /\ \A j \in DOMAIN parsed : parsed'[j] = parsed[j]
           /\ \E j \in DOMAIN parsed' : parsed'[j].student = l.student
                                        /\ parsed'[j].course = l.course
           /\ \A j \in DOMAIN parsed' : j \notin DOMAIN parsed =>
                 /\ parsed'[j].student = l.student /\ parsed'[j].course = l.course
                 /\ parsed'[j].studentName = names'.student[l.student]
                 /\ parsed'[j].courseName = names'.course[l.course]
<1>1. parsed \in Seq(ParsedRow) /\ next \in Nat
    BY DEF TypeOK
<1>2. CASE Seen(l)
    BY <1>1, <1>2 DEF LineStep, Seen
<1>3. CASE ~Seen(l)
    <2> DEFINE s == names'.student[l.student]
               c == names'.course[l.course]
               row == [line |-> next, student |-> l.student, studentName |-> s,
                       course |-> l.course, courseName |-> c]
    <2>1. parsed' = Append(parsed, row)
        BY <1>3 DEF LineStep
    <2>2. /\ l.student \in Student /\ l.course \in Course /\ IsNames(names')
          /\ l.student \in DOMAIN names'.student /\ l.course \in DOMAIN names'.course
        BY LineNames
    <2>3. s \in Name /\ c \in Name
        BY <2>2 DEF IsNames
    <2> HIDE DEF s, c
    <2>4. /\ row \in ParsedRow /\ row.student = l.student /\ row.course = l.course
          /\ row.studentName = s /\ row.courseName = c
        BY <1>1, <2>2, <2>3 DEF ParsedRow
    <2> HIDE DEF row
    <2>5. /\ parsed' \in Seq(ParsedRow) /\ DOMAIN parsed' = DOMAIN parsed \cup {Len(parsed) + 1}
          /\ \A j \in DOMAIN parsed : parsed'[j] = parsed[j]
          /\ parsed'[Len(parsed) + 1] = row
        BY <1>1, <2>1, <2>4
    <2> QED
        BY <2>4, <2>5 DEF s, c
<1> QED
    BY <1>2, <1>3

LEMMA ReadLineKeeps ==
    ASSUME IInv, ReadLine PROVE IInv'
<1>1. /\ phase = "parsing" /\ phase' = "parsing" /\ ~Unreadable /\ ~Unreadable'
      /\ next <= Len(file.lines) /\ next' = next + 1
      /\ UNCHANGED <<db, work, locked, phase, file, cache, disturbed, imports, resets>>
    BY DEF ReadLine, Parsing, Unreadable
<1>2. TypeOK /\ LinesRead /\ Stages /\ next \in Nat \ {0} /\ file.lines \in Seq(Line)
    BY DEF IInv, TypeOK
<1>3. ViewExtends' /\ RowsResolved' /\ CacheSound'
      /\ RowsRegistered' /\ EveryDisagreementReported' /\ ~Resolving'
    BY <1>1, NotYetResolving DEF Resolving
<1>4. PICK l, more : LineStep(l, more)
    BY <1>2, LineIsRead
<1>5. /\ IsNames(names')
      /\ DOMAIN names'.student = DOMAIN names.student \cup {l.student}
      /\ DOMAIN names'.course = DOMAIN names.course \cup {l.course}
      /\ \A k \in DOMAIN names.student : names'.student[k] = names.student[k]
      /\ \A k \in DOMAIN names.course : names'.course[k] = names.course[k]
      /\ result' \in ResultRecord /\ result.reports \subseteq result'.reports
      /\ names'.student[l.student] # l.studentName =>
            ReportedIn(result', "student_name", l.student, l.studentName)
      /\ names'.course[l.course] # l.courseName =>
            ReportedIn(result', "course_name", l.course, l.courseName)
    BY <1>2, <1>4, LineNames
<1>6. /\ parsed' \in Seq(ParsedRow) /\ DOMAIN parsed \subseteq DOMAIN parsed'
      /\ \A j \in DOMAIN parsed : parsed'[j] = parsed[j]
      /\ \E j \in DOMAIN parsed' : parsed'[j].student = l.student
                                   /\ parsed'[j].course = l.course
      /\ \A j \in DOMAIN parsed' : j \notin DOMAIN parsed =>
            /\ parsed'[j].student = l.student /\ parsed'[j].course = l.course
            /\ parsed'[j].studentName = names'.student[l.student]
            /\ parsed'[j].courseName = names'.course[l.course]
    BY <1>2, <1>4, LineParsed
<1>7. next' \in Nat \ {0} /\ ReadSoFar' = ReadSoFar \cup {next} /\ next \in DOMAIN file.lines
    BY <1>1, <1>2 DEF ReadSoFar
<1>8. TypeOK'
    BY <1>1, <1>2, <1>5, <1>6, <1>7 DEF TypeOK
<1>9. Stages'
    BY <1>1, <1>2, <1>3 DEF Stages, Resolving
<1>10. LinesFound /\ l = file.lines[next] /\ Complete(l)
    BY <1>1, <1>2, <1>4 DEF LinesRead, LineStep
<1>11. \A kind, key, name : Reported(kind, key, name)' <=> ReportedIn(result', kind, key, name)
    BY DEF Reported, ReportedIn
<1>12. ASSUME NEW i \in ReadSoFar \cup {next}, Complete(file.lines[i])
       PROVE  /\ file.lines[i].student \in DOMAIN names'.student
              /\ \/ names'.student[file.lines[i].student] = file.lines[i].studentName
                 \/ ReportedIn(result', "student_name", file.lines[i].student,
                               file.lines[i].studentName)
              /\ file.lines[i].course \in DOMAIN names'.course
              /\ \/ names'.course[file.lines[i].course] = file.lines[i].courseName
                 \/ ReportedIn(result', "course_name", file.lines[i].course,
                               file.lines[i].courseName)
              /\ \E j \in DOMAIN parsed' : /\ parsed'[j].student = file.lines[i].student
                                           /\ parsed'[j].course = file.lines[i].course
    <2>1. CASE i = next
        BY <1>5, <1>6, <1>10, <2>1
    <2>2. CASE i \in ReadSoFar
        <3>1. /\ Named("student_name", names.student, file.lines[i].student,
                       file.lines[i].studentName)
              /\ Named("course_name", names.course, file.lines[i].course,
                       file.lines[i].courseName)
              /\ \E j \in DOMAIN parsed : /\ parsed[j].student = file.lines[i].student
                                          /\ parsed[j].course = file.lines[i].course
            BY <1>10, <1>12, <2>2 DEF LinesFound
        <3>2. \A kind, key, name :
                 Reported(kind, key, name) => ReportedIn(result', kind, key, name)
            BY <1>5 DEF Reported, ReportedIn
        <3> QED
            BY <1>5, <1>6, <3>1, <3>2 DEF Named
    <2> QED
        BY <2>1, <2>2
<1>13. ASSUME NEW j \in DOMAIN parsed'
       PROVE  /\ \E i \in ReadSoFar \cup {next} :
                    /\ Complete(file.lines[i])
                    /\ parsed'[j].student = file.lines[i].student
                    /\ parsed'[j].course = file.lines[i].course
              /\ parsed'[j].student \in DOMAIN names'.student
              /\ parsed'[j].studentName = names'.student[parsed'[j].student]
              /\ parsed'[j].course \in DOMAIN names'.course
              /\ parsed'[j].courseName = names'.course[parsed'[j].course]
    <2>1. CASE j \in DOMAIN parsed
        <3>1. /\ \E i \in ReadSoFar : /\ Complete(file.lines[i])
                                      /\ parsed[j].student = file.lines[i].student
                                      /\ parsed[j].course = file.lines[i].course
              /\ parsed[j].student \in DOMAIN names.student
              /\ parsed[j].studentName = names.student[parsed[j].student]
              /\ parsed[j].course \in DOMAIN names.course
              /\ parsed[j].courseName = names.course[parsed[j].course]
            BY <1>10, <2>1 DEF LinesFound
        <3> QED
            BY <1>5, <1>6, <2>1, <3>1
    <2>2. CASE j \notin DOMAIN parsed
        BY <1>5, <1>6, <1>10, <2>2
    <2> QED
        BY <2>1, <2>2
<1>14. LinesFound'
    <2>1. \A i \in ReadSoFar \cup {next} : i \in DOMAIN file.lines
        BY <1>7, <1>10 DEF LinesFound
    <2> QED
        BY <1>1, <1>7, <1>11, <1>12, <1>13, <2>1 DEF LinesFound, Named, Complete
<1>15. LinesRead'
    BY <1>14 DEF LinesRead
<1> QED
    BY <1>3, <1>8, <1>9, <1>15 DEF IInv

LEMMA AbandonKeeps ==
    ASSUME IInv, Abandon PROVE IInv'
<1>1. /\ phase' = "idle" /\ locked' = FALSE
      /\ UNCHANGED <<db, work, file, next, names, parsed, cache, result, disturbed,
                     imports, resets>>
    BY DEF Abandon
<1>2. TypeOK /\ TypeOK'
    BY <1>1 DEF IInv, TypeOK
<1> QED
    BY <1>1, <1>2 DEF IInv, Stages, Resolving, ViewExtends, LinesRead, RowsResolved,
       CacheSound, RowsRegistered, EveryDisagreementReported

LEMMA EmptyIsDatabase == IsDatabase(EmptyDatabase)
<1> DEFINE none == << >>
<1>1. IsTable(none, Student) /\ IsTable(none, Course)
    BY DEF IsTable
<1> HIDE DEF none
<1>2. EmptyDatabase = [student |-> none, course |-> none, registrations |-> {}]
    BY DEF EmptyDatabase, none
<1> QED
    BY <1>1, <1>2 DEF IsDatabase

LEMMA ResetKeeps ==
    ASSUME IInv, Reset PROVE IInv'
<1>1. /\ locked = FALSE /\ db' = EmptyDatabase /\ disturbed' = TRUE /\ resets' = resets + 1
      /\ UNCHANGED <<work, locked, phase, file, next, names, parsed, cache, result, imports>>
    BY DEF Reset, Emptied, IInv, TypeOK
<1>2. TypeOK /\ LinesRead /\ RowsResolved /\ Stages
    BY DEF IInv
<1>3. TypeOK'
    BY <1>1, <1>2, EmptyIsDatabase DEF TypeOK
<1>4. Stages' /\ ViewExtends' /\ RowsResolved'
    BY <1>1, <1>2 DEF Stages, ViewExtends, RowsResolved, Resolving, Unreadable, Row
<1>5. LinesRead'
    BY <1>1, <1>2 DEF LinesRead, LinesFound, Unreadable, ReadSoFar, Named, Reported, Complete
<1> QED
    BY <1>1, <1>3, <1>4, <1>5 DEF IInv, CacheSound, RowsRegistered,
       EveryDisagreementReported

LEMMA InitIInv == Init => IInv
<1> SUFFICES ASSUME Init PROVE IInv
    OBVIOUS
<1>1. IsNames(Nothing) /\ IsCache(Nothing)
    BY DEF IsNames, IsCache, Nothing
<1>2. EmptyResult \in ResultRecord
    BY DEF EmptyResult, ResultRecord, Counts
<1>3. TypeOK
    <2>1. /\ file.required \in BOOLEAN /\ file.broken \in BOOLEAN /\ file.lines = <<>>
        BY DEF Init, NoFile
    <2>2. file.lines \in Seq(Line) /\ parsed \in Seq(ParsedRow) /\ next \in Nat \ {0}
        BY <2>1 DEF Init
    <2> QED
        BY <1>1, <1>2, <2>1, <2>2, EmptyIsDatabase DEF Init, TypeOK
<1> QED
    BY <1>3 DEF Init, IInv, Stages, Resolving, ViewExtends, LinesRead, RowsResolved,
       CacheSound, RowsRegistered, EveryDisagreementReported

LEMMA StutterKeeps ==
    ASSUME IInv, UNCHANGED vars PROVE IInv'
<1>1. UNCHANGED <<db, work, locked, phase, file, next, names, parsed, cache, result,
                  disturbed, imports, resets>>
    BY DEF vars
<1>2. TypeOK' /\ Stages' /\ ViewExtends' /\ RowsResolved'
    BY <1>1 DEF IInv, TypeOK, Stages, ViewExtends, RowsResolved, Resolving, Unreadable, Row
<1>3. ReadSoFar' = ReadSoFar /\ (Unreadable' <=> Unreadable) /\ Accepted' = Accepted
    BY <1>1 DEF ReadSoFar, Unreadable, Accepted
<1>4. \A kind, key, name : Reported(kind, key, name)' <=> Reported(kind, key, name)
    BY <1>1 DEF Reported
<1>5. \A kind, known, key, name :
        Named(kind, known, key, name)' <=> Named(kind, known, key, name)
    BY <1>4 DEF Named
<1>6. LinesFound => LinesFound'
    BY <1>1, <1>3, <1>5 DEF LinesFound
<1>7. LinesRead'
    BY <1>1, <1>3, <1>6 DEF IInv, LinesRead
<1>8. EveryDisagreementReported'
    BY <1>1, <1>3, <1>4 DEF IInv, EveryDisagreementReported
<1>9. CacheSound' /\ RowsRegistered'
    BY <1>1 DEF IInv, CacheSound, RowsRegistered, Resolving, View, Reported, Resolves, Registered
<1> QED
    BY <1>2, <1>7, <1>8, <1>9 DEF IInv

LEMMA NextKeepsIInv == IInv /\ [Next]_vars => IInv'
<1> SUFFICES ASSUME IInv, [Next]_vars PROVE IInv'
    OBVIOUS
<1> QED
    BY BeginImportKeeps, RejectFileKeeps, RejectLineKeeps, ReadLineKeeps, EndOfFileKeeps,
       ResolveStudentKeeps, ResolveCourseKeeps, ResolveRegistrationKeeps, CommitKeeps,
       AbandonKeeps, ResetKeeps, StutterKeeps DEF Next

\* The inductive invariant holds over any sequence of imports, failures and resets.
THEOREM InvariantHolds == Spec => []IInv
BY InitIInv, NextKeepsIInv, PTL DEF Spec

\* The tables, the rows of the file, the cache and the result keep their types.
THEOREM TypeCorrect == Spec => []TypeOK
<1>1. IInv => TypeOK
    BY DEF IInv
<1> QED
    BY <1>1, InvariantHolds, PTL

\* Whatever the files say, every name that is not the stored one was reported.
THEOREM DisagreementsReported == Spec => []EveryDisagreementReported
<1>1. IInv => EveryDisagreementReported
    BY DEF IInv
<1> QED
    BY <1>1, InvariantHolds, PTL
-----------------------------------------------------------------------------
\* With every row resolved, exactly the file's registrations are on top of what is
\* committed.
LEMMA CommitRegisters ==
    ASSUME IInv, Commit, ~disturbed, Resolves(db)
    PROVE  /\ Resolves(View)
           /\ RegisteredIn(View) = RegisteredIn(db) \cup
                {<<file.lines[i].student, file.lines[i].course>> : i \in Accepted}
<1>1. phase = "student" /\ next > Len(parsed) /\ parsed \in Seq(ParsedRow) /\ Resolving
      /\ ~Unreadable /\ LinesRead /\ RowsRegistered
    BY DEF Commit, IInv, TypeOK, Resolving, Stages
<1>2. \A j \in DOMAIN parsed : j < next
    BY <1>1 DEF IInv, TypeOK
<1>3. Resolves(View)
      /\ \A s, c : Registered(View, s, c) <=>
           \/ Registered(db, s, c)
           \/ \E j \in DOMAIN parsed : j < next /\ parsed[j].student = s
                                       /\ parsed[j].course = c
    BY <1>1 DEF RowsRegistered
<1>4. ReadSoFar = DOMAIN file.lines /\ LinesFound
    BY <1>1 DEF ReadSoFar, LinesRead
<1>5. ASSUME NEW s, NEW c
      PROVE  (\E j \in DOMAIN parsed : parsed[j].student = s /\ parsed[j].course = c)
             <=> \E i \in Accepted : file.lines[i].student = s /\ file.lines[i].course = c
    BY <1>4 DEF LinesFound, Accepted
<1> DEFINE Added == {<<file.lines[i].student, file.lines[i].course>> : i \in Accepted}
<1>6. ASSUME NEW p \in RegisteredIn(View) PROVE p \in RegisteredIn(db) \cup Added
    <2>1. PICK s, c : p = <<s, c>>
        BY DEF RegisteredIn
    <2>2. Registered(View, s, c)
        BY <2>1, RegisteredInMeans
    <2>3. CASE Registered(db, s, c)
        BY <2>1, <2>3, RegisteredInMeans
    <2>4. CASE \E i \in Accepted : file.lines[i].student = s /\ file.lines[i].course = c
        BY <2>1, <2>4
    <2> QED
        BY <1>3, <1>5, <2>2, <2>3, <2>4
<1>7. ASSUME NEW p \in RegisteredIn(db) PROVE p \in RegisteredIn(View)
    <2>1. PICK s, c : p = <<s, c>>
        BY DEF RegisteredIn
    <2> QED
        BY <1>3, <2>1, RegisteredInMeans
<1>8. ASSUME NEW p \in Added PROVE p \in RegisteredIn(View)
    <2>1. PICK i \in Accepted : p = <<file.lines[i].student, file.lines[i].course>>
        OBVIOUS
    <2>2. PICK s, c : s = file.lines[i].student /\ c = file.lines[i].course
        OBVIOUS
    <2>3. \E j \in DOMAIN parsed : j < next /\ parsed[j].student = s /\ parsed[j].course = c
        BY <1>2, <1>5, <2>2
    <2>4. Registered(View, s, c)
        BY <1>3, <2>3
    <2> QED
        BY <2>1, <2>2, <2>4, RegisteredInMeans
<1> QED
    BY <1>3, <1>6, <1>7, <1>8

\* An import no reset came in between adds exactly the file's registrations, with
\* whatever ids earlier resets have freed.
THEOREM CommitIsExact == Spec => CommitAddsTheFile
<1> DEFINE Exact ==
        phase = "student" /\ phase' = "done" /\ ~disturbed /\ Resolves(db) =>
          /\ Resolves(db')
          /\ RegisteredIn(db') = RegisteredIn(db) \cup
                {<<file.lines[i].student, file.lines[i].course>> : i \in Accepted}
<1>1. IInv /\ [Next]_vars => [Exact]_vars
    <2> SUFFICES ASSUME IInv, [Next]_vars, phase = "student", phase' = "done", ~disturbed,
                        Resolves(db)
                 PROVE  /\ Resolves(db')
                        /\ RegisteredIn(db') = RegisteredIn(db) \cup
                              {<<file.lines[i].student, file.lines[i].course>> : i \in Accepted}
        OBVIOUS
    <2>1. Commit
        BY DEF Next, vars, BeginImport, RejectFile, RejectLine, ReadLine, EndOfFile, Parsing,
           ResolveStudent, ResolveCourse, ResolveRegistration, Abandon, Reset
    <2>2. db' = View
        BY <2>1 DEF Commit
    <2> QED
        BY <2>1, <2>2, CommitRegisters
<1> QED
    BY <1>1, InvariantHolds, PTL DEF Spec, CommitAddsTheFile

\* A database that extends another knows its names.
LEMMA ExtendsLearns ==
    ASSUME Extends(db', db) PROVE Policy!Learn
<1>1. ASSUME NEW key \in DOMAIN StoredNames
      PROVE  key \in DOMAIN StoredNames' /\ StoredNames'[key] = StoredNames[key]
    <2>1. CASE \E s \in DOMAIN db.student : key = <<"student", s>>
        BY <2>1 DEF Extends, Holds, StoredNames
    <2>2. CASE \E c \in DOMAIN db.course : key = <<"course", c>>
        BY <2>2 DEF Extends, Holds, StoredNames
    <2> QED
        BY <2>1, <2>2 DEF StoredNames
<1> QED
    BY <1>1 DEF Policy!Learn

LEMMA EmptyKnowsNothing ==
    ASSUME db = EmptyDatabase PROVE StoredNames = << >>
BY DEF EmptyDatabase, StoredNames

\* Registration import implements the policy "the first value wins": no stored name is
\* ever replaced, and only a reset forgets one, all together.
THEOREM FirstValuesAreKept == Spec => FirstValuesKept
<1>1. Init => Policy!Init
    BY EmptyKnowsNothing DEF Init, Policy!Init
<1>2. IInv /\ [Next]_vars => [Policy!Next]_StoredNames
    <2> SUFFICES ASSUME IInv, [Next]_vars
                 PROVE  Policy!Next \/ StoredNames' = StoredNames
        OBVIOUS
    <2>1. CASE Commit
        <3>1. Extends(db', db)
            BY <2>1, ViewIsDatabase DEF Commit, IInv
        <3> QED
            BY <3>1, ExtendsLearns DEF Policy!Next
    <2>2. CASE Reset
        <3>1. db' = EmptyDatabase
            BY <2>2 DEF Reset, Emptied
        <3>2. StoredNames' = << >>
            BY <3>1 DEF EmptyDatabase, StoredNames
        <3> QED
            BY <3>2 DEF Policy!Next, Policy!Forget
    <2>3. CASE db' = db
        BY <2>3 DEF StoredNames
    <2> QED
        BY <2>1, <2>2, <2>3 DEF Next, vars, BeginImport, RejectFile, RejectLine, ReadLine,
           EndOfFile, ResolveStudent, ResolveCourse, ResolveRegistration, Abandon
<1> QED
    BY <1>1, <1>2, InvariantHolds, PTL DEF Spec, FirstValuesKept, Policy!Spec
=============================================================================
