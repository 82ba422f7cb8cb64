-------------------------- MODULE SeatingLifecycle --------------------------
(***************************************************************************)
(* Concurrent requests against one database:                               *)
(*   POST /examination-sessions  - ExaminationSessionService.create_session *)
(*   POST /exams/{id}/seating/generate  - SeatingService.generate          *)
(*   POST /examination-sessions/{id}/seating/generate - generate_session   *)
(*   POST /admin/database/reset  - reset_database                          *)
(* with the CSV imports and a restart of the server as their environment.  *)
(*                                                                         *)
(* The handlers are plain functions: FastAPI runs each in a thread of its  *)
(* pool with a database session of its own.  A read sees what is committed *)
(* at that moment - pysqlite opens no transaction for a SELECT - so what a *)
(* request reads is no snapshot.  Its first INSERT or DELETE takes         *)
(* SQLite's write lock, which it holds until it commits or closes; another *)
(* request's first write waits for it, and gives up after five seconds.    *)
(*                                                                         *)
(* Imports run on the event loop, one at a time.  Of the tables an import  *)
(* reads only its own writes and a reset change any, and from its first    *)
(* write to its commit it holds the lock.  So two steps do: its start,     *)
(* which remembers the tables as they are, and its end, which lets a reset *)
(* in between have come after any of the reads that precede the first      *)
(* write.                                                                  *)
(*                                                                         *)
(* Foreign keys are not enforced, and the id of a new exam, session or     *)
(* generation is one more than the largest in use.  The ids of students,   *)
(* courses and rooms stand for their numbers and codes: after a reset the  *)
(* same one gets the same id (module RegistrationImport says what becomes  *)
(* of freed ids).  Room files agree on the capacity of a room (module      *)
(* RoomImport has those that do not).  The strategy is "sequential", which *)
(* both generate endpoints accept.                                         *)
(***************************************************************************)
EXTENDS SeatingPlan, RoomConfiguration

CONSTANTS Student, Course,    \* ids, in the order the sort keys put them
          RoomId, Slot,
          Capacity,           \* what the room files say of each room's capacity
          Request,            \* the threads of the pool
          NoRequest,
          ExamArgs,           \* exam id lists clients send
          RegistrationFiles,  \* sets of [student, course] rows
          ScheduleFiles,      \* records [course, slot, lines]
          RoomFiles,          \* functions from ids of rooms to what a row says of them
          StartStates,        \* records [rooms, exams, lines, registrations, sessions]
          MaxRequests, MaxImports, MaxResets, \* bounds on each kind of event
          MaxEvents                           \* and on requests and imports together

Registration == [student : Student, course : Course]
ExamRecord == [course : Course, slot : Slot]
LineRecord == [exam : Nat, room : RoomId, allocated : Nat]
SessionRecord == [ids : Seq(Nat), since : [imports : Nat, resets : Nat]]

\* A table of rooms, and what a room file says of some.
IsRoomTable(table) ==
    /\ DOMAIN table \subseteq RoomId
    /\ table \in [DOMAIN table -> RoomRecord]
    /\ \A r \in DOMAIN table : table[r].capacity = Capacity[r]

StudentsOf(rows) == {x.student : x \in rows}
CoursesOf(rows) == {x.course : x \in rows}

NoRepeats(ids) == \A i, j \in DOMAIN ids : ids[i] = ids[j] => i = j

\* list_by_exam: an exam's rows among those of a table, in id order.
Listed(table, e) == Chosen(table, {i \in DOMAIN table : table[i].exam = e})

\* What the exams of a session allocate: the first n exams' rows.
LinesFrom(table, ids) ==
    LET lines[n \in 0..Len(ids)] ==
            IF n = 0 THEN <<>> ELSE lines[n - 1] \o Listed(table, ids[n])
    IN  lines

\* validate_no_conflicting_room_usage: a room several exams use can hold what
\* they allocate together.
NoConflictingRoomUsage(lines) ==
    \A i, j \in DOMAIN lines :
        lines[i].room = lines[j].room /\ lines[i].exam # lines[j].exam =>
            AllocatedTo(lines, lines[i].room) <= Capacity[lines[i].room]

\* What create_session has seen to before it stores a session: it has exams, all
\* on file, no student in two of them and no room that two of them overbook.
StudentsApart(ids, examTable, registered) ==
    \A i, j \in DOMAIN ids : \A x, y \in registered :
        /\ {ids[i], ids[j]} \subseteq DOMAIN examTable
        /\ x.course = examTable[ids[i]].course /\ y.course = examTable[ids[j]].course
        /\ x.student = y.student
        => i = j

RoomsShared(ids, lineTable) ==
    NoConflictingRoomUsage(LinesFrom(lineTable, ids)[Len(ids)])

Accepted(s, ids) ==
    /\ ids # <<>> /\ NoRepeats(ids)
    /\ \A i \in DOMAIN ids : ids[i] \in DOMAIN s.exams
    /\ StudentsApart(ids, s.exams, s.registrations)
    /\ RoomsShared(ids, s.lines)

ConstantsAssumption ==
    /\ NoRequest \notin Request
    /\ Student \subseteq Nat /\ Course \subseteq Nat
    /\ Capacity \in [RoomId -> Nat]
    /\ ExamArgs \subseteq Seq(Nat)
    /\ \A file \in RegistrationFiles : IsFiniteSet(file) /\ file \subseteq Registration
    /\ \A file \in ScheduleFiles :
          /\ file.course \in Course /\ file.slot \in Slot
          /\ file.lines \in Seq([room : RoomId, allocated : Nat])
    /\ \A file \in RoomFiles : IsRoomTable(file)
    /\ \A s \in StartStates :
          /\ IsRoomTable(s.rooms)
          /\ s.exams \in Seq(ExamRecord) /\ s.lines \in Seq(LineRecord)
          /\ IsFiniteSet(s.registrations) /\ s.registrations \subseteq Registration
          /\ s.sessions \in Seq(SessionRecord)
          /\ \A i \in DOMAIN s.exams : s.exams[i].course \in CoursesOf(s.registrations)
          /\ \A i \in DOMAIN s.lines :
                s.lines[i].exam \in DOMAIN s.exams /\ s.lines[i].room \in DOMAIN s.rooms
          /\ \A i \in DOMAIN s.sessions :
                /\ Accepted(s, s.sessions[i].ids)
                /\ s.sessions[i].since = [imports |-> 0, resets |-> 0]
    /\ MaxRequests \in Nat /\ MaxImports \in Nat /\ MaxResets \in Nat
    /\ MaxEvents \in Nat

ASSUME ConstantsAreTyped == ConstantsAssumption

Max3(S) == IF S = {} THEN 0 ELSE CHOOSE n \in S : \A m \in S : m <= n

VARIABLES students, courses,  \* ids on file
          registrations,  \* rows [student, course]
          rooms,          \* ids on file -> room
          exams,          \* exam id -> [course, slot]
          examRooms,      \* rows [exam, room, allocated], in id order
          sessions,       \* session id -> its session_exams, in id order
          generations,    \* generation id -> SeatingGeneration row
          seatRows,       \* rows of seat_assignments
          writer,         \* the request that holds the write lock
          importer,       \* the import under way
          req,            \* each thread's request: its local variables
          reply,          \* the response the last step sent, if it sent one
          requests, imports, resets,  \* how many of each there were
          disturbed,      \* history: the last reset hit other requests in flight
          overtaken       \* history: the last reset fell into an import

tables == <<students, courses, registrations, rooms, exams, examRooms, sessions,
            generations, seatRows>>
counters == <<requests, imports, resets, disturbed, overtaken>>
vars == <<tables, writer, importer, req, reply, counters>>

NoImport == [kind |-> "none"]

Idle == [op |-> "none", at |-> "idle"]

NoReply == <<>>

\* What a request knows when it starts.  `since`, here and in a session row, is
\* history: what was on file, or how many imports there had been, at the start.
Fresh(op, at, of, ids) ==
    [op |-> op, at |-> at, of |-> of, ids |-> ids, k |-> 1, loaded |-> <<>>,
     lines |-> <<>>, roster |-> {}, layout |-> << >>, plan |-> {}, id |-> 0,
     since |-> [registrations |-> registrations, imports |-> imports,
                resets |-> resets]]

Init ==
    /\ \E s \in StartStates :
          /\ exams = s.exams
          /\ examRooms = s.lines
          /\ registrations = s.registrations
          /\ students = StudentsOf(s.registrations)
          /\ courses = CoursesOf(s.registrations)
          /\ rooms = s.rooms
          /\ sessions = s.sessions
    /\ generations = <<>>
    /\ seatRows = {}
    /\ writer = NoRequest
    /\ importer = NoImport
    /\ req = [t \in Request |-> Idle]
    /\ reply = NoReply
    /\ requests = 0 /\ imports = 0 /\ resets = 0
    /\ disturbed = FALSE /\ overtaken = FALSE

\* t goes on to the next stage, its local variables now r.
Goto(t, r) ==
    /\ req' = [req EXCEPT ![t] = r]
    /\ reply' = NoReply

\* t's request ends and its session is closed, which rolls back and unlocks.
Answer(t, a) ==
    /\ req' = [req EXCEPT ![t] = Idle]
    /\ reply' = <<t, a>>
    /\ writer' = IF writer = t THEN NoRequest ELSE writer

At(t, stage) == req[t].at = stage

Finished(t) == req[t].k > Len(req[t].ids)

Importing == importer.kind # "none"

Events == requests + imports + (IF Importing THEN 1 ELSE 0)

CanRequest == requests < MaxRequests /\ Events < MaxEvents
-----------------------------------------------------------------------------
\* A request arrives.
Begin(t, op, at, of, ids) ==
    /\ At(t, "idle")
    /\ CanRequest
    /\ req' = [req EXCEPT ![t] = Fresh(op, at, of, ids)]
    /\ reply' = NoReply
    /\ requests' = requests + 1
    /\ UNCHANGED <<tables, writer, importer, imports, resets, disturbed, overtaken>>

BeginCreate(t) ==
    \E ids \in ExamArgs : ids # <<>> /\ NoRepeats(ids) /\ Begin(t, "create", "exams", 0, ids)

\* create_session's first two checks: nothing is read.
RejectExamIds(t) ==
    /\ At(t, "idle")
    /\ CanRequest
    /\ \E ids \in ExamArgs : ids = <<>> \/ ~NoRepeats(ids)
    /\ reply' = <<t, "ValueError">>
    /\ requests' = requests + 1
    /\ UNCHANGED <<tables, writer, importer, req, imports, resets, disturbed, overtaken>>

BeginGenerate(t) ==
    \E ids \in ExamArgs : Len(ids) = 1 /\ Begin(t, "exam", "exams", ids[1], ids)

BeginGenerateSession(t) ==
    \E s \in 1..MaxRequests : Begin(t, "session", "session", s, <<>>)

BeginReset(t) ==
    /\ resets < MaxResets
    /\ Begin(t, "reset", "insert", 0, <<>>)
-----------------------------------------------------------------------------
\* The session row, then its session_exams rows, two SELECTs.
LoadSession(t) ==
    /\ At(t, "session")
    /\ \/ /\ req[t].of \in DOMAIN sessions
          /\ Goto(t, [req[t] EXCEPT !.at = "session_exams"])
          /\ UNCHANGED writer
       \/ /\ req[t].of \notin DOMAIN sessions
          /\ Answer(t, "SessionNotFoundError")
    /\ UNCHANGED <<tables, importer, counters>>

LoadSessionExams(t) ==
    /\ At(t, "session_exams")
    /\ LET s == req[t].of
       IN  Goto(t, [req[t] EXCEPT
                      !.at = "exams",
                      !.ids = IF s \in DOMAIN sessions THEN sessions[s].ids ELSE <<>>])
    /\ UNCHANGED <<tables, writer, importer, counters>>

\* One turn of the loop that loads the exams.  Only a session takes an absent
\* exam for impossible.
LoadExam(t) ==
    /\ At(t, "exams")
    /\ ~Finished(t)
    /\ LET e == req[t].ids[req[t].k]
       IN  \/ /\ e \in DOMAIN exams
              /\ Goto(t, [req[t] EXCEPT
                             !.k = @ + 1,
                             !.loaded = Append(@, [id |-> e, course |-> exams[e].course,
                                                   slot |-> exams[e].slot])])
              /\ UNCHANGED writer
           \/ /\ e \notin DOMAIN exams
              /\ Answer(t, IF req[t].op = "session" THEN "AssertionError"
                           ELSE "ExamNotFoundError")
    /\ UNCHANGED <<tables, importer, counters>>

\* build_examination_session: every exam has the first one's schedule.
Compatible(loaded) == \A i \in DOMAIN loaded : loaded[i].slot = loaded[1].slot

ExamsLoaded(t) ==
    /\ At(t, "exams")
    /\ Finished(t)
    /\ IF req[t].op = "create" /\ ~Compatible(req[t].loaded)
       THEN Answer(t, "IncompatibleExamScheduleError")
       ELSE Goto(t, [req[t] EXCEPT !.at = "rooms", !.k = 1]) /\ UNCHANGED writer
    /\ UNCHANGED <<tables, importer, counters>>

\* list_by_exam of the next exam.
ListRooms(t) ==
    /\ At(t, "rooms")
    /\ ~Finished(t)
    /\ Goto(t, [req[t] EXCEPT !.at = "room_lookup",
                               !.lines = @ \o Listed(examRooms, req[t].ids[req[t].k])])
    /\ UNCHANGED <<tables, writer, importer, counters>>

\* The room of each row just listed; then create_session lists the next exam's
\* rooms, and generate_session the same exam's students.
LookUpRooms(t) ==
    /\ At(t, "room_lookup")
    /\ LET r == req[t]
           listed == {i \in DOMAIN r.lines : r.lines[i].exam = r.ids[r.k]}
       IN  IF \A i \in listed : r.lines[i].room \in DOMAIN rooms
           THEN /\ IF r.op = "create"
                   THEN Goto(t, [r EXCEPT !.at = "rooms", !.k = @ + 1])
                   ELSE Goto(t, [r EXCEPT !.at = "students"])
                /\ UNCHANGED writer
           ELSE Answer(t, "AssertionError")
    /\ UNCHANGED <<tables, importer, counters>>

RoomsListed(t) ==
    /\ At(t, "rooms")
    /\ Finished(t)
    /\ req[t].op = "create"
    /\ IF NoConflictingRoomUsage(req[t].lines)
       THEN Goto(t, [req[t] EXCEPT !.at = "students", !.k = 1]) /\ UNCHANGED writer
       ELSE Answer(t, "ConflictingRoomAllocationError")
    /\ UNCHANGED <<tables, importer, counters>>

\* Faulty variant: an exam's students replace those of the exams before it.
ListStudentsAfresh(t) ==
    /\ At(t, "students")
    /\ ~Finished(t)
    /\ LET e == req[t].loaded[req[t].k]
       IN  Goto(t, [req[t] EXCEPT
                      !.at = "student_lookup",
                      !.roster =
                        {[student |-> x.student, exam |-> e.id, course |-> e.course] :
                           x \in {y \in registrations : y.course = e.course}}])
    /\ UNCHANGED <<tables, writer, importer, counters>>

\* list_by_course of the next exam's course.
ListStudents(t) ==
    /\ At(t, "students")
    /\ ~Finished(t)
    /\ LET e == req[t].loaded[req[t].k]
       IN  Goto(t, [req[t] EXCEPT
                      !.at = "student_lookup",
                      !.roster = @ \cup
                        {[student |-> x.student, exam |-> e.id, course |-> e.course] :
                           x \in {y \in registrations : y.course = e.course}}])
    /\ UNCHANGED <<tables, writer, importer, counters>>

Known(s) == s \in students

\* Faulty variant: create_session's loop does not move on.
LookUpStudentsAgain(t) ==
    /\ At(t, "student_lookup")
    /\ LET r == req[t]
       IN  IF r.op = "create" THEN Goto(t, [r EXCEPT !.at = "students"])
           ELSE Goto(t, [r EXCEPT !.at = "rooms", !.k = @ + 1])
    /\ UNCHANGED <<tables, writer, importer, counters>>

\* The student of each row just listed.
LookUpStudents(t) ==
    /\ At(t, "student_lookup")
    /\ LET r == req[t]
       IN  IF \A x \in r.roster : x.exam = r.ids[r.k] => Known(x.student)
           THEN /\ Goto(t, [r EXCEPT !.at = IF r.op = "create" THEN "students" ELSE "rooms",
                                     !.k = @ + 1])
                /\ UNCHANGED writer
           ELSE Answer(t, "AssertionError")
    /\ UNCHANGED <<tables, importer, counters>>

\* Faulty variant: students are taken as they come.
AnyRoster(roster) == TRUE

\* build_session_participants: no student in two of the exams.
NoDuplicateStudent(roster) ==
    \A x, y \in roster : x.student = y.student => x.exam = y.exam

\* Faulty variant: the session is stored without looking at its students.
StudentsUnchecked(t) ==
    /\ At(t, "students")
    /\ Finished(t)
    /\ req[t].op = "create"
    /\ Goto(t, [req[t] EXCEPT !.at = "insert"])
    /\ UNCHANGED <<tables, writer, importer, counters>>

StudentsListed(t) ==
    /\ At(t, "students")
    /\ Finished(t)
    /\ req[t].op = "create"
    /\ IF NoDuplicateStudent(req[t].roster)
       THEN Goto(t, [req[t] EXCEPT !.at = "insert"]) /\ UNCHANGED writer
       ELSE Answer(t, "DuplicateStudentInSessionError")
    /\ UNCHANGED <<tables, importer, counters>>
-----------------------------------------------------------------------------
AllocationsOf(r) ==
    IF r.op = "session" THEN MergedAllocations(r.lines)
    ELSE [i \in DOMAIN r.lines |-> [room |-> r.lines[i].room,
                                    allocated |-> r.lines[i].allocated]]

\* _session_student_sort_key and _student_sort_key.
Earlier(x, y) == x.course < y.course \/ (x.course = y.course /\ x.student < y.student)

Ahead(roster) == [x \in roster |-> Cardinality({y \in roster : Earlier(y, x)})]

\* Both generate methods between their last SELECT of a roster and their first
\* write.  `layout`, here and in the generation row, is history: the rooms as the
\* run read them.  The code reads them one by one, here they are read at once: no
\* property relates the blocked seats of two rooms.
Place(t) ==
    /\ At(t, "rooms")
    /\ Finished(t)
    /\ req[t].op \in {"exam", "session"}
    /\ LET r == req[t]
           allocations == AllocationsOf(r)
       IN  \/ /\ r.op = "session" /\ ~NoDuplicateStudent(r.roster)
              /\ Answer(t, "DuplicateStudentInSessionError")
           \/ /\ r.op = "session" => NoDuplicateStudent(r.roster)
              /\ \/ /\ r.ids = <<>>
                    /\ Answer(t, "IndexError")
                 \/ /\ r.ids # <<>> /\ ~RoomsDistinct(allocations)
                    /\ Answer(t, "DuplicateRoomAllocation")
                 \/ /\ r.ids # <<>> /\ RoomsDistinct(allocations)
                    /\ \E i \in DOMAIN allocations : allocations[i].room \notin DOMAIN rooms
                    /\ Answer(t, "UnknownRoomTopologyError")
                 \/ /\ r.ids # <<>> /\ RoomsDistinct(allocations)
                    /\ \A i \in DOMAIN allocations :
                          allocations[i].room \in DOMAIN rooms
                    /\ Goto(t, [r EXCEPT !.at = "insert",
                                         !.layout = rooms,
                                         !.plan = SeatingOf(Ahead(r.roster),
                                                            Candidates(allocations, rooms))])
                    /\ UNCHANGED writer
    /\ UNCHANGED <<tables, importer, counters>>
-----------------------------------------------------------------------------
NextId(table) == Max3(DOMAIN table) + 1

\* Faulty variant: ids are handed out without the lock.
WriteUnlocked(t) ==
    /\ At(t, "insert")
    /\ writer' = t
    /\ Goto(t, [req[t] EXCEPT !.at = "commit",
                              !.id = IF req[t].op = "create" THEN NextId(sessions)
                                     ELSE NextId(generations)])
    /\ UNCHANGED <<tables, importer, counters>>

\* The first write: it takes the lock and fixes the id of the row.
Write(t) ==
    /\ At(t, "insert")
    /\ writer = NoRequest
    /\ writer' = t
    /\ Goto(t, [req[t] EXCEPT !.at = "commit",
                              !.id = IF req[t].op = "create" THEN NextId(sessions)
                                     ELSE NextId(generations)])
    /\ UNCHANGED <<tables, importer, counters>>

\* "database is locked".
LockTimeout(t) ==
    /\ At(t, "insert")
    /\ writer \notin {NoRequest, t} \/ Importing
    /\ Answer(t, "OperationalError")
    /\ UNCHANGED <<tables, importer, counters>>

WithRow(table, id, row) ==
    [i \in DOMAIN table \cup {id} |-> IF i = id THEN row ELSE table[i]]

\* The session row and its session_exams rows become visible; the lock is free,
\* the response is still to be built.
CommitSession(t) ==
    /\ At(t, "commit")
    /\ req[t].op = "create"
    /\ sessions' = WithRow(sessions, req[t].id,
                            [ids |-> req[t].ids,
                             since |-> [imports |-> req[t].since.imports,
                                        resets |-> req[t].since.resets]])
    /\ writer' = NoRequest
    /\ Goto(t, [req[t] EXCEPT !.at = "respond"])
    /\ UNCHANGED <<students, courses, registrations, rooms, exams, examRooms,
                   generations, seatRows, importer, counters>>

\* _to_session_out reads the exams, their courses and rooms once more.
Respond(t) ==
    /\ At(t, "respond")
    /\ Answer(t, IF \A i \in DOMAIN req[t].ids :
                       /\ req[t].ids[i] \in DOMAIN exams
                       /\ exams[req[t].ids[i]].course \in courses
                       /\ \A j \in DOMAIN examRooms :
                             examRooms[j].exam = req[t].ids[i] =>
                                 examRooms[j].room \in DOMAIN rooms
                 THEN "ok" ELSE "AssertionError")
    /\ UNCHANGED <<tables, importer, counters>>

GenerationRow(r) ==
    LET n == Cardinality(r.roster)
        k == Cardinality(r.plan)
    IN  [kind |-> r.op, of |-> r.of, registered |-> n, assigned |-> k,
         unassigned |-> n - k, status |-> StatusOf(n, k, n - k), layout |-> r.layout]

\* Faulty variant: a new run replaces the earlier ones of the same exam.
CommitReplacing(t) ==
    /\ At(t, "commit")
    /\ req[t].op \in {"exam", "session"}
    /\ LET r == req[t]
           old == {g \in DOMAIN generations :
                      generations[g].kind = r.op /\ generations[g].of = r.of}
           kept == [g \in DOMAIN generations \ old |-> generations[g]]
       IN  /\ generations' = WithRow(kept, r.id, GenerationRow(r))
           /\ seatRows' = {x \in seatRows : x.generation \notin old} \cup
                 {[generation |-> r.id, exam |-> a.exam, room |-> a.room,
                   seat |-> a.seat, student |-> a.student] : a \in r.plan}
    /\ Answer(t, "ok")
    /\ UNCHANGED <<students, courses, registrations, rooms, exams, examRooms, sessions,
                   importer, counters>>

\* The generation row and all its assignment rows become visible at once.
CommitGeneration(t) ==
    /\ At(t, "commit")
    /\ req[t].op \in {"exam", "session"}
    /\ generations' = WithRow(generations, req[t].id, GenerationRow(req[t]))
    /\ seatRows' = seatRows \cup
          {[generation |-> req[t].id, exam |-> a.exam, room |-> a.room,
            seat |-> a.seat, student |-> a.student] : a \in req[t].plan}
    /\ Answer(t, "ok")
    /\ UNCHANGED <<students, courses, registrations, rooms, exams, examRooms, sessions,
                   importer, counters>>

\* A reset leaves the rest of an import that has read students or courses, exams or
\* rooms without the rows it found.
Overtakes == importer.kind \in {"registrations", "schedule"}

\* Faulty variant: the schedule's tables are not reset.
CommitResetKeepingExams(t) ==
    /\ At(t, "commit")
    /\ req[t].op = "reset"
    /\ students' = {} /\ courses' = {} /\ registrations' = {} /\ rooms' = << >>
    /\ sessions' = <<>> /\ generations' = <<>> /\ seatRows' = {}
    /\ Answer(t, "ok")
    /\ resets' = resets + 1
    /\ overtaken' = Overtakes
    /\ disturbed' = (Overtakes \/ \E u \in Request \ {t} : ~At(u, "idle"))
    /\ UNCHANGED <<exams, examRooms, importer, requests, imports>>

\* reset_database: every table is emptied in one transaction.
CommitReset(t) ==
    /\ At(t, "commit")
    /\ req[t].op = "reset"
    /\ students' = {} /\ courses' = {} /\ registrations' = {} /\ rooms' = << >>
    /\ exams' = <<>> /\ examRooms' = <<>>
    /\ sessions' = <<>> /\ generations' = <<>> /\ seatRows' = {}
    /\ Answer(t, "ok")
    /\ resets' = resets + 1
    /\ overtaken' = Overtakes
    /\ disturbed' = (Overtakes \/ \E u \in Request \ {t} : ~At(u, "idle"))
    /\ UNCHANGED <<importer, requests, imports>>
-----------------------------------------------------------------------------
\* A file is uploaded, and the event loop takes it up.
StartImport(import) ==
    /\ ~Importing
    /\ imports < MaxImports /\ Events < MaxEvents
    /\ importer' = import
    /\ reply' = NoReply
    /\ UNCHANGED <<tables, writer, req, counters>>

BeginImport ==
    \/ \E file \in RegistrationFiles :
          StartImport([kind |-> "registrations", rows |-> file,
                       seen |-> [students |-> students, courses |-> courses,
                                 registrations |-> registrations]])
    \/ \E file \in ScheduleFiles :
          StartImport([kind |-> "schedule", group |-> file,
                       seen |-> [courses |-> courses, rooms |-> rooms, exams |-> exams,
                                 lines |-> examRooms]])
    \/ \E file \in RoomFiles :
          StartImport([kind |-> "rooms", rooms |-> file, seen |-> [rooms |-> rooms]])

\* The import ends with its commit.
EndImport(kind) ==
    /\ importer.kind = kind
    /\ writer = NoRequest
    /\ importer' = NoImport
    /\ imports' = imports + 1
    /\ reply' = NoReply
    /\ UNCHANGED <<sessions, generations, seatRows, writer, req, requests, resets,
                   disturbed, overtaken>>

\* RegistrationImportService.import_csv.  If a reset came, it came after the rows of
\* `found`, which were all on file, and after the student, perhaps also the course,
\* of the row `next`: the caches go on naming them, and they are not created again.
ImportRegistrations ==
    /\ EndImport("registrations")
    /\ LET file == importer.rows
           seen == importer.seen
       IN  \E found \in SUBSET (file \cap seen.registrations), next \in SUBSET file :
              /\ Cardinality(next) <= 1
              /\ StudentsOf(found \cup next) \subseteq seen.students
              /\ CoursesOf(found) \subseteq seen.courses
              /\ students' = students \cup (StudentsOf(file) \ StudentsOf(found \cup next))
              /\ \E cached \in {CoursesOf(found), CoursesOf(found \cup next)} :
                    /\ cached \subseteq seen.courses
                    /\ courses' = courses \cup (CoursesOf(file) \ cached)
              /\ registrations' = registrations \cup (file \ found)
    /\ UNCHANGED <<rooms, exams, examRooms>>

ExamWith(table, course, slot) ==
    {e \in DOMAIN table : table[e].course = course /\ table[e].slot = slot}

HasLine(table, e, r) == \E i \in DOMAIN table : table[i].exam = e /\ table[i].room = r

\* _import_exam_group: the exam is created unless it is on file, then its rooms are
\* added, except unknown ones and those it already has.
StoreGroup(file) ==
    LET found == ExamWith(exams, file.course, file.slot)
        e == IF found = {} THEN NextId(exams) ELSE CHOOSE x \in found : TRUE
        new == {n \in DOMAIN file.lines :
                  /\ file.lines[n].room \in DOMAIN rooms
                  /\ ~HasLine(examRooms, e, file.lines[n].room)}
        added == Chosen(file.lines, new)
    IN  /\ file.course \in courses
        /\ exams' = WithRow(exams, e, [course |-> file.course, slot |-> file.slot])
        /\ examRooms' = examRooms \o
              [i \in DOMAIN added |-> [exam |-> e, room |-> added[i].room,
                                       allocated |-> added[i].allocated]]

\* The course was found before the reset, the exam was not: it is created all the
\* same, and after the reset no room is known.
StoreStrayExam(file, seen) ==
    /\ file.course \in seen.courses \ courses
    /\ exams' = WithRow(exams, NextId(exams), [course |-> file.course, slot |-> file.slot])
    /\ UNCHANGED examRooms

\* The exam was found before the reset, and so was the room of the first line that
\* wrote something; after the reset no other room is known.
StoreStrayLine(file, seen) ==
    /\ file.course \in seen.courses
    /\ \E e \in ExamWith(seen.exams, file.course, file.slot) \ DOMAIN exams,
          n \in DOMAIN file.lines :
          /\ file.lines[n].room \in DOMAIN seen.rooms
          /\ \A m \in 1..(n - 1) : file.lines[m].room \in DOMAIN seen.rooms =>
                HasLine(seen.lines, e, file.lines[m].room)
          /\ examRooms' = Append(examRooms, [exam |-> e, room |-> file.lines[n].room,
                                             allocated |-> file.lines[n].allocated])
    /\ UNCHANGED exams

\* ScheduleImportService.import_csv of one exam.
ImportSchedule ==
    /\ EndImport("schedule")
    /\ LET file == importer.group
           seen == importer.seen
       IN  \/ StoreGroup(file)
           \/ file.course \notin courses /\ UNCHANGED <<exams, examRooms>>
           \/ StoreStrayExam(file, seen)
           \/ StoreStrayLine(file, seen)
    /\ UNCHANGED <<students, courses, registrations, rooms>>

\* Rooms a row has something to write to.
Backfilled(table, file) ==
    {r \in DOMAIN file \cap DOMAIN table : Confirmed(table[r], file[r]) # table[r]}

\* RoomImportService.import_csv: new rooms are created, known ones confirmed.  If a
\* reset came, it came after the rooms of `skipped`, to which nothing was written.
ImportRooms ==
    /\ EndImport("rooms")
    /\ LET file == importer.rooms
           seen == importer.seen.rooms
       IN  \E skipped \in SUBSET ((DOMAIN file \cap DOMAIN seen) \ Backfilled(seen, file)) :
              rooms' = [r \in DOMAIN rooms \cup (DOMAIN file \ skipped) |->
                          IF r \notin DOMAIN rooms THEN file[r]
                          ELSE IF r \in DOMAIN file THEN Confirmed(rooms[r], file[r])
                          ELSE rooms[r]]
    /\ UNCHANGED <<students, courses, registrations, exams, examRooms>>

\* The first write gives up waiting for the lock, or is to backfill a room that a
\* reset has removed, which set_topology and set_blocked_seats refuse.
ImportFails ==
    /\ Importing
    /\ \/ writer # NoRequest
       \/ /\ importer.kind = "rooms"
          /\ ~(Backfilled(importer.seen.rooms, importer.rooms) \subseteq DOMAIN rooms)
    /\ importer' = NoImport
    /\ reply' = NoReply
    /\ UNCHANGED <<tables, writer, req, counters>>

\* The server is stopped and started: requests and the import in flight are gone,
\* and with them whatever they had not committed.
Restart ==
    /\ req' = [t \in Request |-> Idle]
    /\ reply' = NoReply
    /\ writer' = NoRequest
    /\ importer' = NoImport
    /\ UNCHANGED <<tables, counters>>

Step(t) ==
    \/ LoadSession(t) \/ LoadSessionExams(t) \/ LoadExam(t) \/ ExamsLoaded(t)
    \/ ListRooms(t) \/ LookUpRooms(t) \/ RoomsListed(t)
    \/ ListStudents(t) \/ LookUpStudents(t) \/ StudentsListed(t)
    \/ Place(t) \/ Write(t) \/ LockTimeout(t)
    \/ CommitSession(t) \/ Respond(t) \/ CommitGeneration(t) \/ CommitReset(t)

Arrive(t) ==
    \/ BeginCreate(t) \/ RejectExamIds(t)
    \/ BeginGenerate(t) \/ BeginGenerateSession(t) \/ BeginReset(t)

Next ==
    \/ \E t \in Request : Step(t) \/ Arrive(t)
    \/ BeginImport \/ ImportRegistrations \/ ImportSchedule \/ ImportRooms \/ ImportFails
    \/ Restart

Spec == Init /\ [][Next]_vars

\* The operating system schedules every thread.
FairSpec == Spec /\ \A t \in Request : WF_vars(Step(t))
-----------------------------------------------------------------------------
RowsOf(g) == {x \in seatRows : x.generation = g}

\* Whatever was imported, created or generated around it, no stored generation
\* gives a student two seats or a seat to two students, even in a room several
\* of its exams share, and every seat is one of the room as the run read it, not
\* blocked then.  (A seat an import blocks later stays in use: module Reports.)
GenerationsNeverCollide ==
    \A g \in DOMAIN generations : \A x, y \in RowsOf(g) :
        /\ x # y => x.student # y.student
        /\ x # y => x.room # y.room \/ x.seat # y.seat
        /\ LET room == generations[g].layout[x.room]
           IN  x.seat \in (1..room.capacity) \ room.blocked

\* A stored generation is complete: the counts of its row agree with its seat
\* assignments, also right after a restart or a concurrent commit.
CountsMatchRows ==
    \A g \in DOMAIN generations :
        /\ generations[g].assigned = Cardinality(RowsOf(g))
        /\ generations[g].registered = generations[g].assigned + generations[g].unassigned
        /\ generations[g].status = "success" <=> generations[g].unassigned = 0

\* Generating again never overwrites or extends an earlier run, whichever
\* requests run side by side: only a reset removes stored history.
HistoryAppendOnly ==
    [][\/ resets' # resets
       \/ /\ \A g \in DOMAIN generations :
                g \in DOMAIN generations' /\ generations'[g] = generations[g]
          /\ seatRows \subseteq seatRows'
          /\ \A x \in seatRows' \ seatRows : x.generation \notin DOMAIN generations]_vars

\* A generation takes up every student who was registered for its exams when
\* it was requested and none who is not registered when it is stored, although
\* its reads are spread over other requests' and imports' commits.
RostersFresh ==
    [][\A t \in Request :
        /\ At(t, "commit") /\ req[t].op \in {"exam", "session"} /\ reply' = <<t, "ok">>
        /\ req[t].since.resets = resets
        => LET subjects == {exams[req[t].ids[i]].course : i \in DOMAIN req[t].ids}
               of(table) == {x.student : x \in {y \in table : y.course \in subjects}}
               g == generations'[req[t].id]
               seated == {x.student : x \in seatRows' \ seatRows}
           IN  /\ g.registered >= Cardinality(of(req[t].since.registrations))
               /\ g.registered <= Cardinality(of(registrations))
               /\ seated \subseteq of(registrations)
               /\ g.unassigned = 0 => of(req[t].since.registrations) \subseteq seated]_vars

\* A room that several exams of a session share is filled up to what they
\* allocate together before anyone is left out.
SharedAllocationsHonoured ==
    \A t \in Request :
        At(t, "insert") /\ req[t].op = "session"
          /\ Cardinality(req[t].plan) < Cardinality(req[t].roster) =>
            \A i \in DOMAIN req[t].lines :
                LET room == req[t].lines[i].room
                    taken == {a.seat : a \in {b \in req[t].plan : b.room = room}}
                IN  \/ Cardinality(taken) = AllocatedTo(req[t].lines, room)
                    \/ LET read == req[t].layout[room]
                       IN  taken = (1..read.capacity) \ read.blocked

\* A session that was accepted stays fit to be generated: a student in two of
\* its exams, or a shared room that cannot hold what its exams allocate together,
\* can only be the doing of an import after its creation began.  Creation checks
\* both in reads spread over other requests' commits; generation checks the first
\* again and relies on the second.
AcceptedSessionsGenerate ==
    [][\A t \in Request :
        /\ At(t, "rooms") /\ Finished(t) /\ req[t].op = "session"
        /\ \/ reply' = <<t, "DuplicateStudentInSessionError">>
           \/ req'[t].at = "insert" /\ ~NoConflictingRoomUsage(req[t].lines)
        /\ req[t].since.resets = resets
        => sessions[req[t].of].since.imports < imports]_vars

\* No request runs into an assertion, or a session without exams, unless a reset was
\* committed while it was under way, or while the session it is to generate was being
\* created, or the last reset fell into an import of registrations or of a schedule,
\* which then stored rows that refer to others the reset had removed: what the handlers
\* assert of the rows that others store and delete is true otherwise.
OnlyResetsBreakRequests ==
    [][\A t \in Request :
        reply' \in {<<t, "AssertionError">>, <<t, "IndexError">>} =>
            \/ overtaken
            \/ req[t].since.resets # resets
            \/ /\ req[t].op = "session"
               /\ sessions[req[t].of].since.resets # resets]_vars

\* Unless the last reset fell into another request or an import, every reference
\* between rows resolves, ids handed out again after a reset included.  The schema
\* declares foreign keys but nothing enforces them.
ReferencesResolve ==
    ~disturbed =>
        /\ \A x \in registrations : Known(x.student) /\ x.course \in courses
        /\ \A e \in DOMAIN exams : exams[e].course \in courses
        /\ \A i \in DOMAIN examRooms :
              examRooms[i].exam \in DOMAIN exams /\ examRooms[i].room \in DOMAIN rooms
        /\ \A s \in DOMAIN sessions : \A i \in DOMAIN sessions[s].ids :
              sessions[s].ids[i] \in DOMAIN exams
        /\ \A g \in DOMAIN generations :
              generations[g].of \in
                  (IF generations[g].kind = "exam" THEN DOMAIN exams ELSE DOMAIN sessions)
        /\ \A x \in seatRows :
              /\ x.generation \in DOMAIN generations
              /\ x.exam \in DOMAIN exams
              /\ Known(x.student)

\* Every request is answered, however many other requests, imports and resets
\* cross its way: no loop is endless and nobody waits for the lock for ever.
EveryRequestAnswered == \A t \in Request : ~At(t, "idle") ~> At(t, "idle")
=============================================================================
