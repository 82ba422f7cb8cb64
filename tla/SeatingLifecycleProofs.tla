----------------------- MODULE SeatingLifecycleProofs -----------------------
(***************************************************************************)
(* What concurrent requests leave in the database, for any students, rooms *)
(* and threads, any files imported and any number of requests, imports,    *)
(* resets and restarts.                                                    *)
(***************************************************************************)
EXTENDS SeatingLifecycle, SeatingPlanProofs

\* Tables of rooms, a room's capacity as every file has it.
RoomTables ==
    {table \in UNION {[D -> RoomRecord] : D \in SUBSET RoomId} :
        \A r \in DOMAIN table : table[r].capacity = Capacity[r]}

Participant == [student : Student, exam : Nat, course : Course]
Seating == [student : Student, exam : Nat, room : RoomId, seat : Nat]
GenerationRecord ==
    [kind : {"exam", "session"}, of : Nat, registered : Nat, assigned : Nat,
     unassigned : Nat, status : {"success", "partial", "failed"}, layout : RoomTables]
SeatRow == [generation : Nat, exam : Nat, room : RoomId, seat : Nat, student : Student]

Ops == {"create", "exam", "session", "reset"}
Reading == {"rooms", "room_lookup", "students", "student_lookup"}
Stages ==
    {"session", "session_exams", "exams"} \cup Reading \cup {"insert", "commit", "respond"}

RequestRecord ==
    [op : Ops, at : Stages, of : Nat, ids : Seq(Nat), k : Nat \ {0},
     loaded : Seq([id : Nat, course : Course, slot : Slot]), lines : Seq(LineRecord),
     roster : SUBSET Participant, layout : RoomTables, plan : SUBSET Seating, id : Nat,
     since : [registrations : SUBSET Registration, imports : Nat, resets : Nat]]

\* An import under way, the file it was given and what it may have read.
ImporterTyped ==
    /\ importer.kind \in {"none", "registrations", "schedule", "rooms"}
    /\ importer.kind = "registrations" => importer.rows \in RegistrationFiles
    /\ importer.kind = "schedule" =>
          importer.group \in ScheduleFiles /\ importer.seen.exams \in Seq(ExamRecord)
    /\ importer.kind = "rooms" => importer.rooms \in RoomFiles

\* Every variable has its type; `reply` is whatever a handler answers.
TypeOK ==
    /\ students \subseteq Student /\ courses \subseteq Course
    /\ rooms \in RoomTables
    /\ registrations \subseteq Registration
    /\ exams \in Seq(ExamRecord)
    /\ examRooms \in Seq(LineRecord)
    /\ sessions \in Seq(SessionRecord)
    /\ generations \in Seq(GenerationRecord)
    /\ seatRows \subseteq SeatRow
    /\ writer \in Request \cup {NoRequest}
    /\ ImporterTyped
    /\ req \in [Request -> RequestRecord \cup {Idle}]
    /\ requests \in Nat /\ imports \in Nat /\ resets \in Nat
    /\ disturbed \in BOOLEAN /\ overtaken \in BOOLEAN

\* Who is about to commit holds the lock, so nobody else is, and the id it was given
\* is still the next one.
IdsReserved ==
    \A t \in Request : At(t, "commit") =>
        /\ writer = t
        /\ req[t].id = Len(IF req[t].op = "create" THEN sessions ELSE generations) + 1

\* What the strategy answered: nobody seated twice, no seat taken twice or blocked.
PlanSound(roster, plan, layout) ==
    /\ IsFiniteSet(plan) /\ Cardinality(plan) <= Cardinality(roster)
    /\ \A x \in plan : x.seat \in (1..layout[x.room].capacity) \ layout[x.room].blocked
    /\ \A x, y \in plan : x # y =>
          /\ x.student # y.student
          /\ x.room # y.room \/ x.seat # y.seat

\* What a request's local variables have to do with each other at its stages.
RequestSound(r) ==
    /\ NoRepeats(r.ids)
    /\ r.op = "exam" => Len(r.ids) = 1
    /\ r.at \in {"session", "session_exams"} =>
          r.op = "session" /\ r.k = 1 /\ r.ids = <<>> /\ r.loaded = <<>> /\ r.roster = {}
    /\ r.at = "exams" => r.k = Len(r.loaded) + 1
    /\ r.at \in Reading => Len(r.loaded) = Len(r.ids)
    /\ \A i \in DOMAIN r.loaded : i \in DOMAIN r.ids /\ r.loaded[i].id = r.ids[i]
    /\ IsFiniteSet(r.roster)
    /\ \A x \in r.roster : \E i \in DOMAIN r.loaded :
          x.exam = r.loaded[i].id /\ x.course = r.loaded[i].course
    /\ r.at \in {"insert", "commit"} /\ r.op \in {"exam", "session"} =>
          PlanSound(r.roster, r.plan, r.layout)

RequestsSound == \A t \in Request : ~At(t, "idle") => RequestSound(req[t])

\* What is stored.
TablesSound ==
    /\ IsFiniteSet(registrations)
    /\ \A s \in DOMAIN sessions : NoRepeats(sessions[s].ids)
    /\ \A x \in seatRows : x.generation \in DOMAIN generations
    /\ CountsMatchRows
    /\ GenerationsNeverCollide

\* The inductive invariant.
IInv == TypeOK /\ IdsReserved /\ RequestsSound /\ TablesSound

\* A table of rooms is what the assumption on the constants says it is.
LEMMA RoomTableIs ==
    ASSUME NEW table
    PROVE  IsRoomTable(table) <=> table \in RoomTables
BY DEF IsRoomTable, RoomTables

\* What is known of a table of rooms.
LEMMA RoomTableTyped ==
    ASSUME NEW table \in RoomTables
    PROVE  /\ DOMAIN table \in SUBSET RoomId /\ table \in [DOMAIN table -> RoomRecord]
           /\ \A r \in DOMAIN table : table[r] \in RoomRecord
           /\ \A r \in DOMAIN table : table[r].capacity = Capacity[r]
BY RoomTableIs DEF IsRoomTable

\* A database without rooms has a table of rooms too.
LEMMA NoRoomsTyped == << >> \in RoomTables
<1>1. DOMAIN << >> = {} /\ << >> \in [DOMAIN << >> -> RoomRecord]
    OBVIOUS
<1> QED
    BY <1>1, RoomTableIs DEF IsRoomTable
-----------------------------------------------------------------------------
\* A new row's id is one more than the number of rows.
LEMMA NextIdIsNext ==
    ASSUME NEW S, NEW table \in Seq(S)
    PROVE  NextId(table) = Len(table) + 1
<1> DEFINE n == Len(table)
<1>1. n \in Nat /\ DOMAIN table = 1..n
    OBVIOUS
<1> HIDE DEF n
<1>2. CASE n = 0
    BY <1>1, <1>2 DEF NextId, Max3, n
<1>3. CASE n # 0
    <2>1. n \in 1..n /\ \A m \in 1..n : m <= n
        BY <1>1, <1>3
    <2>2. \A k \in 1..n : (\A m \in 1..n : m <= k) => k = n
        BY <1>1, <2>1
    <2>3. (CHOOSE k \in 1..n : \A m \in 1..n : m <= k) = n
        BY <2>1, <2>2
    <2>4. 1..n # {}
        BY <2>1
    <2> QED
        BY <1>1, <2>3, <2>4 DEF NextId, Max3, n
<1> QED
    BY <1>2, <1>3

\* A row with the next id, or with one in use, leaves a table a table.
LEMMA RowAdded ==
    ASSUME NEW S, NEW table \in Seq(S), NEW row \in S,
           NEW id \in DOMAIN table \cup {NextId(table)}
    PROVE  WithRow(table, id, row) \in Seq(S)
<1> DEFINE n == Len(table)
           m == IF id = n + 1 THEN n + 1 ELSE n
           new == WithRow(table, id, row)
<1>1. n \in Nat /\ m \in Nat /\ DOMAIN table = 1..n /\ \A i \in 1..n : table[i] \in S
    BY ElementOfSeq
<1>2. 1..n \cup {id} = 1..m
    <2>1. id \in 1..(n + 1)
        BY <1>1, NextIdIsNext
    <2> QED
        BY <1>1, <2>1
<1>3. new = [i \in 1..m |-> IF i = id THEN row ELSE table[i]]
    BY <1>1, <1>2 DEF WithRow
<1>4. \A i \in 1..m : i = id \/ i \in 1..n
    BY <1>1
<1> HIDE DEF new, m
<1>5. new \in [1..m -> S]
    BY <1>1, <1>3, <1>4
<1> QED
    BY <1>1, <1>5 DEF new

-----------------------------------------------------------------------------
LEMMA InitIInv == Init => IInv
<1> SUFFICES ASSUME Init PROVE IInv
    OBVIOUS
<1>1. PICK s \in StartStates :
          /\ exams = s.exams /\ examRooms = s.lines
          /\ registrations = s.registrations /\ sessions = s.sessions
          /\ students = StudentsOf(s.registrations) /\ courses = CoursesOf(s.registrations)
          /\ rooms = s.rooms
    BY DEF Init
<1>2. /\ exams \in Seq(ExamRecord) /\ examRooms \in Seq(LineRecord)
      /\ IsFiniteSet(registrations) /\ registrations \subseteq Registration
      /\ sessions \in Seq(SessionRecord)
      /\ \A i \in DOMAIN sessions : NoRepeats(sessions[i].ids)
    BY <1>1, ConstantsAreTyped DEF ConstantsAssumption, Accepted
<1>3. /\ generations = <<>> /\ seatRows = {} /\ writer = NoRequest
      /\ importer = NoImport /\ req = [t \in Request |-> Idle]
      /\ requests = 0 /\ imports = 0 /\ resets = 0 /\ disturbed = FALSE
      /\ overtaken = FALSE
    BY DEF Init
<1>4. TypeOK
    <2>1. req \in [Request -> RequestRecord \cup {Idle}]
        BY <1>3
    <2>2. generations \in Seq(GenerationRecord)
        BY <1>3
    <2>3. students \subseteq Student /\ courses \subseteq Course
        BY <1>1, <1>2 DEF StudentsOf, CoursesOf, Registration
    <2>4. rooms \in RoomTables
        BY <1>1, RoomTableIs, ConstantsAreTyped DEF ConstantsAssumption
    <2>5. ImporterTyped
        BY <1>3 DEF ImporterTyped, NoImport
    <2> QED
        BY <1>2, <1>3, <2>1, <2>2, <2>3, <2>4, <2>5 DEF TypeOK
<1>5. \A t \in Request : req[t].at = "idle"
    BY <1>3 DEF Idle
<1>6. IdsReserved /\ RequestsSound
    BY <1>5 DEF IdsReserved, RequestsSound, At
<1>7. CountsMatchRows /\ GenerationsNeverCollide
    <2>1. DOMAIN generations = {}
        BY <1>3
    <2> QED
        BY <2>1 DEF CountsMatchRows, GenerationsNeverCollide
<1>8. TablesSound
    BY <1>2, <1>3, <1>7 DEF TablesSound
<1> QED
    BY <1>4, <1>6, <1>8 DEF IInv

\* A request under way has all its local variables.
LEMMA ActiveRequest ==
    ASSUME IInv, NEW t \in Request, ~At(t, "idle")
    PROVE  req[t] \in RequestRecord /\ RequestSound(req[t])
<1>1. req[t] \in RequestRecord \cup {Idle}
    BY DEF IInv, TypeOK
<1>2. req[t] # Idle
    BY DEF At, Idle
<1> QED
    BY <1>1, <1>2 DEF IInv, RequestsSound

\* Tables nobody writes to stay sound.
LEMMA SameTables ==
    ASSUME TablesSound, UNCHANGED tables
    PROVE  TablesSound'
<1>1. /\ registrations' = registrations /\ sessions' = sessions
      /\ seatRows' = seatRows /\ generations' = generations
    BY DEF tables
<1>2. \A g : RowsOf(g)' = RowsOf(g)
    BY <1>1 DEF RowsOf
<1>3. CountsMatchRows'
    BY <1>1, <1>2 DEF TablesSound, CountsMatchRows
<1>4. GenerationsNeverCollide'
    BY <1>1, <1>2 DEF TablesSound, GenerationsNeverCollide
<1> QED
    BY <1>1, <1>3, <1>4 DEF TablesSound

\* A step that only moves a request on, or starts one.
LEMMA MovesOn ==
    ASSUME IInv, NEW t \in Request, NEW r \in RequestRecord, RequestSound(r),
           req' = [req EXCEPT ![t] = r], r.at # "commit",
           UNCHANGED <<tables, writer, importer, imports, resets, disturbed, overtaken>>,
           requests' \in Nat
    PROVE  IInv'
<1>1. req' \in [Request -> RequestRecord \cup {Idle}] /\ req'[t] = r
    BY DEF IInv, TypeOK
<1>2. \A u \in Request \ {t} : req'[u] = req[u]
    BY DEF IInv, TypeOK
<1>3. TypeOK'
    BY <1>1 DEF IInv, TypeOK, ImporterTyped, tables
<1>4. IdsReserved'
    BY <1>1, <1>2 DEF IInv, IdsReserved, At, tables
<1>5. RequestsSound'
    BY <1>1, <1>2 DEF IInv, RequestsSound, At
<1>6. TablesSound'
    BY SameTables DEF IInv
<1> QED
    BY <1>3, <1>4, <1>5, <1>6 DEF IInv

\* Other requests, whose local variables and rows are left alone, keep what they have
\* when t's request ends.
LEMMA OthersStay ==
    ASSUME IInv, NEW t \in Request, NEW a, Answer(t, a)
    PROVE  /\ req' \in [Request -> RequestRecord \cup {Idle}]
           /\ writer' \in Request \cup {NoRequest}
           /\ RequestsSound'
           /\ req'[t] = Idle
           /\ \A u \in Request : At(u, "commit")' =>
                 u # t /\ req'[u] = req[u] /\ At(u, "commit") /\ (writer = u => writer' = u)
<1>1. req' = [req EXCEPT ![t] = Idle] /\ writer' = IF writer = t THEN NoRequest ELSE writer
    BY DEF Answer
<1>2. req' \in [Request -> RequestRecord \cup {Idle}] /\ req'[t] = Idle
    BY <1>1 DEF IInv, TypeOK
<1>3. \A u \in Request \ {t} : req'[u] = req[u]
    BY <1>1 DEF IInv, TypeOK
<1>4. writer' \in Request \cup {NoRequest}
    BY <1>1 DEF IInv, TypeOK
<1>5. RequestsSound'
    BY <1>2, <1>3 DEF IInv, RequestsSound, At, Idle
<1>6. ASSUME NEW u \in Request, At(u, "commit")'
      PROVE  u # t /\ req'[u] = req[u] /\ At(u, "commit") /\ (writer = u => writer' = u)
    BY <1>1, <1>2, <1>3, <1>6 DEF At, Idle
<1> QED
    BY <1>2, <1>4, <1>5, <1>6

\* A request that ends without having written anything.
LEMMA Ends ==
    ASSUME IInv, NEW t \in Request, NEW a, Answer(t, a), UNCHANGED <<tables, importer, counters>>
    PROVE  IInv'
<1>1. TypeOK'
    BY OthersStay DEF IInv, TypeOK, ImporterTyped, tables, counters
<1>2. IdsReserved'
    <2> SUFFICES ASSUME NEW u \in Request, At(u, "commit")'
                 PROVE  /\ writer' = u
                        /\ req'[u].id = Len(IF req'[u].op = "create" THEN sessions'
                                            ELSE generations') + 1
        BY DEF IdsReserved
    <2>1. req'[u] = req[u] /\ At(u, "commit") /\ (writer = u => writer' = u)
        BY OthersStay
    <2> QED
        BY <2>1 DEF IInv, IdsReserved, tables
<1>3. RequestsSound'
    BY OthersStay
<1>4. TablesSound'
    BY SameTables DEF IInv
<1> QED
    BY <1>1, <1>2, <1>3, <1>4 DEF IInv

\* A request that goes on to its next stage.
LEMMA Goes ==
    ASSUME IInv, NEW t \in Request, NEW r \in RequestRecord, RequestSound(r),
           Goto(t, r), r.at # "commit", UNCHANGED writer, UNCHANGED <<tables, importer, counters>>
    PROVE  IInv'
<1>1. requests' \in Nat
    BY DEF IInv, TypeOK, counters
<1>2. req' = [req EXCEPT ![t] = r]
    BY DEF Goto
<1>3. UNCHANGED <<tables, writer, importer, imports, resets, disturbed, overtaken>>
    BY DEF counters
<1> QED
    BY <1>1, <1>2, <1>3, MovesOn
-----------------------------------------------------------------------------
\* The steps of a request up to its commit keep the invariant.
LEMMA LoadSessionKeeps ==
    ASSUME IInv, NEW t \in Request, LoadSession(t)
    PROVE  IInv'
<1> DEFINE r == [req[t] EXCEPT !.at = "session_exams"]
<1>1. UNCHANGED <<tables, importer, counters>> /\ req[t].at = "session"
    BY DEF LoadSession, At
<1>2. req[t] \in RequestRecord /\ RequestSound(req[t])
    BY <1>1, ActiveRequest DEF At
<1>3. r \in RequestRecord /\ RequestSound(r) /\ r.at # "commit"
    <2>1. r \in RequestRecord
        BY <1>2 DEF RequestRecord, Stages
    <2> QED
        BY <1>1, <1>2, <2>1 DEF RequestRecord, RequestSound, Reading
<1>4. CASE Goto(t, r) /\ UNCHANGED writer
    <2> HIDE DEF r
    <2> QED
        BY <1>1, <1>3, <1>4, Goes
<1>5. CASE Answer(t, "SessionNotFoundError")
    BY <1>1, <1>5, Ends
<1> QED
    BY <1>4, <1>5 DEF LoadSession

LEMMA LoadSessionExamsKeeps ==
    ASSUME IInv, NEW t \in Request, LoadSessionExams(t)
    PROVE  IInv'
<1> DEFINE s == req[t].of
           ids == IF s \in DOMAIN sessions THEN sessions[s].ids ELSE <<>>
           r == [req[t] EXCEPT !.at = "exams", !.ids = ids]
<1>1. /\ UNCHANGED <<tables, importer, counters>> /\ UNCHANGED writer
      /\ req[t].at = "session_exams" /\ Goto(t, r)
    BY DEF LoadSessionExams, At
<1>2. req[t] \in RequestRecord /\ RequestSound(req[t])
    BY <1>1, ActiveRequest DEF At
<1>3. ids \in Seq(Nat) /\ NoRepeats(ids)
    <2>1. CASE s \in DOMAIN sessions
        <3>1. sessions \in Seq(SessionRecord) /\ s \in 1..Len(sessions)
            BY <2>1 DEF IInv, TypeOK
        <3>2. sessions[s] \in SessionRecord
            BY <3>1, ElementOfSeq
        <3> QED
            BY <2>1, <3>2 DEF SessionRecord, IInv, TablesSound
    <2>2. CASE s \notin DOMAIN sessions
        BY <2>2 DEF NoRepeats
    <2> QED
        BY <2>1, <2>2
<1> HIDE DEF ids
<1>4. r \in RequestRecord
    BY <1>2, <1>3 DEF RequestRecord, Stages
<1>5. RequestSound(r) /\ r.at # "commit"
    <2>1. /\ req[t].op = "session" /\ req[t].k = 1 /\ req[t].loaded = <<>>
          /\ req[t].roster = {}
        BY <1>1, <1>2 DEF RequestSound
    <2>2. /\ r.at = "exams" /\ r.op = "session" /\ r.k = 1 /\ r.loaded = <<>>
          /\ r.roster = {} /\ r.ids = ids
        BY <1>2, <2>1 DEF RequestRecord
    <2>3. IsFiniteSet(r.roster)
        BY <2>2, FS_EmptySet
    <2> HIDE DEF r
    <2>4. Len(r.loaded) = 0 /\ DOMAIN r.loaded = {}
        BY <2>2
    <2> QED
        BY <1>3, <2>2, <2>3, <2>4 DEF RequestSound, Reading
<1> HIDE DEF r
<1> QED
    BY <1>1, <1>4, <1>5, Goes

LEMMA LoadExamKeeps ==
    ASSUME IInv, NEW t \in Request, LoadExam(t)
    PROVE  IInv'
<1> DEFINE e == req[t].ids[req[t].k]
           row == [id |-> e, course |-> exams[e].course, slot |-> exams[e].slot]
           more == Append(req[t].loaded, row)
           r == [req[t] EXCEPT !.k = @ + 1, !.loaded = more]
<1>1. UNCHANGED <<tables, importer, counters>> /\ req[t].at = "exams" /\ ~Finished(t)
    BY DEF LoadExam, At
<1>2. req[t] \in RequestRecord /\ RequestSound(req[t])
    BY <1>1, ActiveRequest DEF At
<1>3. CASE e \in DOMAIN exams /\ Goto(t, r) /\ UNCHANGED writer
    <2> DEFINE old == req[t]
               n == Len(old.loaded)
    <2>1. /\ old.ids \in Seq(Nat) /\ old.k \in Nat \ {0} /\ old.k <= Len(old.ids)
          /\ old.loaded \in Seq([id : Nat, course : Course, slot : Slot])
          /\ n \in Nat /\ DOMAIN old.loaded = 1..n /\ old.k = n + 1
        BY <1>1, <1>2 DEF RequestRecord, RequestSound, Finished
    <2>2. e \in Nat
        <3> DEFINE ids == old.ids
                   k == old.k
        <3>1. ids \in Seq(Nat) /\ k \in 1..Len(ids)
            BY <2>1
        <3> HIDE DEF ids, k
        <3>2. ids[k] \in Nat
            BY <3>1, ElementOfSeq
        <3> QED
            BY <3>2 DEF ids, k
    <2>3. exams[e] \in ExamRecord
        <3>1. exams \in Seq(ExamRecord) /\ e \in 1..Len(exams)
            BY <1>3 DEF IInv, TypeOK
        <3> QED
            BY <3>1, ElementOfSeq
    <2>4. row \in [id : Nat, course : Course, slot : Slot] /\ row.id = e
        BY <2>2, <2>3 DEF ExamRecord
    <2> HIDE DEF row, e
    <2>5. /\ more \in Seq([id : Nat, course : Course, slot : Slot])
          /\ Len(more) = n + 1 /\ DOMAIN more = 1..(n + 1)
          /\ \A i \in 1..n : more[i] = old.loaded[i]
          /\ more[n + 1] = row
        BY <2>1, <2>4
    <2> HIDE DEF more
    <2>6. r \in RequestRecord
        <3> DEFINE next == req[t].k + 1
        <3>1. next \in Nat \ {0}
            BY <2>1
        <3> HIDE DEF next
        <3>2. [req[t] EXCEPT !.k = next, !.loaded = more] \in RequestRecord
            BY <1>2, <2>5, <3>1 DEF RequestRecord
        <3> QED
            BY <3>2 DEF next
    <2>7. /\ r.op = old.op /\ r.at = "exams" /\ r.ids = old.ids /\ r.k = old.k + 1
          /\ r.loaded = more /\ r.roster = old.roster
        BY <1>1, <1>2 DEF RequestRecord
    <2>8. \A i \in DOMAIN r.loaded : i \in DOMAIN r.ids /\ r.loaded[i].id = r.ids[i]
        <3> SUFFICES ASSUME NEW i \in 1..(n + 1)
                     PROVE  i \in DOMAIN r.ids /\ r.loaded[i].id = r.ids[i]
            BY <2>5, <2>7
        <3>1. CASE i = n + 1
            <4>1. r.loaded[i].id = e
                BY <2>4, <2>5, <2>7, <3>1
            <4>2. i = old.k /\ i \in DOMAIN old.ids
                BY <2>1, <3>1
            <4> QED
                BY <2>7, <4>1, <4>2 DEF e
        <3>2. CASE i \in 1..n
            <4>1. i \in DOMAIN old.ids /\ old.loaded[i].id = old.ids[i]
                BY <1>2, <2>1, <3>2 DEF RequestSound
            <4> QED
                BY <2>5, <2>7, <3>2, <4>1
        <3> QED
            BY <2>1, <3>1, <3>2
    <2>9. \A x \in r.roster : \E i \in DOMAIN r.loaded :
              x.exam = r.loaded[i].id /\ x.course = r.loaded[i].course
        <3> SUFFICES ASSUME NEW x \in old.roster
                     PROVE  \E i \in 1..(n + 1) :
                                x.exam = r.loaded[i].id /\ x.course = r.loaded[i].course
            BY <2>5, <2>7
        <3>1. PICK i \in DOMAIN old.loaded :
                  x.exam = old.loaded[i].id /\ x.course = old.loaded[i].course
            BY <1>2 DEF RequestSound
        <3>2. r.loaded[i] = old.loaded[i] /\ i \in 1..(n + 1)
            BY <2>1, <2>5, <2>7
        <3> QED
            BY <3>1, <3>2
    <2> HIDE DEF r
    <2>10. /\ NoRepeats(r.ids) /\ IsFiniteSet(r.roster)
           /\ r.op = "exam" => Len(r.ids) = 1
           /\ r.k = Len(r.loaded) + 1
        BY <1>2, <2>1, <2>5, <2>7 DEF RequestSound
    <2>11. RequestSound(r)
        BY <2>7, <2>8, <2>9, <2>10 DEF RequestSound, Reading
    <2> QED
        BY <1>1, <1>3, <2>6, <2>7, <2>11, Goes
<1>4. CASE \E a : Answer(t, a)
    BY <1>1, <1>4, Ends
<1> QED
    BY <1>3, <1>4 DEF LoadExam

\* A request that goes on reading, or ends its reading to create a session.
LEMMA ReadingSound ==
    ASSUME NEW r, RequestSound(r), NEW s,
           s.ids = r.ids, s.loaded = r.loaded, s.roster = r.roster, s.op = r.op,
           r.at \in Reading \/ Len(r.loaded) = Len(r.ids),
           s.at \in Reading \/ (s.op = "create" /\ s.at = "insert")
    PROVE  RequestSound(s)
<1>1. Len(s.loaded) = Len(s.ids)
    BY DEF RequestSound
<1>2. /\ NoRepeats(s.ids) /\ (s.op = "exam" => Len(s.ids) = 1)
      /\ \A i \in DOMAIN s.loaded : i \in DOMAIN s.ids /\ s.loaded[i].id = s.ids[i]
      /\ IsFiniteSet(s.roster)
      /\ \A x \in s.roster : \E i \in DOMAIN s.loaded :
            x.exam = s.loaded[i].id /\ x.course = s.loaded[i].course
    BY DEF RequestSound
<1> QED
    BY <1>1, <1>2 DEF RequestSound, Reading

LEMMA ExamsLoadedKeeps ==
    ASSUME IInv, NEW t \in Request, ExamsLoaded(t)
    PROVE  IInv'
<1> DEFINE r == [req[t] EXCEPT !.at = "rooms", !.k = 1]
<1>1. UNCHANGED <<tables, importer, counters>> /\ req[t].at = "exams" /\ Finished(t)
    BY DEF ExamsLoaded, At
<1>2. req[t] \in RequestRecord /\ RequestSound(req[t])
    BY <1>1, ActiveRequest DEF At
<1>3. /\ r \in RequestRecord /\ r.at = "rooms" /\ r.op = req[t].op /\ r.ids = req[t].ids
      /\ r.loaded = req[t].loaded /\ r.roster = req[t].roster
    <2> DEFINE k == 1
    <2>1. k \in Nat \ {0}
        OBVIOUS
    <2> HIDE DEF k
    <2>2. [req[t] EXCEPT !.at = "rooms", !.k = k] \in RequestRecord
        BY <1>2, <2>1 DEF RequestRecord, Stages, Reading
    <2>3. r \in RequestRecord
        BY <2>2 DEF k
    <2> QED
        BY <1>2, <2>3 DEF RequestRecord
<1>4. Len(req[t].loaded) = Len(req[t].ids)
    <2> DEFINE loaded == req[t].loaded
               ids == req[t].ids
    <2>1. /\ loaded \in Seq([id : Nat, course : Course, slot : Slot]) /\ ids \in Seq(Nat)
          /\ req[t].k = Len(loaded) + 1
          /\ \A i \in DOMAIN loaded : i \in DOMAIN ids
          /\ req[t].k > Len(ids)
        BY <1>1, <1>2 DEF RequestRecord, RequestSound, Finished
    <2> HIDE DEF loaded, ids
    <2>2. Len(loaded) \in Nat /\ Len(ids) \in Nat /\ DOMAIN loaded = 1..Len(loaded)
          /\ DOMAIN ids = 1..Len(ids)
        BY <2>1
    <2>3. Len(loaded) >= Len(ids)
        BY <2>1, <2>2
    <2>4. CASE Len(loaded) = 0
        BY <2>2, <2>3, <2>4 DEF loaded, ids
    <2>5. CASE Len(loaded) # 0
        <3>1. Len(loaded) \in DOMAIN loaded
            BY <2>2, <2>5
        <3>2. Len(loaded) \in 1..Len(ids)
            BY <2>1, <2>2, <3>1
        <3> QED
            BY <2>2, <2>3, <3>2 DEF loaded, ids
    <2> QED
        BY <2>4, <2>5
<1> HIDE DEF r
<1>5. RequestSound(r)
    BY <1>2, <1>3, <1>4, ReadingSound DEF Reading
<1>6. CASE Goto(t, r) /\ UNCHANGED writer
    BY <1>1, <1>3, <1>5, <1>6, Goes
<1>7. CASE Answer(t, "IncompatibleExamScheduleError")
    BY <1>1, <1>7, Ends
<1> QED
    BY <1>6, <1>7 DEF ExamsLoaded, r

LEMMA ListRoomsKeeps ==
    ASSUME IInv, NEW t \in Request, ListRooms(t)
    PROVE  IInv'
<1> DEFINE listed == {i \in DOMAIN examRooms : examRooms[i].exam = req[t].ids[req[t].k]}
           lines == req[t].lines \o Chosen(examRooms, listed)
           r == [req[t] EXCEPT !.at = "room_lookup", !.lines = lines]
<1>1. /\ UNCHANGED <<tables, importer, counters>> /\ UNCHANGED writer /\ req[t].at = "rooms"
      /\ Goto(t, r)
    BY DEF ListRooms, Listed, At
<1>2. req[t] \in RequestRecord /\ RequestSound(req[t])
    BY <1>1, ActiveRequest DEF At
<1>3. lines \in Seq(LineRecord)
    <2>1. examRooms \in Seq(LineRecord) /\ listed \in SUBSET (DOMAIN examRooms)
        BY DEF IInv, TypeOK
    <2> HIDE DEF listed
    <2>2. Chosen(examRooms, listed) \in Seq(LineRecord)
        BY <2>1, ChosenIsSequence
    <2>3. req[t].lines \in Seq(LineRecord)
        BY <1>2 DEF RequestRecord
    <2> QED
        BY <2>2, <2>3
<1> HIDE DEF lines
<1>4. r \in RequestRecord
    BY <1>2, <1>3 DEF RequestRecord, Stages, Reading
<1>5. /\ r.at = "room_lookup" /\ r.op = req[t].op /\ r.ids = req[t].ids
      /\ r.loaded = req[t].loaded /\ r.roster = req[t].roster
    BY <1>2 DEF RequestRecord
<1> HIDE DEF r
<1>6. RequestSound(r)
    BY <1>1, <1>2, <1>5, ReadingSound DEF Reading
<1> QED
    BY <1>1, <1>4, <1>5, <1>6, Goes

LEMMA LookUpRoomsKeeps ==
    ASSUME IInv, NEW t \in Request, LookUpRooms(t)
    PROVE  IInv'
<1> DEFINE r == [req[t] EXCEPT !.at = "rooms", !.k = @ + 1]
           s == [req[t] EXCEPT !.at = "students"]
<1>1. UNCHANGED <<tables, importer, counters>> /\ req[t].at = "room_lookup"
    BY DEF LookUpRooms, At
<1>2. req[t] \in RequestRecord /\ RequestSound(req[t])
    BY <1>1, ActiveRequest DEF At
<1>3. req[t].k \in Nat \ {0} /\ req[t].k + 1 \in Nat \ {0}
    BY <1>2 DEF RequestRecord
<1>4. /\ r \in RequestRecord /\ r.at = "rooms" /\ r.op = req[t].op /\ r.ids = req[t].ids
      /\ r.loaded = req[t].loaded /\ r.roster = req[t].roster
    <2>1. r \in RequestRecord
        <3> DEFINE next == req[t].k + 1
        <3> HIDE DEF next
        <3>1. [req[t] EXCEPT !.at = "rooms", !.k = next] \in RequestRecord
            BY <1>2, <1>3 DEF RequestRecord, Stages, Reading, next
        <3> QED
            BY <3>1 DEF next
    <2> QED
        BY <1>2, <2>1 DEF RequestRecord
<1>5. /\ s \in RequestRecord /\ s.at = "students" /\ s.op = req[t].op
      /\ s.ids = req[t].ids /\ s.loaded = req[t].loaded /\ s.roster = req[t].roster
    <2>1. s \in RequestRecord
        BY <1>2 DEF RequestRecord, Stages, Reading
    <2> QED
        BY <1>2, <2>1 DEF RequestRecord
<1> HIDE DEF r, s
<1>6. RequestSound(r) /\ RequestSound(s)
    BY <1>1, <1>2, <1>4, <1>5, ReadingSound DEF Reading
<1>7. CASE Goto(t, r) /\ UNCHANGED writer
    BY <1>1, <1>4, <1>6, <1>7, Goes
<1>8. CASE Goto(t, s) /\ UNCHANGED writer
    BY <1>1, <1>5, <1>6, <1>8, Goes
<1>9. CASE Answer(t, "AssertionError")
    BY <1>1, <1>9, Ends
<1> QED
    BY <1>7, <1>8, <1>9 DEF LookUpRooms, r, s

LEMMA RoomsListedKeeps ==
    ASSUME IInv, NEW t \in Request, RoomsListed(t)
    PROVE  IInv'
<1> DEFINE r == [req[t] EXCEPT !.at = "students", !.k = 1]
<1>1. UNCHANGED <<tables, importer, counters>> /\ req[t].at = "rooms"
    BY DEF RoomsListed, At
<1>2. req[t] \in RequestRecord /\ RequestSound(req[t])
    BY <1>1, ActiveRequest DEF At
<1>3. /\ r \in RequestRecord /\ r.at = "students" /\ r.op = req[t].op
      /\ r.ids = req[t].ids /\ r.loaded = req[t].loaded /\ r.roster = req[t].roster
    <2> DEFINE k == 1
    <2>1. k \in Nat \ {0}
        OBVIOUS
    <2> HIDE DEF k
    <2>2. [req[t] EXCEPT !.at = "students", !.k = k] \in RequestRecord
        BY <1>2, <2>1 DEF RequestRecord, Stages, Reading
    <2>3. r \in RequestRecord
        BY <2>2 DEF k
    <2> QED
        BY <1>2, <2>3 DEF RequestRecord
<1> HIDE DEF r
<1>4. RequestSound(r)
    BY <1>1, <1>2, <1>3, ReadingSound DEF Reading
<1>5. CASE Goto(t, r) /\ UNCHANGED writer
    BY <1>1, <1>3, <1>4, <1>5, Goes
<1>6. CASE Answer(t, "ConflictingRoomAllocationError")
    BY <1>1, <1>6, Ends
<1> QED
    BY <1>5, <1>6 DEF RoomsListed, r

LEMMA ListStudentsKeeps ==
    ASSUME IInv, NEW t \in Request, ListStudents(t)
    PROVE  IInv'
<1> DEFINE old == req[t]
           e == old.loaded[old.k]
           listed == {y \in registrations : y.course = e.course}
           new == {[student |-> x.student, exam |-> e.id, course |-> e.course] : x \in listed}
           roster == old.roster \cup new
           r == [req[t] EXCEPT !.at = "student_lookup", !.roster = roster]
<1>1. /\ UNCHANGED <<tables, importer, counters>> /\ UNCHANGED writer /\ old.at = "students"
      /\ ~Finished(t) /\ Goto(t, r)
    BY DEF ListStudents, At
<1>2. old \in RequestRecord /\ RequestSound(old)
    BY <1>1, ActiveRequest DEF At
<1>3. old.k \in DOMAIN old.loaded
    <2>1. old.k \in Nat \ {0} /\ old.k <= Len(old.ids) /\ old.ids \in Seq(Nat)
        BY <1>1, <1>2 DEF RequestRecord, Finished
    <2>2. Len(old.loaded) = Len(old.ids)
        BY <1>1, <1>2 DEF RequestSound, Reading
    <2>3. old.loaded \in Seq([id : Nat, course : Course, slot : Slot])
        BY <1>2 DEF RequestRecord
    <2> HIDE DEF old
    <2> QED
        BY <2>1, <2>2, <2>3
<1>4. e \in [id : Nat, course : Course, slot : Slot]
    <2>1. old.loaded \in Seq([id : Nat, course : Course, slot : Slot])
        BY <1>2 DEF RequestRecord
    <2> HIDE DEF old
    <2>2. old.k \in 1..Len(old.loaded)
        BY <1>3, <2>1
    <2> QED
        BY <2>1, <2>2, ElementOfSeq
<1>5. new \subseteq Participant
    <2> HIDE DEF e, old
    <2>1. \A x \in listed : x.student \in Student
        BY DEF IInv, TypeOK, Registration
    <2> QED
        BY <1>4, <2>1 DEF Participant
<1>6. IsFiniteSet(new)
    <2> DEFINE f == [x \in listed |-> [student |-> x.student, exam |-> e.id,
                                       course |-> e.course]]
    <2>1. listed \in SUBSET registrations /\ IsFiniteSet(registrations)
        BY DEF IInv, TablesSound
    <2>2. new = {f[x] : x \in listed} /\ DOMAIN f = listed
        OBVIOUS
    <2> HIDE DEF listed, f, new
    <2>3. IsFiniteSet(listed)
        BY <2>1, FS_Subset
    <2> QED
        BY <2>2, <2>3, FiniteImage
<1>7. \A x \in new : x.exam = e.id /\ x.course = e.course
    OBVIOUS
<1> HIDE DEF new
<1>8. IsFiniteSet(roster) /\ roster \subseteq Participant
    <2>1. IsFiniteSet(old.roster) /\ old.roster \subseteq Participant
        BY <1>2 DEF RequestRecord, RequestSound
    <2> HIDE DEF old
    <2> QED
        BY <1>5, <1>6, <2>1, FS_Union
<1>9. \A x \in roster : \E i \in DOMAIN old.loaded :
          x.exam = old.loaded[i].id /\ x.course = old.loaded[i].course
    BY <1>2, <1>3, <1>7 DEF RequestSound
<1> HIDE DEF roster
<1>10. r \in RequestRecord
    BY <1>2, <1>8 DEF RequestRecord, Stages, Reading
<1>11. /\ r.at = "student_lookup" /\ r.op = old.op /\ r.ids = old.ids
       /\ r.loaded = old.loaded /\ r.roster = roster
    BY <1>2 DEF RequestRecord
<1> HIDE DEF r
<1>12. RequestSound(r)
    <2> HIDE DEF old
    <2>1. /\ NoRepeats(r.ids) /\ (r.op = "exam" => Len(r.ids) = 1)
          /\ Len(r.loaded) = Len(r.ids)
          /\ \A i \in DOMAIN r.loaded : i \in DOMAIN r.ids /\ r.loaded[i].id = r.ids[i]
        BY <1>1, <1>2, <1>11 DEF RequestSound, Reading
    <2>2. /\ IsFiniteSet(r.roster)
          /\ \A x \in r.roster : \E i \in DOMAIN r.loaded :
                x.exam = r.loaded[i].id /\ x.course = r.loaded[i].course
        BY <1>8, <1>9, <1>11
    <2> QED
        BY <1>11, <2>1, <2>2 DEF RequestSound
<1> QED
    BY <1>1, <1>10, <1>11, <1>12, Goes

LEMMA LookUpStudentsKeeps ==
    ASSUME IInv, NEW t \in Request, LookUpStudents(t)
    PROVE  IInv'
<1> DEFINE stage == IF req[t].op = "create" THEN "students" ELSE "rooms"
           next == req[t].k + 1
           r == [req[t] EXCEPT !.at = stage, !.k = next]
<1>1. UNCHANGED <<tables, importer, counters>> /\ req[t].at = "student_lookup"
    BY DEF LookUpStudents, At
<1>2. req[t] \in RequestRecord /\ RequestSound(req[t])
    BY <1>1, ActiveRequest DEF At
<1>3. (Goto(t, r) /\ UNCHANGED writer) \/ Answer(t, "AssertionError")
    BY DEF LookUpStudents
<1>4. next \in Nat \ {0} /\ stage \in Reading
    BY <1>2 DEF RequestRecord, Reading
<1> HIDE DEF next, stage
<1>5. r \in RequestRecord
    BY <1>2, <1>4 DEF RequestRecord, Stages
<1>6. /\ r.at = stage /\ r.op = req[t].op /\ r.ids = req[t].ids
      /\ r.loaded = req[t].loaded /\ r.roster = req[t].roster
    BY <1>2 DEF RequestRecord
<1> HIDE DEF r
<1>7. RequestSound(r)
    BY <1>1, <1>2, <1>4, <1>6, ReadingSound DEF Reading
<1>8. r.at # "commit"
    BY <1>4, <1>6 DEF Reading
<1> QED
    BY <1>1, <1>3, <1>5, <1>7, <1>8, Goes, Ends

LEMMA StudentsListedKeeps ==
    ASSUME IInv, NEW t \in Request, StudentsListed(t)
    PROVE  IInv'
<1> DEFINE r == [req[t] EXCEPT !.at = "insert"]
<1>1. UNCHANGED <<tables, importer, counters>> /\ req[t].at = "students" /\ req[t].op = "create"
    BY DEF StudentsListed, At
<1>2. req[t] \in RequestRecord /\ RequestSound(req[t])
    BY <1>1, ActiveRequest DEF At
<1>3. (Goto(t, r) /\ UNCHANGED writer) \/ Answer(t, "DuplicateStudentInSessionError")
    BY DEF StudentsListed
<1>4. r \in RequestRecord
    BY <1>2 DEF RequestRecord, Stages
<1>5. /\ r.at = "insert" /\ r.op = req[t].op /\ r.ids = req[t].ids
      /\ r.loaded = req[t].loaded /\ r.roster = req[t].roster
    BY <1>2 DEF RequestRecord
<1> HIDE DEF r
<1>6. RequestSound(r)
    BY <1>1, <1>2, <1>5, ReadingSound DEF Reading
<1> QED
    BY <1>1, <1>3, <1>4, <1>5, <1>6, Goes, Ends
-----------------------------------------------------------------------------
\* In the roster a generation is made from, every participant is a student of its own.
LEMMA RosterDistinct ==
    ASSUME NEW r \in RequestRecord, RequestSound(r), r.at \in Reading,
           r.op = "exam" \/ (r.op = "session" /\ NoDuplicateStudent(r.roster)),
           NEW x \in r.roster, NEW y \in r.roster, x.student = y.student
    PROVE  x = y
<1>1. r.roster \subseteq Participant /\ x \in Participant /\ y \in Participant
    BY DEF RequestRecord
<1>2. PICK i \in DOMAIN r.loaded : x.exam = r.loaded[i].id /\ x.course = r.loaded[i].course
    BY DEF RequestSound
<1>3. PICK j \in DOMAIN r.loaded : y.exam = r.loaded[j].id /\ y.course = r.loaded[j].course
    BY DEF RequestSound
<1>4. i = j
    <2>1. CASE r.op = "exam"
        <3>1. Len(r.loaded) = 1
            BY <2>1 DEF RequestSound
        <3>2. r.loaded \in Seq([id : Nat, course : Course, slot : Slot])
            BY DEF RequestRecord
        <3>3. DOMAIN r.loaded = 1..1
            BY <3>1, <3>2
        <3> QED
            BY <1>2, <1>3, <3>3
    <2>2. CASE r.op = "session" /\ NoDuplicateStudent(r.roster)
        <3>1. x.exam = y.exam
            BY <2>2 DEF NoDuplicateStudent
        <3>2. /\ i \in DOMAIN r.ids /\ r.loaded[i].id = r.ids[i]
              /\ j \in DOMAIN r.ids /\ r.loaded[j].id = r.ids[j]
            BY <1>2, <1>3 DEF RequestSound
        <3>3. r.ids[i] = r.ids[j]
            BY <1>2, <1>3, <3>1, <3>2
        <3> QED
            BY <3>2, <3>3 DEF RequestSound, NoRepeats
    <2> QED
        BY <2>1, <2>2
<1>5. x.exam = y.exam /\ x.course = y.course
    BY <1>2, <1>3, <1>4
<1> QED
    BY <1>1, <1>5 DEF Participant

\* The sort key puts each of them at a place of its own.
LEMMA AheadDiffers ==
    ASSUME NEW roster \in SUBSET Participant, IsFiniteSet(roster),
           \A x, y \in roster : x.student = y.student => x = y,
           NEW x \in roster, NEW y \in roster, Ahead(roster)[x] = Ahead(roster)[y]
    PROVE  x = y
<1> DEFINE before(z) == {w \in roster : Earlier(w, z)}
<1>1. \A z \in roster : z.student \in Nat /\ z.course \in Nat
    BY ConstantsAreTyped DEF Participant, ConstantsAssumption
<1>2. ASSUME NEW a \in roster, NEW b \in roster, Earlier(a, b)
      PROVE  Cardinality(before(a)) < Cardinality(before(b))
    <2>1. a \in before(b) /\ a \notin before(a)
        BY <1>1, <1>2 DEF Earlier
    <2>2. \A w \in roster : Earlier(w, a) => Earlier(w, b)
        BY <1>1, <1>2 DEF Earlier
    <2>3. before(a) \in SUBSET before(b) /\ before(b) \in SUBSET roster
        BY <2>2
    <2> HIDE DEF before
    <2>4. IsFiniteSet(before(b))
        BY <2>3, FS_Subset
    <2> QED
        BY <2>1, <2>3, <2>4, SmallerSet
<1>3. ASSUME NEW a \in roster PROVE Cardinality(before(a)) \in Nat
    <2>1. before(a) \in SUBSET roster
        OBVIOUS
    <2> HIDE DEF before
    <2> QED
        BY <2>1, FS_Subset, FS_CardinalityType
<1>4. x = y \/ Earlier(x, y) \/ Earlier(y, x)
    <2>1. x.student = y.student => x = y
        OBVIOUS
    <2> QED
        BY <1>1, <2>1 DEF Earlier
<1> DEFINE nx == Cardinality(before(x))
           ny == Cardinality(before(y))
<1>5. nx = ny
    BY DEF Ahead
<1>6. nx \in Nat /\ ny \in Nat
    BY <1>3
<1>7. (Earlier(x, y) => nx < ny) /\ (Earlier(y, x) => ny < nx)
    BY <1>2
<1> HIDE DEF nx, ny
<1> QED
    BY <1>4, <1>5, <1>6, <1>7

\* The rooms a generation fills can be scanned.
LEMMA AllocationsPlaceable ==
    ASSUME NEW r \in RequestRecord, NEW layout \in RoomTables,
           \A i \in DOMAIN AllocationsOf(r) : AllocationsOf(r)[i].room \in DOMAIN layout
    PROVE  Placeable(DOMAIN layout, AllocationsOf(r), layout)
<1> DEFINE lines == r.lines
           n == Len(lines)
<1>1. lines \in Seq(LineRecord)
    BY DEF RequestRecord
<1> HIDE DEF lines
<1>2. n \in Nat /\ DOMAIN lines = 1..n /\ \A i \in 1..n : lines[i] \in LineRecord
    BY <1>1, ElementOfSeq
<1>4. IsFiniteSet(1..n) /\ 1..n \subseteq Nat
    BY <1>2, FS_Interval
<1>5. layout \in [DOMAIN layout -> RoomRecord]
    BY RoomTableTyped
<1>6. CASE r.op = "session"
    <2> DEFINE all == MergedAllocations(lines)
    <2>1. DOMAIN all = FirstPlaces(lines) /\ \A i \in FirstPlaces(lines) :
              all[i].room = lines[i].room
        BY DEF MergedAllocations
    <2>2. FirstPlaces(lines) \in SUBSET (1..n)
        BY <1>2 DEF FirstPlaces
    <2>3. IsFiniteSet(FirstPlaces(lines))
        BY <1>4, <2>2, FS_Subset
    <2>4. AllocationsOf(r) = all
        BY <1>6 DEF AllocationsOf, lines
    <2> HIDE DEF all
    <2>5. \A i \in DOMAIN all : all[i].room \in DOMAIN layout
        BY <2>4
    <2> QED
        BY <1>4, <1>5, <2>1, <2>2, <2>3, <2>4, <2>5 DEF Placeable
<1>7. CASE r.op # "session"
    <2> DEFINE all == [i \in DOMAIN lines |-> [room |-> lines[i].room,
                                               allocated |-> lines[i].allocated]]
    <2>1. DOMAIN all = 1..n /\ \A i \in 1..n : all[i].room = lines[i].room
        BY <1>2
    <2>2. AllocationsOf(r) = all
        BY <1>7 DEF AllocationsOf, lines
    <2> HIDE DEF all
    <2>3. \A i \in DOMAIN all : all[i].room \in DOMAIN layout
        BY <2>2
    <2> QED
        BY <1>4, <1>5, <2>1, <2>2, <2>3 DEF Placeable
<1> QED
    BY <1>6, <1>7

\* The plan of a request that has read all it needs: the students of its roster, each
\* at most once, on usable seats.
PlanOf(r, layout) == SeatingOf(Ahead(r.roster), Candidates(AllocationsOf(r), layout))

LEMMA PlanFromRoster ==
    ASSUME NEW r \in RequestRecord, RequestSound(r), r.at = "rooms",
           r.op = "exam" \/ (r.op = "session" /\ NoDuplicateStudent(r.roster)),
           RoomsDistinct(AllocationsOf(r)), NEW layout \in RoomTables,
           \A i \in DOMAIN AllocationsOf(r) : AllocationsOf(r)[i].room \in DOMAIN layout
    PROVE  /\ \A x, y \in r.roster : x.student = y.student => x = y
           /\ IsFiniteSet(PlanOf(r, layout))
           /\ Cardinality(PlanOf(r, layout)) <= Cardinality(r.roster)
           /\ \A z \in PlanOf(r, layout) :
                 /\ z.room \in DOMAIN layout /\ z.seat \in UsableSeats(layout[z.room])
                 /\ \E x \in r.roster : z = [student |-> x.student, exam |-> x.exam,
                                             room |-> z.room, seat |-> z.seat]
           /\ \A z, w \in PlanOf(r, layout) : z # w =>
                 /\ z.student # w.student
                 /\ z.room # w.room \/ z.seat # w.seat
<1> DEFINE D == r.roster
           allocations == AllocationsOf(r)
           ahead == Ahead(D)
<1>1. IsFiniteSet(D) /\ D \in SUBSET Participant
    BY DEF RequestRecord, RequestSound
<1>2. \A x, y \in D : x.student = y.student => x = y
    BY RosterDistinct DEF Reading
<1>3. \A x, y \in D : ahead[x] = ahead[y] => x = y
    BY <1>1, <1>2, AheadDiffers
<1>4. DOMAIN ahead = D
    BY DEF Ahead
<1>5. Placeable(DOMAIN layout, allocations, layout)
    BY AllocationsPlaceable
<1>6. \A x, y \in D : x # y => x.student # y.student
    BY <1>2
<1>7. PlanOf(r, layout) = SeatingOf(ahead, Candidates(allocations, layout))
    BY DEF PlanOf
<1> DEFINE plan == PlanOf(r, layout)
<1> HIDE DEF ahead, D, allocations, plan
<1>8. RoomsDistinct(allocations)
    BY DEF allocations
<1>9. plan = SeatingOf(ahead, Candidates(allocations, layout))
    BY <1>7 DEF plan
<1>10. /\ IsFiniteSet(plan) /\ Cardinality(plan) <= Cardinality(D)
       /\ \A z \in plan :
             /\ z.room \in DOMAIN layout /\ z.seat \in UsableSeats(layout[z.room])
             /\ \E x \in D : z = [student |-> x.student, exam |-> x.exam,
                                  room |-> z.room, seat |-> z.seat]
       /\ \A z, w \in plan : z # w =>
             /\ z.student # w.student
             /\ z.room # w.room \/ z.seat # w.seat
    BY <1>1, <1>3, <1>4, <1>5, <1>6, <1>8, <1>9, SeatingOfSound
<1> QED
    BY <1>2, <1>10 DEF plan, D

LEMMA PlaceKeeps ==
    ASSUME IInv, NEW t \in Request, Place(t)
    PROVE  IInv'
<1> DEFINE old == req[t]
           allocations == AllocationsOf(old)
           plan == SeatingOf(Ahead(old.roster), Candidates(allocations, rooms))
           r == [req[t] EXCEPT !.at = "insert", !.layout = rooms, !.plan = plan]
<1>1. /\ UNCHANGED <<tables, importer, counters>>
      /\ old.at = "rooms" /\ old.op \in {"exam", "session"}
    BY DEF Place, At
<1>2. old \in RequestRecord /\ RequestSound(old)
    BY <1>1, ActiveRequest DEF At
<1>3. CASE /\ old.op = "session" => NoDuplicateStudent(old.roster)
           /\ RoomsDistinct(allocations)
           /\ \A i \in DOMAIN allocations : allocations[i].room \in DOMAIN rooms
           /\ Goto(t, r) /\ UNCHANGED writer
    <2>0. rooms \in RoomTables
        BY DEF IInv, TypeOK
    <2>1. IsFiniteSet(old.roster) /\ old.roster \in SUBSET Participant
        BY <1>2 DEF RequestRecord, RequestSound
    <2> DEFINE D == old.roster
    <2>2. /\ IsFiniteSet(plan) /\ Cardinality(plan) <= Cardinality(D)
          /\ \A z \in plan :
                /\ z.room \in DOMAIN rooms /\ z.seat \in UsableSeats(rooms[z.room])
                /\ \E x \in D : z = [student |-> x.student, exam |-> x.exam,
                                     room |-> z.room, seat |-> z.seat]
          /\ \A z, w \in plan : z # w =>
                /\ z.student # w.student
                /\ z.room # w.room \/ z.seat # w.seat
        <3>1. plan = PlanOf(old, rooms)
            BY DEF PlanOf
        <3>2. old.op = "exam" \/ (old.op = "session" /\ NoDuplicateStudent(old.roster))
            BY <1>1, <1>3
        <3> HIDE DEF plan, old
        <3>3. /\ RoomsDistinct(AllocationsOf(old))
              /\ \A i \in DOMAIN AllocationsOf(old) :
                    AllocationsOf(old)[i].room \in DOMAIN rooms
            BY <1>3
        <3> QED
            BY <1>1, <1>2, <2>0, <3>1, <3>2, <3>3, PlanFromRoster
    <2> HIDE DEF plan
    <2>3. \A z \in plan : z \in Seating /\
              z.seat \in (1..rooms[z.room].capacity) \ rooms[z.room].blocked
        <3> SUFFICES ASSUME NEW z \in plan
                     PROVE  z \in Seating /\
                            z.seat \in (1..rooms[z.room].capacity) \ rooms[z.room].blocked
            OBVIOUS
        <3>1. PICK x \in D : z = [student |-> x.student, exam |-> x.exam,
                                  room |-> z.room, seat |-> z.seat]
            BY <2>2
        <3>2. x.student \in Student /\ x.exam \in Nat
            BY <2>1 DEF Participant
        <3>3. z.room \in RoomId /\ rooms[z.room] \in RoomRecord
            BY <2>0, <2>2, RoomTableTyped
        <3>4. /\ z.seat \in (1..rooms[z.room].capacity) \ rooms[z.room].blocked
              /\ z.seat \in Nat
            BY <2>2, <3>3 DEF UsableSeats, SeatNumbers, RoomRecord
        <3> QED
            BY <3>1, <3>2, <3>3, <3>4 DEF Seating
    <2>4. PlanSound(old.roster, plan, rooms)
        BY <2>2, <2>3 DEF PlanSound
    <2>5. r \in RequestRecord
        <3>1. plan \in SUBSET Seating
            BY <2>3
        <3> QED
            BY <1>2, <2>0, <3>1 DEF RequestRecord, Stages
    <2>6. /\ r.at = "insert" /\ r.op = old.op /\ r.ids = old.ids
           /\ r.loaded = old.loaded /\ r.roster = old.roster
           /\ r.plan = plan /\ r.layout = rooms
        BY <1>2 DEF RequestRecord
    <2> HIDE DEF r, old
    <2>7. RequestSound(r)
        BY <1>2, <2>4, <2>6 DEF RequestSound, Reading
    <2> QED
        BY <1>1, <1>3, <2>5, <2>6, <2>7, Goes
<1>4. CASE \E a : Answer(t, a)
    BY <1>1, <1>4, Ends
<1> QED
    BY <1>3, <1>4 DEF Place
-----------------------------------------------------------------------------
\* The lock and the commits.
LEMMA WriteKeeps ==
    ASSUME IInv, NEW t \in Request, Write(t)
    PROVE  IInv'
<1> DEFINE next == IF req[t].op = "create" THEN NextId(sessions) ELSE NextId(generations)
           r == [req[t] EXCEPT !.at = "commit", !.id = next]
<1>1. /\ UNCHANGED <<tables, importer, counters>> /\ req[t].at = "insert"
      /\ writer = NoRequest /\ writer' = t /\ req' = [req EXCEPT ![t] = r]
    BY DEF Write, At, Goto
<1>2. req[t] \in RequestRecord /\ RequestSound(req[t])
    BY <1>1, ActiveRequest DEF At
<1>3. /\ next = Len(IF req[t].op = "create" THEN sessions ELSE generations) + 1
      /\ next \in Nat
    <2>1. sessions \in Seq(SessionRecord) /\ generations \in Seq(GenerationRecord)
        BY DEF IInv, TypeOK
    <2>2. /\ NextId(sessions) = Len(sessions) + 1 /\ NextId(sessions) \in Nat
          /\ NextId(generations) = Len(generations) + 1 /\ NextId(generations) \in Nat
        BY <2>1, NextIdIsNext
    <2> QED
        BY <2>2
<1> HIDE DEF next
<1>4. r \in RequestRecord
    BY <1>2, <1>3 DEF RequestRecord, Stages
<1>5. /\ r.at = "commit" /\ r.id = next /\ r.op = req[t].op /\ r.ids = req[t].ids
      /\ r.loaded = req[t].loaded /\ r.roster = req[t].roster /\ r.plan = req[t].plan
      /\ r.layout = req[t].layout
    BY <1>2 DEF RequestRecord
<1> HIDE DEF r
<1>6. RequestSound(r)
    BY <1>1, <1>2, <1>5 DEF RequestSound, Reading
<1>7. /\ req' \in [Request -> RequestRecord \cup {Idle}] /\ req'[t] = r
      /\ \A u \in Request \ {t} : req'[u] = req[u]
    BY <1>1, <1>4 DEF IInv, TypeOK
<1>8. TypeOK'
    BY <1>1, <1>7 DEF IInv, TypeOK, ImporterTyped, tables, counters
<1>9. IdsReserved'
    <2> SUFFICES ASSUME NEW u \in Request, At(u, "commit")'
                 PROVE  /\ writer' = u
                        /\ req'[u].id = Len(IF req'[u].op = "create" THEN sessions'
                                            ELSE generations') + 1
        BY DEF IdsReserved
    <2>1. u = t
        <3> SUFFICES ASSUME u # t PROVE FALSE
            OBVIOUS
        <3>1. At(u, "commit")
            BY <1>7 DEF At
        <3>2. writer = u
            BY <3>1 DEF IInv, IdsReserved
        <3> QED
            BY <1>1, <3>2, ConstantsAreTyped DEF ConstantsAssumption
    <2> QED
        BY <1>1, <1>3, <1>5, <1>7, <2>1 DEF tables
<1>10. RequestsSound'
    BY <1>6, <1>7 DEF IInv, RequestsSound, At
<1>11. TablesSound'
    BY <1>1, SameTables DEF IInv
<1> QED
    BY <1>8, <1>9, <1>10, <1>11 DEF IInv

LEMMA LockTimeoutKeeps ==
    ASSUME IInv, NEW t \in Request, LockTimeout(t)
    PROVE  IInv'
BY Ends DEF LockTimeout

LEMMA RespondKeeps ==
    ASSUME IInv, NEW t \in Request, Respond(t)
    PROVE  IInv'
BY Ends DEF Respond

\* Only one request at a time is about to commit.
LEMMA OneCommits ==
    ASSUME IInv, NEW t \in Request, At(t, "commit"), NEW u \in Request, At(u, "commit")
    PROVE  u = t
BY DEF IInv, IdsReserved

\* The rows of generations stay counted and free of collisions as long as neither changes.
LEMMA GenerationsStay ==
    ASSUME TablesSound, UNCHANGED <<generations, seatRows>>
    PROVE  CountsMatchRows' /\ GenerationsNeverCollide'
<1>1. \A g : RowsOf(g)' = RowsOf(g)
    BY DEF RowsOf
<1> QED
    BY <1>1 DEF TablesSound, CountsMatchRows, GenerationsNeverCollide

LEMMA CommitSessionKeeps ==
    ASSUME IInv, NEW t \in Request, CommitSession(t)
    PROVE  IInv'
<1> DEFINE r == [req[t] EXCEPT !.at = "respond"]
           id == req[t].id
           row == [ids |-> req[t].ids,
                   since |-> [imports |-> req[t].since.imports,
                              resets |-> req[t].since.resets]]
<1>1. /\ req[t].at = "commit" /\ req[t].op = "create"
      /\ sessions' = WithRow(sessions, id, row)
      /\ writer' = NoRequest /\ req' = [req EXCEPT ![t] = r]
      /\ UNCHANGED <<students, courses, registrations, rooms, exams, examRooms,
                     generations, seatRows>>
      /\ UNCHANGED importer /\ UNCHANGED counters
    BY DEF CommitSession, At, Goto
<1>2. req[t] \in RequestRecord /\ RequestSound(req[t])
    BY <1>1, ActiveRequest DEF At
<1>3. row \in SessionRecord /\ NoRepeats(row.ids)
    <2>1. /\ req[t].ids \in Seq(Nat)
          /\ req[t].since.imports \in Nat /\ req[t].since.resets \in Nat
        BY <1>2 DEF RequestRecord
    <2> QED
        BY <1>2, <2>1 DEF SessionRecord, RequestSound
<1>4. sessions \in Seq(SessionRecord)
    BY DEF IInv, TypeOK
<1>5. id = Len(sessions) + 1
    BY <1>1 DEF IInv, IdsReserved, At
<1>6. id \in DOMAIN sessions \cup {NextId(sessions)}
    BY <1>4, <1>5, NextIdIsNext
<1> HIDE DEF id, row
<1>7. /\ sessions' \in Seq(SessionRecord)
      /\ DOMAIN sessions' = DOMAIN sessions \cup {id} /\ sessions'[id] = row
      /\ \A s \in DOMAIN sessions \ {id} : sessions'[s] = sessions[s]
    <2>1. sessions' \in Seq(SessionRecord)
        BY <1>1, <1>3, <1>4, <1>6, RowAdded
    <2>2. /\ DOMAIN sessions' = DOMAIN sessions \cup {id} /\ sessions'[id] = row
          /\ \A s \in DOMAIN sessions \ {id} : sessions'[s] = sessions[s]
        <3>1. sessions' = WithRow(sessions, id, row)
            BY <1>1
        <3> QED
            BY <3>1 DEF WithRow
    <2> QED
        BY <2>1, <2>2
<1>8. r \in RequestRecord
    BY <1>2 DEF RequestRecord, Stages
<1>9. /\ r.at = "respond" /\ r.op = req[t].op /\ r.ids = req[t].ids
      /\ r.loaded = req[t].loaded /\ r.roster = req[t].roster
    BY <1>2 DEF RequestRecord
<1> HIDE DEF r
<1>10. RequestSound(r)
    BY <1>1, <1>2, <1>9 DEF RequestSound, Reading
<1>11. /\ req' \in [Request -> RequestRecord \cup {Idle}] /\ req'[t] = r
       /\ \A u \in Request \ {t} : req'[u] = req[u]
    BY <1>1, <1>8 DEF IInv, TypeOK
<1>12. TypeOK'
    BY <1>1, <1>7, <1>11 DEF IInv, TypeOK, ImporterTyped, counters
<1>13. IdsReserved'
    <2>1. \A u \in Request : ~At(u, "commit")'
        BY <1>1, <1>9, <1>11, OneCommits DEF At
    <2> QED
        BY <2>1 DEF IdsReserved
<1>14. RequestsSound'
    BY <1>10, <1>11 DEF IInv, RequestsSound, At
<1>15. TablesSound'
    <2>1. CountsMatchRows' /\ GenerationsNeverCollide'
        BY <1>1, GenerationsStay DEF IInv
    <2>2. \A s \in DOMAIN sessions' : NoRepeats(sessions'[s].ids)
        BY <1>3, <1>7 DEF IInv, TablesSound
    <2> QED
        BY <1>1, <2>1, <2>2 DEF IInv, TablesSound
<1> QED
    BY <1>12, <1>13, <1>14, <1>15 DEF IInv

LEMMA CommitResetKeeps ==
    ASSUME IInv, NEW t \in Request, CommitReset(t)
    PROVE  IInv'
<1>1. /\ students' = {} /\ courses' = {} /\ rooms' = << >> /\ registrations' = {}
      /\ examRooms' = <<>> /\ seatRows' = {}
      /\ exams' = <<>> /\ sessions' = <<>> /\ generations' = <<>>
      /\ resets' = resets + 1 /\ requests' = requests /\ imports' = imports
      /\ UNCHANGED importer /\ overtaken' = Overtakes
      /\ disturbed' = (Overtakes \/ \E u \in Request \ {t} : ~At(u, "idle"))
      /\ Answer(t, "ok") /\ At(t, "commit")
    BY DEF CommitReset
<1>2. /\ req' \in [Request -> RequestRecord \cup {Idle}]
      /\ writer' \in Request \cup {NoRequest} /\ RequestsSound'
      /\ \A u \in Request : At(u, "commit")' => u # t /\ At(u, "commit")
    BY <1>1, OthersStay
<1>3. TypeOK'
    <2>1. resets' \in Nat /\ requests' \in Nat /\ imports' \in Nat
        BY <1>1 DEF IInv, TypeOK
    <2>2. disturbed' \in BOOLEAN /\ overtaken' \in BOOLEAN
        BY <1>1 DEF Overtakes
    <2>3. /\ exams' \in Seq(ExamRecord) /\ examRooms' \in Seq(LineRecord)
          /\ sessions' \in Seq(SessionRecord) /\ generations' \in Seq(GenerationRecord)
        BY <1>1
    <2>4. rooms' \in RoomTables
        BY <1>1, NoRoomsTyped
    <2>5. ImporterTyped'
        BY <1>1 DEF IInv, TypeOK, ImporterTyped
    <2> QED
        BY <1>1, <1>2, <2>1, <2>2, <2>3, <2>4, <2>5 DEF TypeOK
<1>4. IdsReserved'
    BY <1>1, <1>2, OneCommits DEF IdsReserved
<1>5. TablesSound'
    <2>1. DOMAIN sessions' = {} /\ DOMAIN generations' = {}
        BY <1>1
    <2>2. IsFiniteSet(registrations')
        BY <1>1, FS_EmptySet
    <2>3. CountsMatchRows' /\ GenerationsNeverCollide'
        BY <2>1 DEF CountsMatchRows, GenerationsNeverCollide
    <2> QED
        BY <1>1, <2>1, <2>2, <2>3 DEF TablesSound
<1> QED
    BY <1>2, <1>3, <1>4, <1>5 DEF IInv

RowFor(id, a) ==
    [generation |-> id, exam |-> a.exam, room |-> a.room, seat |-> a.seat,
     student |-> a.student]

StoredAs(plan, id, rows) == rows = {RowFor(id, a) : a \in plan}

\* As many rows as seats in the plan, each of one seat.
OneRowEach(plan, id, rows) ==
    /\ IsFiniteSet(rows) /\ Cardinality(rows) = Cardinality(plan)
    /\ \A x \in rows : x.generation = id
    /\ \A x, y \in rows : \E a, b \in plan :
          /\ x # y => a # b
          /\ x.room = a.room /\ x.seat = a.seat /\ x.student = a.student
          /\ y.room = b.room /\ y.seat = b.seat /\ y.student = b.student

LEMMA PlanStored ==
    ASSUME NEW plan \in SUBSET Seating, IsFiniteSet(plan), NEW id, NEW rows,
           StoredAs(plan, id, rows)
    PROVE  OneRowEach(plan, id, rows)
<1> DEFINE f == [a \in plan |-> RowFor(id, a)]
<1>1. \A a \in plan : /\ f[a].generation = id /\ f[a].exam = a.exam /\ f[a].room = a.room
                      /\ f[a].seat = a.seat /\ f[a].student = a.student
    BY DEF RowFor
<1>2. rows = {f[a] : a \in plan}
    BY DEF StoredAs
<1>3. f \in [plan -> rows] /\ \A x \in rows : \E a \in plan : f[a] = x
    BY <1>2
<1> HIDE DEF f
<1>4. ASSUME NEW a \in plan, NEW b \in plan, f[a] = f[b] PROVE a = b
    <2>1. a \in Seating /\ b \in Seating
        OBVIOUS
    <2>2. a.student = b.student /\ a.exam = b.exam /\ a.room = b.room /\ a.seat = b.seat
        BY <1>1, <1>4
    <2> QED
        BY <2>1, <2>2 DEF Seating
<1>5. f \in Bijection(plan, rows)
    BY <1>3, <1>4 DEF Bijection, Injection, IsInjective, Surjection
<1>6. IsFiniteSet(rows) /\ Cardinality(rows) = Cardinality(plan)
    BY <1>5, FS_Bijection DEF ExistsBijection
<1>7. ASSUME NEW x \in rows PROVE x.generation = id
    BY <1>1, <1>3
<1>8. ASSUME NEW x \in rows, NEW y \in rows
      PROVE  \E a, b \in plan :
                 /\ x # y => a # b
                 /\ x.room = a.room /\ x.seat = a.seat /\ x.student = a.student
                 /\ y.room = b.room /\ y.seat = b.seat /\ y.student = b.student
    <2>1. PICK a \in plan : f[a] = x
        BY <1>3
    <2>2. PICK b \in plan : f[b] = y
        BY <1>3
    <2>3. x # y => a # b
        BY <2>1, <2>2
    <2> QED
        BY <1>1, <2>1, <2>2, <2>3
<1> QED
    BY <1>6, <1>7, <1>8 DEF OneRowEach

LEMMA CommitGenerationKeeps ==
    ASSUME IInv, NEW t \in Request, CommitGeneration(t)
    PROVE  IInv'
<1> DEFINE r == req[t]
<1>0. PICK id : id = r.id
    OBVIOUS
<1> DEFINE row == GenerationRow(r)
           rows == {[generation |-> id, exam |-> a.exam, room |-> a.room,
                     seat |-> a.seat, student |-> a.student] : a \in r.plan}
<1>1. /\ r.at = "commit" /\ r.op \in {"exam", "session"}
      /\ generations' = WithRow(generations, id, row)
      /\ seatRows' = seatRows \cup rows
      /\ Answer(t, "ok") /\ At(t, "commit")
      /\ UNCHANGED <<students, courses, registrations, rooms, exams, examRooms, sessions>>
      /\ UNCHANGED importer /\ UNCHANGED counters
    BY <1>0 DEF CommitGeneration, At
<1>2. r \in RequestRecord /\ RequestSound(r)
    BY <1>1, ActiveRequest DEF At
<1>3. /\ PlanSound(r.roster, r.plan, r.layout)
      /\ r.plan \in SUBSET Seating /\ IsFiniteSet(r.roster)
    BY <1>1, <1>2 DEF RequestSound, RequestRecord
<1>4. generations \in Seq(GenerationRecord)
    BY DEF IInv, TypeOK
<1>5. id = Len(generations) + 1
    BY <1>0, <1>1 DEF IInv, IdsReserved, At
<1>6. id \in DOMAIN generations \cup {NextId(generations)} /\ id \notin DOMAIN generations
      /\ id \in Nat
    BY <1>4, <1>5, NextIdIsNext
<1> DEFINE n == Cardinality(r.roster)
           k == Cardinality(r.plan)
<1>7. n \in Nat /\ k \in Nat /\ k <= n /\ n - k \in Nat
    <2>1. n \in Nat /\ k \in Nat /\ k <= n
        BY <1>3, FS_CardinalityType DEF PlanSound
    <2> HIDE DEF n, k
    <2> QED
        BY <2>1
<1>8. /\ row.assigned = k /\ row.registered = n /\ row.unassigned = n - k
      /\ row.status = StatusOf(n, k, n - k) /\ row.kind = r.op /\ row.of = r.of
      /\ row.layout = r.layout
      /\ row = [kind |-> r.op, of |-> r.of, registered |-> n, assigned |-> k,
                unassigned |-> n - k, status |-> StatusOf(n, k, n - k),
                layout |-> r.layout]
    BY DEF GenerationRow
<1>9. rows \subseteq SeatRow
    <2>1. r.plan \subseteq Seating
        BY <1>3
    <2> HIDE DEF r
    <2> QED
        BY <1>6, <2>1 DEF Seating, SeatRow
<1>10. OneRowEach(r.plan, id, rows)
    <2> DEFINE plan == r.plan
    <2>1. plan \in SUBSET Seating /\ IsFiniteSet(plan) /\ StoredAs(plan, id, rows)
        BY <1>3 DEF PlanSound, StoredAs, RowFor
    <2> HIDE DEF plan, rows
    <2>2. OneRowEach(plan, id, rows)
        BY <2>1, PlanStored
    <2> QED
        BY <2>2 DEF plan
<1>11. row \in GenerationRecord /\ (row.status = "success" <=> row.unassigned = 0)
    <2>1. StatusOf(n, k, n - k) \in {"success", "partial", "failed"}
        BY DEF StatusOf
    <2>2. StatusOf(n, k, n - k) = "success" <=> n - k = 0
        <3> HIDE DEF n, k
        <3> QED
            BY <1>7 DEF StatusOf
    <2>3. r.of \in Nat /\ r.layout \in RoomTables
        BY <1>2 DEF RequestRecord
    <2> DEFINE status == StatusOf(n, k, n - k)
               rest == n - k
    <2>4. row = [kind |-> r.op, of |-> r.of, registered |-> n, assigned |-> k,
                 unassigned |-> rest, status |-> status, layout |-> r.layout]
        BY <1>8
    <2>5. rest \in Nat /\ status \in {"success", "partial", "failed"}
          /\ (status = "success" <=> rest = 0)
        BY <1>7, <2>1, <2>2
    <2> HIDE DEF row, rest, status, n, k, r
    <2> QED
        BY <1>1, <1>7, <2>3, <2>4, <2>5 DEF GenerationRecord
<1>12. row.registered = row.assigned + row.unassigned
    <2> HIDE DEF n, k, row, r
    <2> QED
        BY <1>7, <1>8
<1> HIDE DEF rows, row, n, k
<1>13. generations' \in Seq(GenerationRecord)
    BY <1>1, <1>4, <1>6, <1>11, RowAdded
<1>14. /\ DOMAIN generations' = DOMAIN generations \cup {id} /\ generations'[id] = row
       /\ \A g \in DOMAIN generations : generations'[g] = generations[g]
    <2>1. generations' = WithRow(generations, id, row)
        BY <1>1
    <2> QED
        BY <1>6, <2>1 DEF WithRow
<1>15. /\ \A g \in DOMAIN generations : RowsOf(g)' = RowsOf(g)
       /\ RowsOf(id)' = rows
    <2>1. \A x \in seatRows : x.generation \in DOMAIN generations
        BY DEF IInv, TablesSound
    <2>2. \A x \in rows : x.generation = id
        BY <1>10 DEF OneRowEach
    <2> QED
        BY <1>1, <1>6, <2>1, <2>2 DEF RowsOf
<1>16. /\ req' \in [Request -> RequestRecord \cup {Idle}]
       /\ writer' \in Request \cup {NoRequest} /\ RequestsSound'
       /\ \A u \in Request : At(u, "commit")' => u # t /\ At(u, "commit")
    BY <1>1, OthersStay
<1>17. TypeOK'
    BY <1>1, <1>9, <1>13, <1>16 DEF IInv, TypeOK, ImporterTyped, counters
<1>18. IdsReserved'
    BY <1>1, <1>16, OneCommits DEF IdsReserved
<1>19. CountsMatchRows'
    <2> SUFFICES ASSUME NEW g \in DOMAIN generations'
                 PROVE  /\ generations'[g].assigned = Cardinality(RowsOf(g)')
                        /\ generations'[g].registered
                             = generations'[g].assigned + generations'[g].unassigned
                        /\ generations'[g].status = "success"
                             <=> generations'[g].unassigned = 0
        BY DEF CountsMatchRows
    <2>1. CASE g = id
        <3>1. k = Cardinality(rows)
            BY <1>10 DEF OneRowEach, k
        <3> QED
            BY <1>8, <1>11, <1>12, <1>14, <1>15, <2>1, <3>1
    <2>2. CASE g \in DOMAIN generations
        BY <1>14, <1>15, <2>2 DEF IInv, TablesSound, CountsMatchRows
    <2> QED
        BY <1>14, <2>1, <2>2
<1>20. GenerationsNeverCollide'
    <2> SUFFICES ASSUME NEW g \in DOMAIN generations', NEW x \in RowsOf(g)',
                        NEW y \in RowsOf(g)'
                 PROVE  /\ x # y => x.student # y.student
                        /\ x # y => x.room # y.room \/ x.seat # y.seat
                        /\ x.seat \in (1..generations'[g].layout[x.room].capacity)
                                      \ generations'[g].layout[x.room].blocked
        BY DEF GenerationsNeverCollide
    <2>1. CASE g = id
        <3>1. x \in rows /\ y \in rows
            BY <1>15, <2>1
        <3>2. PICK a \in r.plan, b \in r.plan :
                  /\ x # y => a # b
                  /\ x.room = a.room /\ x.seat = a.seat /\ x.student = a.student
                  /\ y.room = b.room /\ y.seat = b.seat /\ y.student = b.student
            BY <1>10, <3>1 DEF OneRowEach
        <3>3. generations'[g].layout = r.layout
            BY <1>8, <1>14, <2>1
        <3> QED
            BY <1>3, <3>2, <3>3 DEF PlanSound
    <2>2. CASE g \in DOMAIN generations
        BY <1>14, <1>15, <2>2 DEF IInv, TablesSound, GenerationsNeverCollide
    <2> QED
        BY <1>14, <2>1, <2>2
<1>21. TablesSound'
    <2>1. \A x \in seatRows' : x.generation \in DOMAIN generations'
        BY <1>1, <1>10, <1>14 DEF IInv, TablesSound, OneRowEach
    <2> QED
        BY <1>1, <1>19, <1>20, <2>1 DEF IInv, TablesSound
<1> QED
    BY <1>16, <1>17, <1>18, <1>21 DEF IInv
-----------------------------------------------------------------------------
\* Arrivals, imports and restarts.
LEMMA BeginKeeps ==
    ASSUME IInv, NEW t \in Request, NEW op \in Ops, NEW at, NEW of \in Nat,
           NEW ids \in Seq(Nat), NoRepeats(ids), Begin(t, op, at, of, ids),
           at \in {"session", "exams", "insert"},
           at = "session" => op = "session" /\ ids = <<>>,
           at = "insert" => op = "reset",
           op = "exam" => Len(ids) = 1
    PROVE  IInv'
<1> DEFINE r == Fresh(op, at, of, ids)
<1>1. /\ req' = [req EXCEPT ![t] = r] /\ requests' = requests + 1
      /\ UNCHANGED <<tables, writer, importer, imports, resets, disturbed, overtaken>>
    BY DEF Begin
<1>2. /\ r.op = op /\ r.at = at /\ r.of = of /\ r.ids = ids /\ r.k = 1
      /\ r.loaded = <<>> /\ r.lines = <<>> /\ r.roster = {} /\ r.plan = {} /\ r.layout = << >>
    BY DEF Fresh
<1>3. r \in RequestRecord
    <2>1. registrations \subseteq Registration /\ imports \in Nat /\ resets \in Nat
        BY DEF IInv, TypeOK
    <2>2. /\ <<>> \in Seq([id : Nat, course : Course, slot : Slot])
          /\ <<>> \in Seq(LineRecord) /\ at \in Stages
        BY DEF Stages
    <2> DEFINE one == 1
               zero == 0
    <2>3. one \in Nat \ {0} /\ zero \in Nat
        OBVIOUS
    <2>4. r = [op |-> op, at |-> at, of |-> of, ids |-> ids, k |-> one, loaded |-> <<>>,
               lines |-> <<>>, roster |-> {}, layout |-> << >>, plan |-> {}, id |-> zero,
               since |-> [registrations |-> registrations, imports |-> imports,
                          resets |-> resets]]
        BY DEF Fresh
    <2>5. << >> \in RoomTables
        BY NoRoomsTyped
    <2> HIDE DEF r, one, zero
    <2> QED
        BY <2>1, <2>2, <2>3, <2>4, <2>5 DEF RequestRecord
<1> HIDE DEF r
<1>4. RequestSound(r)
    <2>1. Len(r.loaded) = 0 /\ DOMAIN r.loaded = {} /\ IsFiniteSet(r.roster)
        BY <1>2, FS_EmptySet
    <2> QED
        BY <1>2, <2>1 DEF RequestSound, Reading
<1>5. requests' \in Nat
    BY <1>1 DEF IInv, TypeOK
<1>6. r.at # "commit"
    BY <1>2
<1> QED
    BY <1>1, <1>3, <1>4, <1>5, <1>6, MovesOn

LEMMA ArrivalKeeps ==
    ASSUME IInv, NEW t \in Request, Arrive(t)
    PROVE  IInv'
<1>1. ExamArgs \subseteq Seq(Nat)
    BY ConstantsAreTyped DEF ConstantsAssumption
<1>2. CASE BeginCreate(t)
    <2>1. PICK ids \in ExamArgs : NoRepeats(ids) /\ Begin(t, "create", "exams", 0, ids)
        BY <1>2 DEF BeginCreate
    <2> QED
        BY <1>1, <2>1, BeginKeeps DEF Ops
<1>3. CASE BeginGenerate(t)
    <2>1. PICK ids \in ExamArgs : Len(ids) = 1 /\ Begin(t, "exam", "exams", ids[1], ids)
        BY <1>3 DEF BeginGenerate
    <2>2. ids \in Seq(Nat) /\ DOMAIN ids = 1..1 /\ ids[1] \in Nat
        <3>1. ids \in Seq(Nat)
            BY <1>1
        <3>2. 1 \in 1..Len(ids)
            BY <2>1
        <3>3. ids[1] \in Nat
            BY <3>1, <3>2, ElementOfSeq
        <3>4. DOMAIN ids = 1..1
            BY <2>1, <3>1
        <3> QED
            BY <3>1, <3>3, <3>4
    <2>3. NoRepeats(ids)
        BY <2>2 DEF NoRepeats
    <2> DEFINE e == ids[1]
    <2>4. e \in Nat /\ Begin(t, "exam", "exams", e, ids)
        BY <2>1, <2>2
    <2> HIDE DEF e
    <2> QED
        BY <2>1, <2>2, <2>3, <2>4, BeginKeeps DEF Ops
<1>4. CASE BeginGenerateSession(t)
    <2>1. PICK s \in 1..MaxRequests : Begin(t, "session", "session", s, <<>>)
        BY <1>4 DEF BeginGenerateSession
    <2>2. s \in Nat
        BY ConstantsAreTyped DEF ConstantsAssumption
    <2>3. <<>> \in Seq(Nat) /\ NoRepeats(<<>>)
        BY DEF NoRepeats
    <2> QED
        BY <2>1, <2>2, <2>3, BeginKeeps DEF Ops
<1>5. CASE BeginReset(t)
    <2>1. Begin(t, "reset", "insert", 0, <<>>)
        BY <1>5 DEF BeginReset
    <2>2. <<>> \in Seq(Nat) /\ NoRepeats(<<>>)
        BY DEF NoRepeats
    <2> QED
        BY <2>1, <2>2, BeginKeeps DEF Ops
<1>6. CASE RejectExamIds(t)
    <2>1. /\ UNCHANGED <<tables, writer, importer, req, imports, resets, disturbed, overtaken>>
          /\ requests' = requests + 1
        BY <1>6 DEF RejectExamIds
    <2>2. TypeOK'
        BY <2>1 DEF IInv, TypeOK, ImporterTyped, tables
    <2>3. IdsReserved' /\ RequestsSound'
        BY <2>1 DEF IInv, IdsReserved, RequestsSound, At, tables
    <2>4. TablesSound'
        BY <2>1, SameTables DEF IInv
    <2> QED
        BY <2>2, <2>3, <2>4 DEF IInv
<1> QED
    BY <1>2, <1>3, <1>4, <1>5, <1>6 DEF Arrive

\* A step that only takes up an import or gives it up.
LEMMA ImporterOnly ==
    ASSUME IInv, ImporterTyped', UNCHANGED <<tables, writer, req, counters>>
    PROVE  IInv'
<1>1. TypeOK'
    BY DEF IInv, TypeOK, tables, counters
<1>2. IdsReserved' /\ RequestsSound'
    BY DEF IInv, IdsReserved, RequestsSound, At, tables
<1>3. TablesSound'
    BY SameTables DEF IInv
<1> QED
    BY <1>1, <1>2, <1>3 DEF IInv

LEMMA BeginImportKeeps ==
    ASSUME IInv, BeginImport
    PROVE  IInv'
<1>1. /\ UNCHANGED <<tables, writer, req, counters>>
      /\ \/ \E file \in RegistrationFiles : \E seen :
               importer' = [kind |-> "registrations", rows |-> file, seen |-> seen]
         \/ \E file \in ScheduleFiles :
               importer' = [kind |-> "schedule", group |-> file,
                            seen |-> [courses |-> courses, rooms |-> rooms,
                                      exams |-> exams, lines |-> examRooms]]
         \/ \E file \in RoomFiles : \E seen :
               importer' = [kind |-> "rooms", rooms |-> file, seen |-> seen]
    BY DEF BeginImport, StartImport
<1>2. ImporterTyped'
    BY <1>1 DEF IInv, TypeOK, ImporterTyped
<1> QED
    BY <1>1, <1>2, ImporterOnly

LEMMA ImportFailsKeeps ==
    ASSUME IInv, ImportFails
    PROVE  IInv'
<1>1. UNCHANGED <<tables, writer, req, counters>> /\ importer' = NoImport
    BY DEF ImportFails
<1>2. ImporterTyped'
    BY <1>1 DEF ImporterTyped, NoImport
<1> QED
    BY <1>1, <1>2, ImporterOnly

\* An import that leaves its own tables well formed: requests under way and what
\* they stored are left alone.
LEMMA ImportSound ==
    ASSUME IInv, NEW kind, EndImport(kind),
           students' \subseteq Student, courses' \subseteq Course, rooms' \in RoomTables,
           IsFiniteSet(registrations'), registrations' \subseteq Registration,
           exams' \in Seq(ExamRecord), examRooms' \in Seq(LineRecord)
    PROVE  IInv'
<1>0. /\ UNCHANGED <<sessions, generations, seatRows, writer, req, requests, resets,
                     disturbed, overtaken>>
      /\ imports' = imports + 1 /\ importer' = NoImport
    BY DEF EndImport
<1>1. imports' \in Nat /\ ImporterTyped'
    BY <1>0 DEF IInv, TypeOK, ImporterTyped, NoImport
<1>2. TypeOK'
    BY <1>0, <1>1 DEF IInv, TypeOK
<1>3. IdsReserved' /\ RequestsSound'
    BY <1>0 DEF IInv, IdsReserved, RequestsSound, At
<1>4. CountsMatchRows' /\ GenerationsNeverCollide'
    BY <1>0, GenerationsStay DEF IInv
<1>5. TablesSound'
    BY <1>0, <1>4 DEF IInv, TablesSound
<1> QED
    BY <1>2, <1>3, <1>5 DEF IInv

LEMMA ImportRegistrationsKeeps ==
    ASSUME IInv, ImportRegistrations
    PROVE  IInv'
<1> DEFINE file == importer.rows
<1>0. importer.kind = "registrations" /\ EndImport("registrations")
      /\ UNCHANGED <<rooms, exams, examRooms>>
    BY DEF ImportRegistrations, EndImport
<1>1. PICK found, next, cached :
          /\ students' = students \cup (StudentsOf(file) \ StudentsOf(found \cup next))
          /\ courses' = courses \cup (CoursesOf(file) \ cached)
          /\ registrations' = registrations \cup (file \ found)
    BY DEF ImportRegistrations
<1>2. file \in RegistrationFiles
    BY <1>0 DEF IInv, TypeOK, ImporterTyped
<1>3. IsFiniteSet(file) /\ file \subseteq Registration
    BY <1>2, ConstantsAreTyped DEF ConstantsAssumption
<1> HIDE DEF file
<1>4. StudentsOf(file) \subseteq Student /\ CoursesOf(file) \subseteq Course
    BY <1>3 DEF StudentsOf, CoursesOf, Registration
<1>5. IsFiniteSet(registrations) /\ registrations \subseteq Registration
    BY DEF IInv, TypeOK, TablesSound
<1>6. IsFiniteSet(file \ found)
    BY <1>3, FS_Subset
<1>7. IsFiniteSet(registrations') /\ registrations' \subseteq Registration
    BY <1>1, <1>3, <1>5, <1>6, FS_Union
<1>8. students' \subseteq Student /\ courses' \subseteq Course
    BY <1>1, <1>4 DEF IInv, TypeOK
<1>9. rooms' \in RoomTables /\ exams' \in Seq(ExamRecord) /\ examRooms' \in Seq(LineRecord)
    BY <1>0 DEF IInv, TypeOK
<1> QED
    BY <1>0, <1>7, <1>8, <1>9, ImportSound

\* What a group of a schedule file makes of the exams and their rooms.
LEMMA GroupStored ==
    ASSUME IInv, NEW file \in ScheduleFiles, StoreGroup(file)
    PROVE  exams' \in Seq(ExamRecord) /\ examRooms' \in Seq(LineRecord)
<1> DEFINE found == ExamWith(exams, file.course, file.slot)
           e == IF found = {} THEN NextId(exams) ELSE CHOOSE x \in found : TRUE
           places == {n \in DOMAIN file.lines :
                        /\ file.lines[n].room \in DOMAIN rooms
                        /\ ~HasLine(examRooms, e, file.lines[n].room)}
           some == Chosen(file.lines, places)
           row == [course |-> file.course, slot |-> file.slot]
<1>1. /\ exams' = WithRow(exams, e, row)
      /\ examRooms' = examRooms \o
            [i \in DOMAIN some |-> [exam |-> e, room |-> some[i].room,
                                    allocated |-> some[i].allocated]]
    BY DEF StoreGroup
<1>2. /\ file.course \in Course /\ file.slot \in Slot
      /\ file.lines \in Seq([room : RoomId, allocated : Nat])
    BY ConstantsAreTyped DEF ConstantsAssumption
<1>3. exams \in Seq(ExamRecord) /\ examRooms \in Seq(LineRecord)
    BY DEF IInv, TypeOK
<1>4. e \in DOMAIN exams \cup {NextId(exams)}
    <2>1. found \subseteq DOMAIN exams
        BY DEF ExamWith
    <2> HIDE DEF found
    <2> QED
        BY <2>1
<1>5. e \in Nat
    <2> HIDE DEF e
    <2>1. NextId(exams) = Len(exams) + 1
        BY <1>3, NextIdIsNext
    <2>2. Len(exams) \in Nat /\ DOMAIN exams = 1..Len(exams)
        BY <1>3
    <2> QED
        BY <1>4, <2>1, <2>2
<1>6. some \in Seq([room : RoomId, allocated : Nat])
    <2> DEFINE lines == file.lines
    <2>1. lines \in Seq([room : RoomId, allocated : Nat]) /\ places \in SUBSET DOMAIN lines
        BY <1>2
    <2> HIDE DEF places, lines
    <2>2. Chosen(lines, places) \in Seq([room : RoomId, allocated : Nat])
        BY <2>1, ChosenIsSequence
    <2> QED
        BY <2>2 DEF lines
<1>7. row \in ExamRecord
    BY <1>2 DEF ExamRecord
<1> HIDE DEF e, row, some
<1>8. exams' \in Seq(ExamRecord)
    BY <1>1, <1>3, <1>4, <1>7, RowAdded
<1>9. examRooms' \in Seq(LineRecord)
    <2> DEFINE tail == [i \in DOMAIN some |-> [exam |-> e, room |-> some[i].room,
                                               allocated |-> some[i].allocated]]
               n == Len(some)
    <2>1. n \in Nat /\ DOMAIN some = 1..n
          /\ \A i \in 1..n : some[i] \in [room : RoomId, allocated : Nat]
        <3> DEFINE S == [room : RoomId, allocated : Nat]
        <3>1. some \in Seq(S)
            BY <1>6
        <3> HIDE DEF S
        <3>2. n \in Nat /\ DOMAIN some = 1..n
            BY <3>1
        <3>3. \A i \in 1..n : some[i] \in S
            BY <3>1, ElementOfSeq
        <3> QED
            BY <3>2, <3>3 DEF S
    <2>2. \A i \in 1..n : [exam |-> e, room |-> some[i].room,
                           allocated |-> some[i].allocated] \in LineRecord
        BY <1>5, <2>1 DEF LineRecord
    <2>3. tail \in [1..n -> LineRecord]
        <3> HIDE DEF n
        <3> QED
            BY <2>1, <2>2
    <2>4. examRooms' = examRooms \o tail
        BY <1>1
    <2> HIDE DEF tail, n
    <2>5. tail \in Seq(LineRecord)
        BY <2>1, <2>3
    <2> QED
        BY <1>3, <2>4, <2>5
<1> QED
    BY <1>8, <1>9

LEMMA ImportScheduleKeeps ==
    ASSUME IInv, ImportSchedule
    PROVE  IInv'
<1>a. PICK file, seen : file = importer.group /\ seen = importer.seen
    OBVIOUS
<1>0. importer.kind = "schedule" /\ EndImport("schedule")
      /\ UNCHANGED <<students, courses, registrations, rooms>>
    BY DEF ImportSchedule, EndImport
<1>1. file \in ScheduleFiles /\ seen.exams \in Seq(ExamRecord)
    BY <1>a, <1>0 DEF IInv, TypeOK, ImporterTyped
<1>2. /\ file.course \in Course /\ file.slot \in Slot
      /\ file.lines \in Seq([room : RoomId, allocated : Nat])
    BY <1>1, ConstantsAreTyped DEF ConstantsAssumption
<1>3. exams \in Seq(ExamRecord) /\ examRooms \in Seq(LineRecord)
    BY DEF IInv, TypeOK
<1>4. \/ StoreGroup(file) \/ (exams' = exams /\ examRooms' = examRooms)
      \/ StoreStrayExam(file, seen) \/ StoreStrayLine(file, seen)
    BY <1>a DEF ImportSchedule
<1>5. ASSUME StoreGroup(file)
      PROVE  exams' \in Seq(ExamRecord) /\ examRooms' \in Seq(LineRecord)
    BY <1>1, <1>5, GroupStored
<1>6. ASSUME StoreStrayExam(file, seen)
      PROVE  exams' \in Seq(ExamRecord) /\ examRooms' = examRooms
    <2> DEFINE row == [course |-> file.course, slot |-> file.slot]
               e == NextId(exams)
    <2>1. exams' = WithRow(exams, e, row) /\ UNCHANGED examRooms
        BY <1>6 DEF StoreStrayExam
    <2>2. row \in ExamRecord /\ e \in DOMAIN exams \cup {NextId(exams)}
        BY <1>2 DEF ExamRecord
    <2> HIDE DEF row, e
    <2> QED
        BY <1>3, <2>1, <2>2, RowAdded
<1>7. ASSUME StoreStrayLine(file, seen)
      PROVE  examRooms' \in Seq(LineRecord) /\ exams' = exams
    <2>1. PICK e \in ExamWith(seen.exams, file.course, file.slot) \ DOMAIN exams,
               n \in DOMAIN file.lines :
              examRooms' = Append(examRooms, [exam |-> e, room |-> file.lines[n].room,
                                              allocated |-> file.lines[n].allocated])
        BY <1>7 DEF StoreStrayLine
    <2>2. e \in Nat
        BY <1>1, <2>1 DEF ExamWith
    <2>3. file.lines[n] \in [room : RoomId, allocated : Nat]
        <3> DEFINE lines == file.lines
                   S == [room : RoomId, allocated : Nat]
        <3>1. lines \in Seq(S) /\ n \in 1..Len(lines)
            BY <1>2, <2>1
        <3> HIDE DEF lines, S
        <3>2. lines[n] \in S
            BY <3>1, ElementOfSeq
        <3> QED
            BY <3>2 DEF lines, S
    <2> DEFINE line == [exam |-> e, room |-> file.lines[n].room,
                        allocated |-> file.lines[n].allocated]
    <2>4. line \in LineRecord
        BY <2>2, <2>3 DEF LineRecord
    <2>5. examRooms' = Append(examRooms, line)
        BY <2>1
    <2> HIDE DEF line
    <2> QED
        BY <1>3, <1>7, <2>4, <2>5 DEF StoreStrayLine
<1>8. exams' \in Seq(ExamRecord) /\ examRooms' \in Seq(LineRecord)
    BY <1>3, <1>4, <1>5, <1>6, <1>7
<1>9. /\ students' \subseteq Student /\ courses' \subseteq Course /\ rooms' \in RoomTables
      /\ registrations' \subseteq Registration /\ IsFiniteSet(registrations')
    BY <1>0 DEF IInv, TypeOK, TablesSound
<1> QED
    BY <1>0, <1>8, <1>9, ImportSound

\* A room to which a row has been applied is a room of the same capacity.
LEMMA ConfirmedTyped ==
    ASSUME NEW old \in RoomRecord, NEW new \in RoomRecord
    PROVE  Confirmed(old, new) \in RoomRecord /\ Confirmed(old, new).capacity = old.capacity
<1> DEFINE l == IF BackfillsLayout(old, new) THEN new ELSE old
           b == IF BackfillsBlocked(old, new) THEN new.blocked ELSE old.blocked
<1>1. l \in RoomRecord /\ b \in SUBSET Nat
    BY DEF RoomRecord
<1>2. Confirmed(old, new) = [capacity |-> old.capacity, rows |-> l.rows,
                             columns |-> l.columns, blocked |-> b]
    BY DEF Confirmed
<1> HIDE DEF l, b
<1> QED
    BY <1>1, <1>2 DEF RoomRecord

LEMMA ImportRoomsKeeps ==
    ASSUME IInv, ImportRooms
    PROVE  IInv'
<1> DEFINE file == importer.rooms
<1>0. importer.kind = "rooms" /\ EndImport("rooms")
      /\ UNCHANGED <<students, courses, registrations, exams, examRooms>>
    BY DEF ImportRooms, EndImport
<1>1. PICK skipped :
          rooms' = [r \in DOMAIN rooms \cup (DOMAIN file \ skipped) |->
                      IF r \notin DOMAIN rooms THEN file[r]
                      ELSE IF r \in DOMAIN file THEN Confirmed(rooms[r], file[r])
                      ELSE rooms[r]]
    BY DEF ImportRooms
<1>2. file \in RoomTables
    <2>1. file \in RoomFiles
        BY <1>0 DEF IInv, TypeOK, ImporterTyped
    <2> HIDE DEF file
    <2> QED
        BY <2>1, RoomTableIs, ConstantsAreTyped DEF ConstantsAssumption
<1>3. rooms \in RoomTables
    BY DEF IInv, TypeOK
<1> HIDE DEF file
<1>4. /\ DOMAIN file \in SUBSET RoomId
      /\ \A r \in DOMAIN file : file[r] \in RoomRecord /\ file[r].capacity = Capacity[r]
    BY <1>2, RoomTableTyped
<1>5. /\ DOMAIN rooms \in SUBSET RoomId
      /\ \A r \in DOMAIN rooms : rooms[r] \in RoomRecord /\ rooms[r].capacity = Capacity[r]
    BY <1>3, RoomTableTyped
<1> DEFINE D == DOMAIN rooms \cup (DOMAIN file \ skipped)
           of(r) == IF r \notin DOMAIN rooms THEN file[r]
                    ELSE IF r \in DOMAIN file THEN Confirmed(rooms[r], file[r])
                    ELSE rooms[r]
<1>6. ASSUME NEW r \in D PROVE of(r) \in RoomRecord /\ of(r).capacity = Capacity[r]
    <2>1. CASE r \notin DOMAIN rooms
        BY <1>4, <2>1
    <2>2. CASE r \in DOMAIN rooms /\ r \in DOMAIN file
        BY <1>4, <1>5, <2>2, ConfirmedTyped
    <2>3. CASE r \in DOMAIN rooms /\ r \notin DOMAIN file
        BY <1>5, <2>3
    <2> QED
        BY <2>1, <2>2, <2>3
<1>7. rooms' = [r \in D |-> of(r)] /\ D \in SUBSET RoomId
    BY <1>1, <1>4, <1>5
<1> HIDE DEF D, of
<1>8. DOMAIN rooms' = D /\ \A r \in D : rooms'[r] = of(r)
    BY <1>7
<1>9. rooms' \in [D -> RoomRecord]
    BY <1>6, <1>7
<1>10. rooms' \in RoomTables
    <2>1. PICK table : table = rooms'
        OBVIOUS
    <2>2. IsRoomTable(table)
        BY <1>6, <1>7, <1>8, <1>9, <2>1 DEF IsRoomTable
    <2> QED
        BY <2>1, <2>2, RoomTableIs
<1>11. /\ students' \subseteq Student /\ courses' \subseteq Course
       /\ exams' \in Seq(ExamRecord) /\ examRooms' \in Seq(LineRecord)
       /\ IsFiniteSet(registrations') /\ registrations' \subseteq Registration
    BY <1>0 DEF IInv, TypeOK, TablesSound
<1> QED
    BY <1>0, <1>10, <1>11, ImportSound

LEMMA RestartKeeps ==
    ASSUME IInv, Restart
    PROVE  IInv'
<1>1. /\ req' = [t \in Request |-> Idle] /\ writer' = NoRequest
      /\ importer' = NoImport /\ UNCHANGED <<tables, counters>>
    BY DEF Restart
<1>2. TypeOK'
    BY <1>1 DEF IInv, TypeOK, ImporterTyped, NoImport, tables, counters
<1>3. \A t \in Request : req'[t].at = "idle"
    BY <1>1 DEF Idle
<1>4. IdsReserved' /\ RequestsSound'
    BY <1>3 DEF IdsReserved, RequestsSound, At
<1>5. TablesSound'
    BY <1>1, SameTables DEF IInv
<1> QED
    BY <1>2, <1>4, <1>5 DEF IInv
-----------------------------------------------------------------------------
LEMMA StepKeeps ==
    ASSUME IInv, NEW t \in Request, Step(t)
    PROVE  IInv'
<1>1. CASE LoadSession(t)
    BY <1>1, LoadSessionKeeps
<1>2. CASE LoadSessionExams(t)
    BY <1>2, LoadSessionExamsKeeps
<1>3. CASE LoadExam(t)
    BY <1>3, LoadExamKeeps
<1>4. CASE ExamsLoaded(t)
    BY <1>4, ExamsLoadedKeeps
<1>5. CASE ListRooms(t)
    BY <1>5, ListRoomsKeeps
<1>6. CASE LookUpRooms(t)
    BY <1>6, LookUpRoomsKeeps
<1>7. CASE RoomsListed(t)
    BY <1>7, RoomsListedKeeps
<1>8. CASE ListStudents(t)
    BY <1>8, ListStudentsKeeps
<1>9. CASE LookUpStudents(t)
    BY <1>9, LookUpStudentsKeeps
<1>10. CASE StudentsListed(t)
    BY <1>10, StudentsListedKeeps
<1>11. CASE Place(t)
    BY <1>11, PlaceKeeps
<1>12. CASE Write(t)
    BY <1>12, WriteKeeps
<1>13. CASE LockTimeout(t)
    BY <1>13, LockTimeoutKeeps
<1>14. CASE CommitSession(t)
    BY <1>14, CommitSessionKeeps
<1>15. CASE Respond(t)
    BY <1>15, RespondKeeps
<1>16. CASE CommitGeneration(t)
    BY <1>16, CommitGenerationKeeps
<1>17. CASE CommitReset(t)
    BY <1>17, CommitResetKeeps
<1> QED
    BY <1>1, <1>2, <1>3, <1>4, <1>5, <1>6, <1>7, <1>8, <1>9, <1>10, <1>11, <1>12,
       <1>13, <1>14, <1>15, <1>16, <1>17 DEF Step

LEMMA NextKeepsIInv == IInv /\ [Next]_vars => IInv'
<1> SUFFICES ASSUME IInv, [Next]_vars PROVE IInv'
    OBVIOUS
<1>1. ASSUME NEW t \in Request, Step(t) PROVE IInv'
    BY <1>1, StepKeeps
<1>2. ASSUME NEW t \in Request, Arrive(t) PROVE IInv'
    BY <1>2, ArrivalKeeps
<1>3. CASE ImportRegistrations
    BY <1>3, ImportRegistrationsKeeps
<1>4. CASE ImportSchedule
    BY <1>4, ImportScheduleKeeps
<1>5. CASE ImportRooms
    BY <1>5, ImportRoomsKeeps
<1>6. CASE Restart
    BY <1>6, RestartKeeps
<1>8. CASE BeginImport
    BY <1>8, BeginImportKeeps
<1>9. CASE ImportFails
    BY <1>9, ImportFailsKeeps
<1>7. CASE UNCHANGED vars
    <2>1. UNCHANGED <<tables, writer, importer, req, counters>>
        BY <1>7 DEF vars
    <2>2. TypeOK'
        BY <2>1 DEF IInv, TypeOK, ImporterTyped, tables, counters
    <2>3. IdsReserved' /\ RequestsSound'
        BY <2>1 DEF IInv, IdsReserved, RequestsSound, At, tables
    <2>4. TablesSound'
        BY <2>1, SameTables DEF IInv
    <2> QED
        BY <2>2, <2>3, <2>4 DEF IInv
<1> QED
    BY <1>1, <1>2, <1>3, <1>4, <1>5, <1>6, <1>7, <1>8, <1>9 DEF Next

\* The invariant holds in every reachable state.
THEOREM InvariantHolds == Spec => []IInv
<1> QED
    BY InitIInv, NextKeepsIInv, PTL DEF Spec

\* Every variable keeps its type, whatever requests, imports, resets and restarts
\* come in whatever order.
THEOREM TypeCorrect == Spec => []TypeOK
<1>1. IInv => TypeOK
    BY DEF IInv
<1> QED
    BY <1>1, InvariantHolds, PTL

\* GenerationsNeverCollide for any number of concurrent requests: no stored generation
\* seats a student twice, fills a seat twice or uses one that was blocked when the run
\* read the room, although what SeatingService and ExaminationSessionService read is no
\* snapshot of the database and imports go on changing rooms.
THEOREM NeverCollide == Spec => []GenerationsNeverCollide
<1>1. IInv => GenerationsNeverCollide
    BY DEF IInv, TablesSound
<1> QED
    BY <1>1, InvariantHolds, PTL

\* CountsMatchRows for any number of concurrent requests, resets and restarts: the
\* counts in a SeatingGeneration row are those of its seat_assignments.
THEOREM CountsMatch == Spec => []CountsMatchRows
<1>1. IInv => CountsMatchRows
    BY DEF IInv, TablesSound
<1> QED
    BY <1>1, InvariantHolds, PTL

\* HistoryAppendOnly for any number of concurrent requests: two generations that ran
\* side by side never get the same id, so neither overwrites nor extends the other.
THEOREM HistoryKept == Spec => HistoryAppendOnly
<1> DEFINE Kept ==
        \/ resets' # resets
        \/ /\ \A g \in DOMAIN generations :
                 g \in DOMAIN generations' /\ generations'[g] = generations[g]
           /\ seatRows \subseteq seatRows'
           /\ \A x \in seatRows' \ seatRows : x.generation \notin DOMAIN generations
<1>1. UNCHANGED <<generations, seatRows>> => Kept
    OBVIOUS
<1>2. ASSUME IInv, NEW t \in Request, CommitGeneration(t) PROVE Kept
    <2> DEFINE r == req[t]
               id == r.id
    <2>1. /\ r.at = "commit" /\ r.op \in {"exam", "session"}
          /\ generations' = WithRow(generations, id, GenerationRow(r))
          /\ seatRows' = seatRows \cup
                {[generation |-> id, exam |-> a.exam, room |-> a.room,
                  seat |-> a.seat, student |-> a.student] : a \in r.plan}
        BY <1>2 DEF CommitGeneration, At
    <2>2. id = Len(generations) + 1 /\ generations \in Seq(GenerationRecord)
        BY <1>2, <2>1 DEF IInv, TypeOK, IdsReserved, At
    <2>3. id \notin DOMAIN generations
        BY <2>2
    <2> HIDE DEF id
    <2>4. \A g \in DOMAIN generations :
              g \in DOMAIN generations' /\ generations'[g] = generations[g]
        BY <2>1, <2>3 DEF WithRow
    <2>5. \A x \in seatRows' \ seatRows : x.generation = id
        BY <2>1
    <2> QED
        BY <2>1, <2>3, <2>4, <2>5
<1>3. ASSUME IInv, NEW t \in Request, CommitReset(t) PROVE Kept
    <2>1. resets \in Nat /\ resets' = resets + 1
        BY <1>3 DEF IInv, TypeOK, CommitReset
    <2> QED
        BY <2>1
<1>4. ASSUME NEW t \in Request, Step(t), ~CommitGeneration(t), ~CommitReset(t)
      PROVE  UNCHANGED <<generations, seatRows>>
    BY <1>4 DEF Step, LoadSession, LoadSessionExams, LoadExam, ExamsLoaded, ListRooms,
                LookUpRooms, RoomsListed, ListStudents, LookUpStudents, StudentsListed,
                Place, Write, LockTimeout, CommitSession, Respond, tables
<1>5. ASSUME NEW t \in Request, Arrive(t) PROVE UNCHANGED <<generations, seatRows>>
    BY <1>5 DEF Arrive, BeginCreate, RejectExamIds, BeginGenerate, BeginGenerateSession,
                BeginReset, Begin, tables
<1>6. (\/ BeginImport \/ ImportRegistrations \/ ImportSchedule \/ ImportRooms
       \/ ImportFails \/ Restart \/ UNCHANGED vars)
          => UNCHANGED <<generations, seatRows>>
    BY DEF BeginImport, StartImport, ImportRegistrations, ImportSchedule, ImportRooms,
           EndImport, ImportFails, Restart, vars, tables
<1>7. IInv /\ [Next]_vars => Kept
    <2> SUFFICES ASSUME IInv, [Next]_vars PROVE Kept
        OBVIOUS
    <2> DEFINE Same == UNCHANGED <<generations, seatRows>>
    <2> HIDE DEF Kept, Same
    <2>1. ASSUME NEW t \in Request, Step(t) PROVE Kept
        BY <1>1, <1>2, <1>3, <1>4, <2>1 DEF Same
    <2>2. ASSUME NEW t \in Request, Arrive(t) PROVE Kept
        BY <1>1, <1>5, <2>2 DEF Same
    <2>3. (\/ BeginImport \/ ImportRegistrations \/ ImportSchedule \/ ImportRooms
           \/ ImportFails \/ Restart \/ UNCHANGED vars) => Kept
        BY <1>1, <1>6 DEF Same
    <2> QED
        BY <2>1, <2>2, <2>3 DEF Next
<1>8. IInv /\ [Next]_vars => [Kept]_vars
    BY <1>7
<1> QED
    BY <1>8, InvariantHolds, PTL DEF HistoryAppendOnly, Spec
-----------------------------------------------------------------------------
\* No row an import stored names a student, a course, an exam or a room that is not on
\* file.
FilesResolve ==
    /\ \A x \in registrations : x.student \in students /\ x.course \in courses
    /\ \A e \in DOMAIN exams : exams[e].course \in courses
    /\ \A i \in DOMAIN examRooms :
          examRooms[i].exam \in DOMAIN exams /\ examRooms[i].room \in DOMAIN rooms

\* What is known of rows: those of imports resolve, unless the last reset fell into an
\* import; those of a session do, unless a reset fell into its creation.
RowsResolve ==
    /\ overtaken => disturbed
    /\ ~overtaken => FilesResolve
    /\ \A s \in DOMAIN sessions :
          /\ sessions[s].ids # <<>>
          /\ sessions[s].since.imports <= imports
          /\ sessions[s].since.resets <= resets
          /\ ~disturbed => sessions[s].since.resets = resets
          /\ sessions[s].since.resets = resets =>
                \A i \in DOMAIN sessions[s].ids : sessions[s].ids[i] \in DOMAIN exams

\* The stages of a generation whose loop has come to the roster.
Gathering == Reading \cup {"insert", "commit"}

\* Whether r has read the students of its i-th exam.
HasHeard(r, i) == i < r.k \/ (r.at = "student_lookup" /\ i = r.k)

\* What a request's local variables have to do with each other, beyond RequestSound.
RequestFits(r) ==
    /\ r.since.imports <= imports /\ r.since.resets <= resets
    /\ ~disturbed => r.since.resets = resets
    /\ r.op = "create" => r.ids # <<>>
    /\ r.op = "exam" => r.ids = <<r.of>>
    /\ r.at = "respond" => r.op = "create"
    /\ r.at \in {"insert", "commit", "respond"} /\ r.op # "reset" => Len(r.loaded) = Len(r.ids)
    /\ r.at \in {"insert", "commit"} /\ r.op \in {"exam", "session"} =>
          /\ \A i \in DOMAIN r.loaded : i < r.k
          /\ \A x, y \in r.roster : x.student = y.student => x = y
          /\ \A a \in r.plan : \E x \in r.roster : a.student = x.student /\ a.exam = x.exam

\* Unless a reset fell into another request, stored generations name what is on file.
HistoryResolves ==
    ~disturbed =>
        /\ \A g \in DOMAIN generations :
              generations[g].of \in
                  (IF generations[g].kind = "exam" THEN DOMAIN exams ELSE DOMAIN sessions)
        /\ \A x \in seatRows : x.exam \in DOMAIN exams /\ Known(x.student)

\* What a request has read is still on file: that a reset has not been committed since
\* is all it takes.
UpToDate(r) ==
    /\ r.since.registrations \subseteq registrations
    /\ \A i \in DOMAIN r.loaded :
          /\ r.loaded[i].id \in DOMAIN exams
          /\ exams[r.loaded[i].id].course = r.loaded[i].course
    /\ ~overtaken => \A i \in DOMAIN r.lines : r.lines[i].room \in DOMAIN rooms
    /\ \A x \in r.roster : [student |-> x.student, course |-> x.course] \in registrations
    /\ r.op = "session" /\ r.at # "session" =>
          /\ r.of \in DOMAIN sessions
          /\ r.at # "session_exams" => r.ids = sessions[r.of].ids
    /\ r.op \in {"exam", "session"} /\ r.at \in Gathering =>
          \A i \in DOMAIN r.loaded : HasHeard(r, i) =>
              \A y \in r.since.registrations : y.course = r.loaded[i].course =>
                  [student |-> y.student, exam |-> r.loaded[i].id, course |-> y.course]
                      \in r.roster

RequestsFit ==
    \A t \in Request : ~At(t, "idle") =>
        /\ RequestFits(req[t])
        /\ req[t].since.resets = resets => UpToDate(req[t])

Holds(r) == RequestFits(r) /\ (r.since.resets = resets => UpToDate(r))

\* What an import has read is what is on file, unless a reset came in between: nobody
\* else writes to these tables.
ImportsCurrent ==
    ~overtaken =>
        /\ importer.kind = "registrations" =>
              /\ importer.seen.students = students /\ importer.seen.courses = courses
              /\ importer.seen.registrations = registrations
        /\ importer.kind = "schedule" =>
              /\ importer.seen.courses = courses /\ importer.seen.exams = exams

\* The invariant of what requests and imports know of the database.
LInv == RowsResolve /\ HistoryResolves /\ RequestsFit /\ ImportsCurrent

\* What every step but a reset does to the tables: rows are added, none is changed.
TablesGrow ==
    /\ resets' = resets /\ imports <= imports'
    /\ disturbed' = disturbed /\ overtaken' = overtaken
    /\ students \subseteq students' /\ courses \subseteq courses'
    /\ DOMAIN rooms \subseteq DOMAIN rooms' /\ registrations \subseteq registrations'
    /\ \A e \in DOMAIN exams : e \in DOMAIN exams' /\ exams'[e] = exams[e]
    /\ \A s \in DOMAIN sessions : s \in DOMAIN sessions' /\ sessions'[s] = sessions[s]
-----------------------------------------------------------------------------
\* What a request has read stays true when rows are added.
LEMMA HoldsStays ==
    ASSUME TypeOK, imports' \in Nat, TablesGrow, NEW r, r.since.imports \in Nat, Holds(r)
    PROVE  Holds(r)'
<1>1. RequestFits(r)'
    <2>1. r.since.imports <= imports'
        BY DEF Holds, RequestFits, TablesGrow, TypeOK
    <2> QED
        BY <2>1 DEF Holds, RequestFits, TablesGrow
<1>2. ASSUME r.since.resets = resets' PROVE UpToDate(r)'
    <2>1. UpToDate(r)
        BY <1>2 DEF Holds, TablesGrow
    <2>2. /\ r.since.registrations \subseteq registrations'
          /\ ~overtaken' => \A i \in DOMAIN r.lines : r.lines[i].room \in DOMAIN rooms'
          /\ \A x \in r.roster :
                [student |-> x.student, course |-> x.course] \in registrations'
        BY <2>1 DEF UpToDate, TablesGrow
    <2>3. \A i \in DOMAIN r.loaded :
              /\ r.loaded[i].id \in DOMAIN exams'
              /\ exams'[r.loaded[i].id].course = r.loaded[i].course
        BY <2>1 DEF UpToDate, TablesGrow
    <2>4. r.op = "session" /\ r.at # "session" =>
              /\ r.of \in DOMAIN sessions'
              /\ r.at # "session_exams" => r.ids = sessions'[r.of].ids
        BY <2>1 DEF UpToDate, TablesGrow
    <2> QED
        BY <2>1, <2>2, <2>3, <2>4 DEF UpToDate
<1> QED
    BY <1>1, <1>2 DEF Holds

\* A request's local variables, which are those of the request in the next state, too,
\* unless it is t's turn.
LEMMA ActiveHolds ==
    ASSUME IInv, RequestsFit, NEW u \in Request, ~At(u, "idle")
    PROVE  Holds(req[u]) /\ req[u] \in RequestRecord /\ req[u].since.imports \in Nat
<1>1. req[u] \in RequestRecord
    BY ActiveRequest
<1> QED
    BY <1>1 DEF RequestRecord, RequestsFit, Holds

\* t's request goes on, begins or ends while rows are added.
LEMMA RequestsGoOn ==
    ASSUME IInv, imports' \in Nat, RequestsFit, TablesGrow, NEW t \in Request, NEW r,
           req' = [req EXCEPT ![t] = r], r.at # "idle" => Holds(r)'
    PROVE  RequestsFit'
<1>1. req'[t] = r /\ \A u \in Request \ {t} : req'[u] = req[u]
    BY DEF IInv, TypeOK
<1> SUFFICES ASSUME NEW u \in Request, ~At(u, "idle")'
             PROVE  Holds(req[u])'
    BY DEF RequestsFit, Holds
<1>2. CASE u = t
    BY <1>1, <1>2 DEF At, Holds, RequestFits, UpToDate, HasHeard
<1>3. CASE u # t
    <2>1. req'[u] = req[u] /\ ~At(u, "idle")
        BY <1>1, <1>3 DEF At
    <2>2. PICK s : s = req[u]
        OBVIOUS
    <2>3. Holds(s) /\ s.since.imports \in Nat
        BY <2>1, <2>2, ActiveHolds
    <2>4. Holds(s)'
        BY <2>3, HoldsStays DEF IInv
    <2>5. s = req'[u]
        BY <2>1, <2>2
    <2> QED
        BY <2>4, <2>5 DEF Holds, RequestFits, UpToDate, HasHeard
<1> QED
    BY <1>2, <1>3

\* Nobody's request changes while rows are added.
LEMMA RequestsStay ==
    ASSUME IInv, imports' \in Nat, RequestsFit, TablesGrow, UNCHANGED req
    PROVE  RequestsFit'
<1> SUFFICES ASSUME NEW t \in Request PROVE (~At(t, "idle") => Holds(req[t]))'
    BY DEF RequestsFit, Holds
<1>1. req' = [req EXCEPT ![t] = req[t]]
    BY DEF IInv, TypeOK
<1>2. CASE At(t, "idle")
    BY <1>2 DEF At
<1>3. CASE ~At(t, "idle")
    <2>1. PICK s : s = req[t]
        OBVIOUS
    <2>2. Holds(s)'
        BY <1>3, <2>1, ActiveHolds, HoldsStays DEF IInv
    <2>3. s = req'[t]
        BY <2>1
    <2> QED
        BY <2>2, <2>3 DEF Holds, RequestFits, UpToDate, HasHeard
<1> QED
    BY <1>2, <1>3

\* Steps that only read.
LEMMA ReadersGrow ==
    ASSUME IInv, UNCHANGED <<tables, resets, disturbed, overtaken, imports>>
    PROVE  /\ TablesGrow /\ imports' \in Nat
           /\ RowsResolve /\ HistoryResolves => RowsResolve' /\ HistoryResolves'
<1>1. imports \in Nat
    BY DEF IInv, TypeOK
<1>2. RowsResolve => RowsResolve'
    BY DEF tables, RowsResolve, FilesResolve
<1>3. HistoryResolves => HistoryResolves'
    BY DEF tables, HistoryResolves, Known
<1> QED
    BY <1>1, <1>2, <1>3 DEF TablesGrow, tables

\* Unless an import or a reset is committed, imports under way stay current.
LEMMA ImportsStay ==
    ASSUME ImportsCurrent, UNCHANGED <<importer, overtaken>>,
           UNCHANGED <<students, courses, registrations, exams>>
    PROVE  ImportsCurrent'
BY DEF ImportsCurrent

LEMMA MovesOnFits ==
    ASSUME IInv, LInv, NEW t \in Request, NEW r, r.since.imports \in Nat, Holds(r), Goto(t, r),
           UNCHANGED <<tables, importer, counters>>
    PROVE  LInv'
<1>1. UNCHANGED <<tables, resets, disturbed, overtaken, imports>>
    BY DEF counters
<1>2. TablesGrow /\ imports' \in Nat /\ RowsResolve' /\ HistoryResolves'
    BY <1>1, ReadersGrow DEF LInv
<1>4. ImportsCurrent'
    BY ImportsStay DEF LInv, tables, counters
<1>3. Holds(r)'
    BY <1>2, HoldsStays DEF IInv
<1> QED
    BY <1>2, <1>3, <1>4, RequestsGoOn DEF LInv, Goto

LEMMA EndsFit ==
    ASSUME IInv, LInv, NEW t \in Request, NEW a, Answer(t, a),
           UNCHANGED <<tables, importer, counters>>
    PROVE  LInv'
<1>1. UNCHANGED <<tables, resets, disturbed, overtaken, imports>>
    BY DEF counters
<1>2. TablesGrow /\ imports' \in Nat /\ RowsResolve' /\ HistoryResolves'
    BY <1>1, ReadersGrow DEF LInv
<1>4. ImportsCurrent'
    BY ImportsStay DEF LInv, tables, counters
<1>3. req' = [req EXCEPT ![t] = Idle] /\ Idle.at = "idle"
    BY DEF Answer, Idle
<1> QED
    BY <1>2, <1>3, <1>4, RequestsGoOn DEF LInv

\* The rows list_by_exam answers are rows of the table.
LEMMA ListedFromTable ==
    ASSUME NEW table \in Seq(LineRecord), NEW e
    PROVE  /\ Listed(table, e) \in Seq(LineRecord)
           /\ \A i \in DOMAIN Listed(table, e) : \E j \in DOMAIN table :
                 Listed(table, e)[i] = table[j] /\ table[j].exam = e
<1> DEFINE places == {i \in DOMAIN table : table[i].exam = e}
<1>1. places \in SUBSET DOMAIN table /\ Listed(table, e) = Chosen(table, places)
      /\ \A j \in places : table[j].exam = e
    BY DEF Listed
<1> HIDE DEF places
<1>2. /\ Chosen(table, places) \in Seq(LineRecord)
      /\ \A n \in DOMAIN Chosen(table, places) : \E i \in places :
            Chosen(table, places)[n] = table[i]
    BY <1>1, ChosenIsSequence
<1> QED
    BY <1>1, <1>2
-----------------------------------------------------------------------------
\* The reading steps.
LEMMA LoadSessionFits ==
    ASSUME IInv, LInv, NEW t \in Request, LoadSession(t)
    PROVE  LInv'
<1>1. UNCHANGED <<tables, importer, counters>> /\ At(t, "session")
    BY DEF LoadSession
<1>2. PICK r : r = [req[t] EXCEPT !.at = "session_exams"]
    OBVIOUS
<1>3. /\ req[t] \in RequestRecord /\ Holds(req[t]) /\ req[t].at = "session"
      /\ RequestSound(req[t])
    BY <1>1, ActiveHolds, ActiveRequest DEF At, LInv
<1>4. /\ r.at = "session_exams" /\ r.op = req[t].op /\ r.of = req[t].of /\ r.ids = req[t].ids
      /\ r.k = req[t].k /\ r.loaded = req[t].loaded /\ r.lines = req[t].lines
      /\ r.roster = req[t].roster /\ r.since = req[t].since /\ r.since.imports \in Nat
    BY <1>2, <1>3 DEF RequestRecord
<1>5. CASE req[t].of \in DOMAIN sessions /\ Goto(t, r)
    <2>1. RequestFits(r)
        BY <1>3, <1>4 DEF Holds, RequestFits
    <2>2. r.since.resets = resets => UpToDate(r)
        BY <1>3, <1>4, <1>5 DEF Holds, UpToDate, Gathering, Reading
    <2> QED
        BY <1>1, <1>4, <1>5, <2>1, <2>2, MovesOnFits DEF Holds
<1>6. CASE Answer(t, "SessionNotFoundError")
    BY <1>1, <1>6, EndsFit
<1> QED
    BY <1>2, <1>5, <1>6 DEF LoadSession

LEMMA LoadSessionExamsFits ==
    ASSUME IInv, LInv, NEW t \in Request, LoadSessionExams(t)
    PROVE  LInv'
<1> DEFINE s == req[t].of
           ids == IF s \in DOMAIN sessions THEN sessions[s].ids ELSE <<>>
<1>1. UNCHANGED <<tables, importer, counters>> /\ At(t, "session_exams")
    BY DEF LoadSessionExams
<1>2. PICK r : r = [req[t] EXCEPT !.at = "exams", !.ids = ids]
    OBVIOUS
<1>3. /\ req[t] \in RequestRecord /\ Holds(req[t]) /\ req[t].at = "session_exams"
      /\ RequestSound(req[t])
    BY <1>1, ActiveHolds, ActiveRequest DEF At, LInv
<1>4. /\ r.at = "exams" /\ r.op = req[t].op /\ r.of = req[t].of /\ r.ids = ids
      /\ r.k = req[t].k /\ r.loaded = req[t].loaded /\ r.lines = req[t].lines
      /\ r.roster = req[t].roster /\ r.since = req[t].since /\ r.since.imports \in Nat
    BY <1>2, <1>3 DEF RequestRecord
<1>5. req[t].op = "session"
    BY <1>3 DEF RequestSound
<1>6. Goto(t, r)
    BY <1>2 DEF LoadSessionExams
<1>7. RequestFits(r)
    BY <1>3, <1>4, <1>5 DEF Holds, RequestFits
<1>8. r.since.resets = resets => UpToDate(r)
    BY <1>3, <1>4 DEF Holds, UpToDate, Gathering, Reading
<1> QED
    BY <1>1, <1>4, <1>6, <1>7, <1>8, MovesOnFits DEF Holds

LEMMA LoadExamFits ==
    ASSUME IInv, LInv, NEW t \in Request, LoadExam(t)
    PROVE  LInv'
<1> DEFINE e == req[t].ids[req[t].k]
           row == [id |-> e, course |-> exams[e].course, slot |-> exams[e].slot]
<1>1. UNCHANGED <<tables, importer, counters>> /\ At(t, "exams")
    BY DEF LoadExam
<1>2. PICK r : r = [req[t] EXCEPT !.k = @ + 1, !.loaded = Append(@, row)]
    OBVIOUS
<1>3. /\ req[t] \in RequestRecord /\ Holds(req[t]) /\ req[t].at = "exams"
      /\ RequestSound(req[t])
    BY <1>1, ActiveHolds, ActiveRequest DEF At, LInv
<1>4. /\ r.at = "exams" /\ r.op = req[t].op /\ r.of = req[t].of /\ r.ids = req[t].ids
      /\ r.loaded = Append(req[t].loaded, row) /\ r.lines = req[t].lines
      /\ r.roster = req[t].roster /\ r.since = req[t].since /\ r.since.imports \in Nat
    BY <1>2, <1>3 DEF RequestRecord
<1>5. CASE e \in DOMAIN exams /\ Goto(t, r)
    <2>1. RequestFits(r)
        BY <1>3, <1>4 DEF Holds, RequestFits
    <2>2. row.id = e /\ row.course = exams[e].course
        OBVIOUS
    <2> HIDE DEF row, e
    <2>3. \A i \in DOMAIN r.loaded :
              r.loaded[i] = row \/ (i \in DOMAIN req[t].loaded /\ r.loaded[i] = req[t].loaded[i])
        <3> DEFINE loaded == req[t].loaded
        <3>1. loaded \in Seq([id : Nat, course : Course, slot : Slot])
            BY <1>3 DEF RequestRecord
        <3>2. r.loaded = Append(loaded, row)
            BY <1>4
        <3> HIDE DEF loaded
        <3>3. \A i \in DOMAIN r.loaded :
                  r.loaded[i] = row \/ (i \in DOMAIN loaded /\ r.loaded[i] = loaded[i])
            BY <3>1, <3>2
        <3> QED
            BY <3>3 DEF loaded
    <2>4. r.since.resets = resets => UpToDate(r)
        BY <1>3, <1>4, <1>5, <2>2, <2>3 DEF Holds, UpToDate, Gathering, Reading
    <2> QED
        BY <1>1, <1>4, <1>5, <2>1, <2>4, MovesOnFits DEF Holds
<1>6. CASE \E a : Answer(t, a)
    BY <1>1, <1>6, EndsFit
<1> QED
    BY <1>2, <1>5, <1>6 DEF LoadExam

LEMMA ExamsLoadedFits ==
    ASSUME IInv, LInv, NEW t \in Request, ExamsLoaded(t)
    PROVE  LInv'
<1>1. UNCHANGED <<tables, importer, counters>> /\ At(t, "exams")
    BY DEF ExamsLoaded
<1>2. PICK r : r = [req[t] EXCEPT !.at = "rooms", !.k = 1]
    OBVIOUS
<1>3. /\ req[t] \in RequestRecord /\ Holds(req[t]) /\ req[t].at = "exams"
      /\ RequestSound(req[t])
    BY <1>1, ActiveHolds, ActiveRequest DEF At, LInv
<1>4. /\ r.at = "rooms" /\ r.op = req[t].op /\ r.of = req[t].of /\ r.ids = req[t].ids
      /\ r.k = 1 /\ r.loaded = req[t].loaded /\ r.lines = req[t].lines
      /\ r.roster = req[t].roster /\ r.since = req[t].since /\ r.since.imports \in Nat
    BY <1>2, <1>3 DEF RequestRecord
<1>5. CASE Goto(t, r)
    <2>1. RequestFits(r)
        BY <1>3, <1>4 DEF Holds, RequestFits
    <2>2. \A i \in DOMAIN r.loaded : ~HasHeard(r, i)
        <3>1. r.loaded \in Seq([id : Nat, course : Course, slot : Slot])
            BY <1>3, <1>4 DEF RequestRecord
        <3>2. \A i \in DOMAIN r.loaded : ~(i < 1)
            BY <3>1
        <3> QED
            BY <1>4, <3>2 DEF HasHeard
    <2>3. r.since.resets = resets => UpToDate(r)
        BY <1>3, <1>4, <2>2 DEF Holds, UpToDate
    <2> QED
        BY <1>1, <1>4, <1>5, <2>1, <2>3, MovesOnFits DEF Holds
<1>6. CASE \E a : Answer(t, a)
    BY <1>1, <1>6, EndsFit
<1> QED
    BY <1>2, <1>5, <1>6 DEF ExamsLoaded

LEMMA ListRoomsFits ==
    ASSUME IInv, LInv, NEW t \in Request, ListRooms(t)
    PROVE  LInv'
<1> DEFINE e == req[t].ids[req[t].k]
           more == Listed(examRooms, e)
<1>1. UNCHANGED <<tables, importer, counters>> /\ At(t, "rooms")
    BY DEF ListRooms
<1>2. PICK r : r = [req[t] EXCEPT !.at = "room_lookup", !.lines = @ \o more]
    OBVIOUS
<1>3. /\ req[t] \in RequestRecord /\ Holds(req[t]) /\ req[t].at = "rooms"
      /\ RequestSound(req[t])
    BY <1>1, ActiveHolds, ActiveRequest DEF At, LInv
<1>4. /\ r.at = "room_lookup" /\ r.op = req[t].op /\ r.of = req[t].of /\ r.ids = req[t].ids
      /\ r.k = req[t].k /\ r.loaded = req[t].loaded /\ r.lines = req[t].lines \o more
      /\ r.roster = req[t].roster /\ r.since = req[t].since /\ r.since.imports \in Nat
    BY <1>2, <1>3 DEF RequestRecord
<1>5. Goto(t, r)
    BY <1>2 DEF ListRooms
<1>6. \A i \in DOMAIN r.lines :
          \/ i \in DOMAIN req[t].lines /\ r.lines[i] = req[t].lines[i]
          \/ overtaken \/ r.lines[i].room \in DOMAIN rooms
    <2>1. /\ more \in Seq(LineRecord)
          /\ ~overtaken => \A i \in DOMAIN more : more[i].room \in DOMAIN rooms
        <3>1. examRooms \in Seq(LineRecord)
            BY DEF IInv, TypeOK
        <3>2. ~overtaken => \A i \in DOMAIN examRooms : examRooms[i].room \in DOMAIN rooms
            BY DEF LInv, RowsResolve, FilesResolve
        <3> HIDE DEF e
        <3>3. more \in Seq(LineRecord)
              /\ \A i \in DOMAIN more : \E j \in DOMAIN examRooms : more[i] = examRooms[j]
            BY <3>1, ListedFromTable
        <3> QED
            BY <3>2, <3>3
    <2> DEFINE lines == req[t].lines
    <2>2. lines \in Seq(LineRecord) /\ r.lines = lines \o more
        BY <1>3, <1>4 DEF RequestRecord
    <2> HIDE DEF more, lines
    <2>3. \A i \in DOMAIN r.lines :
              \/ i \in DOMAIN lines /\ r.lines[i] = lines[i]
              \/ \E j \in DOMAIN more : r.lines[i] = more[j]
        <3> SUFFICES ASSUME NEW i \in DOMAIN r.lines, i \notin DOMAIN lines
                     PROVE  \E j \in DOMAIN more : r.lines[i] = more[j]
            BY <2>1, <2>2
        <3>1. /\ Len(lines) \in Nat /\ Len(more) \in Nat
              /\ i \in 1..(Len(lines) + Len(more)) /\ ~(i \in 1..Len(lines))
            BY <2>1, <2>2
        <3>2. i - Len(lines) \in 1..Len(more) /\ r.lines[i] = more[i - Len(lines)]
            BY <2>1, <2>2, <3>1
        <3> QED
            BY <2>1, <3>2
    <2> QED
        BY <2>1, <2>3 DEF lines
<1> HIDE DEF more
<1>7. RequestFits(r)
    BY <1>3, <1>4 DEF Holds, RequestFits
<1>8. r.since.resets = resets => UpToDate(r)
    BY <1>3, <1>4, <1>6 DEF Holds, UpToDate, Gathering, Reading, HasHeard
<1> QED
    BY <1>1, <1>4, <1>5, <1>7, <1>8, MovesOnFits DEF Holds

LEMMA LookUpRoomsFits ==
    ASSUME IInv, LInv, NEW t \in Request, LookUpRooms(t)
    PROVE  LInv'
<1>1. UNCHANGED <<tables, importer, counters>> /\ At(t, "room_lookup")
    BY DEF LookUpRooms
<1>2. PICK r : r = IF req[t].op = "create" THEN [req[t] EXCEPT !.at = "rooms", !.k = @ + 1]
                   ELSE [req[t] EXCEPT !.at = "students"]
    OBVIOUS
<1>3. /\ req[t] \in RequestRecord /\ Holds(req[t]) /\ req[t].at = "room_lookup"
      /\ RequestSound(req[t])
    BY <1>1, ActiveHolds, ActiveRequest DEF At, LInv
<1>4. /\ r.at = (IF req[t].op = "create" THEN "rooms" ELSE "students")
      /\ r.op = req[t].op /\ r.of = req[t].of /\ r.ids = req[t].ids
      /\ (req[t].op # "create" => r.k = req[t].k)
      /\ r.loaded = req[t].loaded /\ r.lines = req[t].lines
      /\ r.roster = req[t].roster /\ r.since = req[t].since /\ r.since.imports \in Nat
    BY <1>2, <1>3 DEF RequestRecord
<1>5. CASE Goto(t, r)
    <2>1. RequestFits(r)
        BY <1>3, <1>4 DEF Holds, RequestFits
    <2>2. r.since.resets = resets => UpToDate(r)
        BY <1>3, <1>4 DEF Holds, UpToDate, Gathering, Reading, HasHeard
    <2> QED
        BY <1>1, <1>4, <1>5, <2>1, <2>2, MovesOnFits DEF Holds
<1>6. CASE Answer(t, "AssertionError")
    BY <1>1, <1>6, EndsFit
<1>7. Goto(t, r) \/ Answer(t, "AssertionError")
    BY <1>2 DEF LookUpRooms
<1> QED
    BY <1>5, <1>6, <1>7

LEMMA RoomsListedFits ==
    ASSUME IInv, LInv, NEW t \in Request, RoomsListed(t)
    PROVE  LInv'
<1>1. UNCHANGED <<tables, importer, counters>> /\ At(t, "rooms") /\ req[t].op = "create"
    BY DEF RoomsListed
<1>2. PICK r : r = [req[t] EXCEPT !.at = "students", !.k = 1]
    OBVIOUS
<1>3. /\ req[t] \in RequestRecord /\ Holds(req[t]) /\ req[t].at = "rooms"
    BY <1>1, ActiveHolds DEF At, LInv
<1>4. /\ r.at = "students" /\ r.op = req[t].op /\ r.of = req[t].of /\ r.ids = req[t].ids
      /\ r.loaded = req[t].loaded /\ r.lines = req[t].lines
      /\ r.roster = req[t].roster /\ r.since = req[t].since /\ r.since.imports \in Nat
    BY <1>2, <1>3 DEF RequestRecord
<1>5. CASE Goto(t, r)
    <2>1. RequestFits(r)
        BY <1>3, <1>4 DEF Holds, RequestFits
    <2>2. r.since.resets = resets => UpToDate(r)
        BY <1>1, <1>3, <1>4 DEF Holds, UpToDate
    <2> QED
        BY <1>1, <1>4, <1>5, <2>1, <2>2, MovesOnFits DEF Holds
<1>6. CASE \E a : Answer(t, a)
    BY <1>1, <1>6, EndsFit
<1> QED
    BY <1>2, <1>5, <1>6 DEF RoomsListed

LEMMA ListStudentsFits ==
    ASSUME IInv, LInv, NEW t \in Request, ListStudents(t)
    PROVE  LInv'
<1> DEFINE e == req[t].loaded[req[t].k]
           listed == {y \in registrations : y.course = e.course}
           more == {[student |-> x.student, exam |-> e.id, course |-> e.course] : x \in listed}
<1>1. UNCHANGED <<tables, importer, counters>> /\ At(t, "students")
    BY DEF ListStudents
<1>2. PICK r : r = [req[t] EXCEPT !.at = "student_lookup", !.roster = @ \cup more]
    OBVIOUS
<1>3. /\ req[t] \in RequestRecord /\ Holds(req[t]) /\ req[t].at = "students"
    BY <1>1, ActiveHolds DEF At, LInv
<1>4. /\ r.at = "student_lookup" /\ r.op = req[t].op /\ r.of = req[t].of /\ r.ids = req[t].ids
      /\ r.k = req[t].k /\ r.loaded = req[t].loaded /\ r.lines = req[t].lines
      /\ r.roster = req[t].roster \cup more /\ r.since = req[t].since
      /\ r.since.imports \in Nat
    BY <1>2, <1>3 DEF RequestRecord
<1>5. Goto(t, r)
    BY <1>2 DEF ListStudents
<1>6. \A x \in more : [student |-> x.student, course |-> x.course] \in registrations
    <2>1. registrations \subseteq Registration
        BY DEF IInv, TypeOK
    <2>2. ASSUME NEW y \in listed
          PROVE  [student |-> y.student, course |-> e.course] \in registrations
        <3>1. y = [student |-> y.student, course |-> e.course]
            BY <2>1 DEF Registration
        <3> QED
            BY <3>1
    <2> QED
        BY <2>2
<1>7. \A y \in registrations : y.course = e.course =>
          [student |-> y.student, exam |-> e.id, course |-> y.course] \in more
    OBVIOUS
<1> HIDE DEF more
<1>8. RequestFits(r)
    BY <1>3, <1>4 DEF Holds, RequestFits
<1>9. ASSUME r.since.resets = resets PROVE UpToDate(r)
    <2>1. UpToDate(req[t])
        BY <1>3, <1>4, <1>9 DEF Holds
    <2>2. \A x \in r.roster : [student |-> x.student, course |-> x.course] \in registrations
        BY <1>4, <1>6, <2>1 DEF UpToDate
    <2>3. ASSUME r.op \in {"exam", "session"}, NEW i \in DOMAIN r.loaded, HasHeard(r, i),
                 NEW y \in r.since.registrations, y.course = r.loaded[i].course
          PROVE  [student |-> y.student, exam |-> r.loaded[i].id, course |-> y.course]
                     \in r.roster
        <3>1. CASE i = r.k
            BY <1>4, <1>7, <2>1, <2>3, <3>1 DEF UpToDate
        <3>2. CASE i # r.k
            BY <1>3, <1>4, <2>1, <2>3, <3>2 DEF UpToDate, HasHeard, Gathering, Reading
        <3> QED
            BY <3>1, <3>2
    <2> QED
        BY <1>3, <1>4, <2>1, <2>2, <2>3 DEF UpToDate
<1> QED
    BY <1>1, <1>4, <1>5, <1>8, <1>9, MovesOnFits DEF Holds

LEMMA LookUpStudentsFits ==
    ASSUME IInv, LInv, NEW t \in Request, LookUpStudents(t)
    PROVE  LInv'
<1> DEFINE stage == IF req[t].op = "create" THEN "students" ELSE "rooms"
<1>1. UNCHANGED <<tables, importer, counters>> /\ At(t, "student_lookup")
    BY DEF LookUpStudents
<1>2. PICK r : r = [req[t] EXCEPT !.at = stage, !.k = @ + 1]
    OBVIOUS
<1>3. /\ req[t] \in RequestRecord /\ Holds(req[t]) /\ req[t].at = "student_lookup"
      /\ req[t].loaded \in Seq([id : Nat, course : Course, slot : Slot])
      /\ req[t].k \in Nat
    BY <1>1, ActiveHolds DEF At, LInv, RequestRecord
<1>4. /\ r.at = stage /\ r.op = req[t].op /\ r.of = req[t].of /\ r.ids = req[t].ids
      /\ r.k = req[t].k + 1 /\ r.loaded = req[t].loaded /\ r.lines = req[t].lines
      /\ r.roster = req[t].roster /\ r.since = req[t].since
      /\ r.since.imports \in Nat
    BY <1>2, <1>3 DEF RequestRecord
<1>5. CASE Goto(t, r)
    <2>1. RequestFits(r)
        BY <1>3, <1>4 DEF Holds, RequestFits
    <2>2. \A i \in DOMAIN r.loaded : HasHeard(r, i) => HasHeard(req[t], i)
        <3>1. DOMAIN r.loaded \subseteq Nat
            BY <1>3, <1>4
        <3>2. \A i \in DOMAIN r.loaded : i < r.k => i < req[t].k \/ i = req[t].k
            BY <1>3, <1>4, <3>1
        <3> QED
            BY <1>3, <1>4, <3>2 DEF HasHeard
    <2>3. r.since.resets = resets => UpToDate(r)
        BY <1>3, <1>4, <2>2 DEF Holds, UpToDate, Gathering, Reading
    <2> QED
        BY <1>1, <1>4, <1>5, <2>1, <2>3, MovesOnFits DEF Holds
<1>6. CASE Answer(t, "AssertionError")
    BY <1>1, <1>6, EndsFit
<1>7. Goto(t, r) \/ Answer(t, "AssertionError")
    BY <1>2 DEF LookUpStudents
<1> QED
    BY <1>5, <1>6, <1>7

LEMMA StudentsListedFits ==
    ASSUME IInv, LInv, NEW t \in Request, StudentsListed(t)
    PROVE  LInv'
<1>1. UNCHANGED <<tables, importer, counters>> /\ At(t, "students") /\ req[t].op = "create"
    BY DEF StudentsListed
<1>2. PICK r : r = [req[t] EXCEPT !.at = "insert"]
    OBVIOUS
<1>3. /\ req[t] \in RequestRecord /\ Holds(req[t]) /\ req[t].at = "students"
      /\ RequestSound(req[t])
    BY <1>1, ActiveHolds, ActiveRequest DEF At, LInv
<1>4. /\ r.at = "insert" /\ r.op = req[t].op /\ r.of = req[t].of /\ r.ids = req[t].ids
      /\ r.k = req[t].k /\ r.loaded = req[t].loaded /\ r.lines = req[t].lines
      /\ r.roster = req[t].roster /\ r.since = req[t].since
      /\ r.since.imports \in Nat
    BY <1>2, <1>3 DEF RequestRecord
<1>5. CASE Goto(t, r)
    <2>1. RequestFits(r)
        BY <1>1, <1>3, <1>4 DEF Holds, RequestFits, RequestSound, Reading
    <2>2. r.since.resets = resets => UpToDate(r)
        BY <1>1, <1>3, <1>4 DEF Holds, UpToDate
    <2> QED
        BY <1>1, <1>4, <1>5, <2>1, <2>2, MovesOnFits DEF Holds
<1>6. CASE \E a : Answer(t, a)
    BY <1>1, <1>6, EndsFit
<1> QED
    BY <1>2, <1>5, <1>6 DEF StudentsListed
-----------------------------------------------------------------------------
\* Placing, and the steps around the lock.
LEMMA PlaceFits ==
    ASSUME IInv, LInv, NEW t \in Request, Place(t)
    PROVE  LInv'
<1>1. /\ UNCHANGED <<tables, importer, counters>>
      /\ At(t, "rooms") /\ req[t].op \in {"exam", "session"}
      /\ Finished(t)
    BY DEF Place
<1>2. PICK r : r = [req[t] EXCEPT !.at = "insert", !.layout = rooms,
                          !.plan = PlanOf(req[t], rooms)]
    OBVIOUS
<1>3. /\ req[t] \in RequestRecord /\ Holds(req[t]) /\ req[t].at = "rooms"
      /\ RequestSound(req[t])
    BY <1>1, ActiveHolds, ActiveRequest DEF At, LInv
<1>4. /\ r.at = "insert" /\ r.op = req[t].op /\ r.of = req[t].of /\ r.ids = req[t].ids
      /\ r.k = req[t].k /\ r.loaded = req[t].loaded /\ r.lines = req[t].lines
      /\ r.roster = req[t].roster /\ r.plan = PlanOf(req[t], rooms) /\ r.since = req[t].since
      /\ r.since.imports \in Nat
    BY <1>2, <1>3 DEF RequestRecord
<1>5. CASE /\ req[t].op = "session" => NoDuplicateStudent(req[t].roster)
           /\ RoomsDistinct(AllocationsOf(req[t]))
           /\ \A i \in DOMAIN AllocationsOf(req[t]) :
                 AllocationsOf(req[t])[i].room \in DOMAIN rooms
           /\ Goto(t, r)
    <2>1. PICK s, layout : s = req[t] /\ layout = rooms
        OBVIOUS
    <2>0. layout \in RoomTables
        BY <2>1 DEF IInv, TypeOK
    <2>2. /\ \A x, y \in s.roster : x.student = y.student => x = y
          /\ \A z \in PlanOf(s, layout) : \E x \in s.roster :
                z = [student |-> x.student, exam |-> x.exam,
                     room |-> z.room, seat |-> z.seat]
        BY <1>1, <1>3, <1>5, <2>0, <2>1, PlanFromRoster
    <2>3. \A a \in r.plan : \E x \in r.roster : a.student = x.student /\ a.exam = x.exam
        BY <1>4, <2>1, <2>2
    <2>4. Len(r.loaded) = Len(r.ids) /\ \A i \in DOMAIN r.loaded : i < r.k
        <3> DEFINE loaded == req[t].loaded
                   ids == req[t].ids
        <3>1. /\ loaded \in Seq([id : Nat, course : Course, slot : Slot]) /\ ids \in Seq(Nat)
              /\ Len(loaded) = Len(ids) /\ req[t].k \in Nat /\ req[t].k > Len(ids)
            BY <1>1, <1>3 DEF RequestRecord, RequestSound, Finished, Reading
        <3> HIDE DEF loaded, ids
        <3>2. \A i \in DOMAIN loaded : i < req[t].k
            BY <3>1
        <3> QED
            BY <1>4, <3>1, <3>2 DEF loaded, ids
    <2>5. RequestFits(r)
        BY <1>1, <1>3, <1>4, <2>1, <2>2, <2>3, <2>4 DEF Holds, RequestFits
    <2>6. r.since.resets = resets => UpToDate(r)
        BY <1>3, <1>4 DEF Holds, UpToDate, Gathering, Reading, HasHeard
    <2> QED
        BY <1>1, <1>4, <1>5, <2>5, <2>6, MovesOnFits DEF Holds
<1>6. CASE \E a : Answer(t, a)
    BY <1>1, <1>6, EndsFit
<1> QED
    BY <1>2, <1>5, <1>6 DEF Place, PlanOf

\* From the first write on, local variables do not change.
LEMMA SameReadings ==
    ASSUME NEW t \in Request, req[t] \in RequestRecord, Holds(req[t]), NEW r,
           r.op = req[t].op, r.of = req[t].of, r.ids = req[t].ids,
           r.k = req[t].k, r.loaded = req[t].loaded, r.lines = req[t].lines,
           r.roster = req[t].roster, r.plan = req[t].plan, r.since = req[t].since,
           \/ req[t].at = "insert" /\ r.at = "commit"
           \/ req[t].at = "commit" /\ r.at = "respond" /\ r.op = "create"
    PROVE  Holds(r) /\ r.since.imports \in Nat
<1>1. r.since.imports \in Nat
    BY DEF RequestRecord
<1>2. RequestFits(r)
    BY DEF Holds, RequestFits
<1>3. r.since.resets = resets => UpToDate(r)
    BY DEF Holds, UpToDate, Gathering, Reading, HasHeard
<1> QED
    BY <1>1, <1>2, <1>3 DEF Holds

LEMMA WriteFits ==
    ASSUME IInv, LInv, NEW t \in Request, Write(t)
    PROVE  LInv'
<1> DEFINE next == IF req[t].op = "create" THEN NextId(sessions) ELSE NextId(generations)
<1>1. UNCHANGED <<tables, importer, counters>> /\ At(t, "insert")
    BY DEF Write
<1>2. PICK r : r = [req[t] EXCEPT !.at = "commit", !.id = next]
    OBVIOUS
<1>3. /\ req[t] \in RequestRecord /\ Holds(req[t]) /\ req[t].at = "insert"
    BY <1>1, ActiveHolds DEF At, LInv
<1>4. /\ r.at = "commit" /\ r.op = req[t].op /\ r.of = req[t].of /\ r.ids = req[t].ids
      /\ r.k = req[t].k /\ r.loaded = req[t].loaded /\ r.lines = req[t].lines
      /\ r.roster = req[t].roster /\ r.plan = req[t].plan /\ r.since = req[t].since
    BY <1>2, <1>3 DEF RequestRecord
<1>5. Goto(t, r)
    BY <1>2 DEF Write
<1> QED
    BY <1>1, <1>3, <1>4, <1>5, SameReadings, MovesOnFits

LEMMA LockTimeoutFits ==
    ASSUME IInv, LInv, NEW t \in Request, LockTimeout(t)
    PROVE  LInv'
BY EndsFit DEF LockTimeout

LEMMA RespondFits ==
    ASSUME IInv, LInv, NEW t \in Request, Respond(t)
    PROVE  LInv'
BY EndsFit DEF Respond
-----------------------------------------------------------------------------
\* The commits.
LEMMA CommitSessionFits ==
    ASSUME IInv, LInv, NEW t \in Request, CommitSession(t)
    PROVE  LInv'
<1> DEFINE id == req[t].id
           row == [ids |-> req[t].ids,
                   since |-> [imports |-> req[t].since.imports,
                              resets |-> req[t].since.resets]]
<1>1. /\ At(t, "commit") /\ req[t].op = "create"
      /\ sessions' = WithRow(sessions, id, row)
      /\ UNCHANGED <<students, courses, registrations, rooms, exams, examRooms,
                     generations, seatRows>>
      /\ UNCHANGED <<importer, imports, resets, disturbed, overtaken>>
    BY DEF CommitSession, counters
<1>2. PICK r : r = [req[t] EXCEPT !.at = "respond"]
    OBVIOUS
<1>3. /\ req[t] \in RequestRecord /\ Holds(req[t]) /\ req[t].at = "commit"
      /\ RequestSound(req[t])
    BY <1>1, ActiveHolds, ActiveRequest DEF At, LInv
<1>4. /\ r.at = "respond" /\ r.op = req[t].op /\ r.of = req[t].of /\ r.ids = req[t].ids
      /\ r.k = req[t].k /\ r.loaded = req[t].loaded /\ r.lines = req[t].lines
      /\ r.roster = req[t].roster /\ r.plan = req[t].plan /\ r.since = req[t].since
    BY <1>2, <1>3 DEF RequestRecord
<1>5. req' = [req EXCEPT ![t] = r]
    BY <1>2 DEF CommitSession, Goto
<1>6. /\ DOMAIN sessions' = DOMAIN sessions \cup {id} /\ sessions'[id] = row
      /\ \A s \in DOMAIN sessions : s # id /\ sessions'[s] = sessions[s]
    <2>1. id = Len(sessions) + 1 /\ sessions \in Seq(SessionRecord)
        BY <1>1 DEF IInv, IdsReserved, At, TypeOK
    <2>2. id \notin DOMAIN sessions
        BY <2>1
    <2> HIDE DEF id, row
    <2> QED
        BY <1>1, <2>2 DEF WithRow
<1>7. TablesGrow /\ imports' \in Nat
    <2> HIDE DEF id, row
    <2>1. imports \in Nat
        BY DEF IInv, TypeOK
    <2> QED
        BY <1>1, <1>6, <2>1 DEF TablesGrow
<1>8. /\ row.ids # <<>> /\ row.since.imports <= imports /\ row.since.resets <= resets
      /\ ~disturbed => row.since.resets = resets
    BY <1>1, <1>3 DEF Holds, RequestFits
<1>9. row.since.resets = resets => \A i \in DOMAIN row.ids : row.ids[i] \in DOMAIN exams
    <2> SUFFICES ASSUME req[t].since.resets = resets, NEW i \in DOMAIN req[t].ids
                 PROVE  req[t].ids[i] \in DOMAIN exams
        OBVIOUS
    <2> DEFINE loaded == req[t].loaded
               ids == req[t].ids
    <2>1. /\ loaded \in Seq([id : Nat, course : Course, slot : Slot]) /\ ids \in Seq(Nat)
          /\ Len(loaded) = Len(ids)
        BY <1>1, <1>3 DEF RequestRecord, Holds, RequestFits
    <2>2. i \in DOMAIN loaded
        <3> HIDE DEF loaded
        <3> QED
            BY <2>1
    <2>3. loaded[i].id \in DOMAIN exams /\ loaded[i].id = ids[i]
        BY <1>3, <2>2 DEF Holds, UpToDate, RequestSound
    <2> QED
        BY <2>3
<1> HIDE DEF row, id
<1>10. RowsResolve'
    <2>1. \A s \in DOMAIN sessions' :
              s = id \/ (s \in DOMAIN sessions /\ sessions'[s] = sessions[s])
        BY <1>6
    <2>2. (overtaken' => disturbed') /\ (~overtaken' => FilesResolve')
        BY <1>1 DEF LInv, RowsResolve, FilesResolve
    <2>3. ASSUME NEW s \in DOMAIN sessions'
          PROVE  /\ sessions'[s].ids # <<>>
                 /\ sessions'[s].since.imports <= imports'
                 /\ sessions'[s].since.resets <= resets'
                 /\ ~disturbed' => sessions'[s].since.resets = resets'
                 /\ sessions'[s].since.resets = resets' =>
                       \A i \in DOMAIN sessions'[s].ids : sessions'[s].ids[i] \in DOMAIN exams'
        <3>1. CASE s = id
            BY <1>1, <1>6, <1>8, <1>9, <3>1
        <3>2. CASE s \in DOMAIN sessions /\ sessions'[s] = sessions[s]
            BY <1>1, <3>2 DEF LInv, RowsResolve
        <3> QED
            BY <2>1, <3>1, <3>2
    <2> QED
        BY <2>2, <2>3 DEF RowsResolve
<1>11. HistoryResolves'
    BY <1>1, <1>6 DEF LInv, HistoryResolves, Known
<1>12. Holds(r)'
    <2>1. Holds(r) /\ r.since.imports \in Nat
        BY <1>1, <1>3, <1>4, SameReadings
    <2> QED
        BY <1>7, <2>1, HoldsStays DEF IInv
<1>13. RequestsFit'
    BY <1>5, <1>7, <1>12, RequestsGoOn DEF LInv
<1>14. ImportsCurrent'
    BY <1>1, ImportsStay DEF LInv
<1> QED
    BY <1>10, <1>11, <1>13, <1>14 DEF LInv

LEMMA CommitGenerationFits ==
    ASSUME IInv, LInv, NEW t \in Request, CommitGeneration(t)
    PROVE  LInv'
<1> DEFINE id == req[t].id
           row == GenerationRow(req[t])
           new == {[generation |-> id, exam |-> a.exam, room |-> a.room,
                    seat |-> a.seat, student |-> a.student] : a \in req[t].plan}
<1>1. /\ At(t, "commit") /\ req[t].op \in {"exam", "session"}
      /\ generations' = WithRow(generations, id, row)
      /\ seatRows' = seatRows \cup new
      /\ Answer(t, "ok")
      /\ UNCHANGED <<students, courses, registrations, rooms, exams, examRooms, sessions>>
      /\ UNCHANGED <<importer, imports, resets, disturbed, overtaken>>
    BY DEF CommitGeneration, counters
<1>2. /\ req[t] \in RequestRecord /\ Holds(req[t]) /\ req[t].at = "commit"
      /\ RequestSound(req[t])
    BY <1>1, ActiveHolds, ActiveRequest DEF At, LInv
<1>3. TablesGrow /\ imports' \in Nat
    <2>1. imports \in Nat
        BY DEF IInv, TypeOK
    <2> QED
        BY <1>1, <2>1 DEF TablesGrow
<1>4. RowsResolve'
    BY <1>1 DEF LInv, RowsResolve, FilesResolve
<1>5. HistoryResolves'
    <2> SUFFICES ASSUME ~disturbed PROVE HistoryResolves'
        BY <1>1 DEF HistoryResolves
    <2>1. UpToDate(req[t]) /\ RequestFits(req[t])
        BY <1>2 DEF Holds, RequestFits
    <2>0. FilesResolve
        BY DEF LInv, RowsResolve
    <2> DEFINE old == req[t]
               loaded == old.loaded
    <2>2. /\ loaded \in Seq([id : Nat, course : Course, slot : Slot]) /\ old.ids \in Seq(Nat)
          /\ Len(loaded) = Len(old.ids)
        BY <1>1, <1>2, <2>1 DEF RequestRecord, RequestFits
    <2>3. row.of = old.of /\ row.kind = old.op
        BY DEF GenerationRow
    <2>4. old.of \in (IF old.op = "exam" THEN DOMAIN exams ELSE DOMAIN sessions)
        <3>1. CASE old.op = "exam"
            <4>1. old.ids = <<old.of>>
                BY <2>1, <3>1 DEF RequestFits
            <4>2. 1 \in DOMAIN loaded
                <5> HIDE DEF loaded, old
                <5> QED
                    BY <2>2, <4>1
            <4>3. loaded[1].id = old.of
                BY <1>2, <4>1, <4>2 DEF RequestSound
            <4> QED
                BY <2>1, <3>1, <4>2, <4>3 DEF UpToDate
        <3>2. CASE old.op = "session"
            BY <1>2, <2>1, <3>2 DEF UpToDate
        <3> QED
            BY <1>1, <3>1, <3>2
    <2>5. \A a \in old.plan : a.exam \in DOMAIN exams /\ Known(a.student)
        <3> SUFFICES ASSUME NEW a \in old.plan
                     PROVE  a.exam \in DOMAIN exams /\ Known(a.student)
            OBVIOUS
        <3>1. PICK x \in old.roster : a.student = x.student /\ a.exam = x.exam
            BY <1>1, <1>2, <2>1 DEF RequestFits
        <3>2. PICK i \in DOMAIN old.loaded : x.exam = old.loaded[i].id
            BY <1>2 DEF RequestSound
        <3>3. x.exam \in DOMAIN exams
            BY <2>1, <3>2 DEF UpToDate
        <3>4. [student |-> x.student, course |-> x.course] \in registrations
            BY <2>1 DEF UpToDate
        <3>5. Known(x.student)
            BY <2>0, <3>4 DEF Known, FilesResolve
        <3> QED
            BY <3>1, <3>3, <3>5
    <2>6. /\ \A g \in DOMAIN generations :
                generations[g].of \in
                    (IF generations[g].kind = "exam" THEN DOMAIN exams ELSE DOMAIN sessions)
          /\ \A x \in seatRows : x.exam \in DOMAIN exams /\ Known(x.student)
        BY DEF LInv, HistoryResolves
    <2> HIDE DEF row, id, old
    <2>7. \A g \in DOMAIN generations' :
              \/ generations'[g] = row
              \/ g \in DOMAIN generations /\ generations'[g] = generations[g]
        BY <1>1 DEF WithRow
    <2>8. \A g \in DOMAIN generations' :
              generations'[g].of \in
                  (IF generations'[g].kind = "exam" THEN DOMAIN exams ELSE DOMAIN sessions)
        BY <2>3, <2>4, <2>6, <2>7
    <2>9. \A x \in new : x.exam \in DOMAIN exams /\ Known(x.student)
        BY <2>5 DEF old
    <2> HIDE DEF new
    <2>10. \A x \in seatRows' : x.exam \in DOMAIN exams /\ Known(x.student)
        BY <1>1, <2>6, <2>9
    <2> QED
        BY <1>1, <2>8, <2>10 DEF HistoryResolves, Known
<1>6. req' = [req EXCEPT ![t] = Idle] /\ Idle.at = "idle"
    BY <1>1 DEF Answer, Idle
<1>7. RequestsFit'
    BY <1>3, <1>6, RequestsGoOn DEF LInv
<1>8. ImportsCurrent'
    BY <1>1, ImportsStay DEF LInv
<1> QED
    BY <1>4, <1>5, <1>7, <1>8 DEF LInv

LEMMA CommitResetFits ==
    ASSUME IInv, LInv, NEW t \in Request, CommitReset(t)
    PROVE  LInv'
<1>1. /\ registrations' = {} /\ examRooms' = <<>> /\ seatRows' = {}
      /\ exams' = <<>> /\ sessions' = <<>> /\ generations' = <<>>
      /\ req' = [req EXCEPT ![t] = Idle]
      /\ resets' = resets + 1 /\ imports' = imports
      /\ UNCHANGED importer /\ overtaken' = Overtakes
      /\ disturbed' = (Overtakes \/ \E u \in Request \ {t} : ~At(u, "idle"))
    BY DEF CommitReset, Answer
<1>2. DOMAIN examRooms' = {} /\ DOMAIN exams' = {} /\ DOMAIN sessions' = {} /\ DOMAIN generations' = {}
    BY <1>1
<1>3. RowsResolve' /\ HistoryResolves'
    BY <1>1, <1>2 DEF RowsResolve, FilesResolve, HistoryResolves
<1>4. RequestsFit'
    <2> SUFFICES ASSUME NEW u \in Request, ~At(u, "idle")'
                 PROVE  RequestFits(req[u])' /\ req'[u].since.resets # resets'
        BY DEF RequestsFit
    <2>1. u # t /\ req'[u] = req[u]
        BY <1>1 DEF IInv, TypeOK, At, Idle
    <2>2. ~At(u, "idle") /\ disturbed'
        BY <1>1, <2>1 DEF At
    <2>3. RequestFits(req[u]) /\ req[u] \in RequestRecord
        BY <2>2, ActiveHolds DEF Holds, LInv
    <2>4. /\ req[u].since.resets \in Nat /\ resets \in Nat
          /\ req[u].since.resets <= resets
        BY <2>3 DEF RequestRecord, RequestFits, IInv, TypeOK
    <2>5. req'[u].since.resets # resets' /\ req'[u].since.resets <= resets'
        BY <1>1, <2>1, <2>4
    <2>6. RequestFits(req[u])'
        BY <1>1, <2>1, <2>2, <2>3, <2>5 DEF RequestFits
    <2> QED
        BY <2>5, <2>6
<1>5. ImportsCurrent'
    BY <1>1 DEF ImportsCurrent, Overtakes
<1> QED
    BY <1>3, <1>4, <1>5 DEF LInv
-----------------------------------------------------------------------------
\* Arrivals, imports and restarts.
LEMMA BeginFits ==
    ASSUME IInv, LInv, NEW t \in Request, NEW op, NEW at, NEW of,
           NEW ids, Begin(t, op, at, of, ids),
           at \in {"session", "exams", "insert"},
           at # "session" => op # "session", at = "insert" => op = "reset",
           op = "create" => ids # <<>>, op = "exam" => ids = <<of>>
    PROVE  LInv'
<1>1. UNCHANGED <<tables, resets, disturbed, overtaken, imports>>
    BY DEF Begin
<1>2. TablesGrow /\ imports' \in Nat /\ RowsResolve' /\ HistoryResolves'
    BY <1>1, ReadersGrow DEF LInv
<1>3. PICK r : r = Fresh(op, at, of, ids)
    OBVIOUS
<1>4. /\ r.op = op /\ r.at = at /\ r.of = of /\ r.ids = ids /\ r.loaded = <<>>
      /\ r.lines = <<>> /\ r.roster = {}
      /\ r.since.registrations = registrations /\ r.since.imports = imports
      /\ r.since.resets = resets
    BY <1>3 DEF Fresh
<1>5. imports \in Nat /\ resets \in Nat
    BY DEF IInv, TypeOK
<1>6. RequestFits(r)
    BY <1>4, <1>5 DEF RequestFits
<1>7. UpToDate(r)
    <2>1. DOMAIN r.loaded = {} /\ DOMAIN r.lines = {}
        BY <1>4
    <2> QED
        BY <1>4, <2>1 DEF UpToDate
<1>8. Holds(r)'
    BY <1>2, <1>4, <1>5, <1>6, <1>7, HoldsStays DEF IInv, Holds
<1>9. req' = [req EXCEPT ![t] = r]
    BY <1>3 DEF Begin
<1>10. ImportsCurrent'
    BY ImportsStay DEF Begin, LInv, tables
<1> QED
    BY <1>2, <1>8, <1>9, <1>10, RequestsGoOn DEF LInv

LEMMA ArrivalFits ==
    ASSUME IInv, LInv, NEW t \in Request, Arrive(t)
    PROVE  LInv'
<1>1. CASE BeginCreate(t)
    <2>1. PICK ids \in ExamArgs : ids # <<>> /\ Begin(t, "create", "exams", 0, ids)
        BY <1>1 DEF BeginCreate
    <2> QED
        BY <2>1, BeginFits
<1>2. CASE BeginGenerate(t)
    <2>1. PICK ids \in ExamArgs : Len(ids) = 1 /\ Begin(t, "exam", "exams", ids[1], ids)
        BY <1>2 DEF BeginGenerate
    <2>2. ids \in Seq(Nat)
        BY ConstantsAreTyped DEF ConstantsAssumption
    <2>3. ids = <<ids[1]>>
        BY <2>1, <2>2
    <2>4. PICK e : e = ids[1]
        OBVIOUS
    <2> QED
        BY <2>1, <2>3, <2>4, BeginFits
<1>3. CASE BeginGenerateSession(t)
    <2>1. PICK s \in 1..MaxRequests : Begin(t, "session", "session", s, <<>>)
        BY <1>3 DEF BeginGenerateSession
    <2> QED
        BY <2>1, BeginFits
<1>4. CASE BeginReset(t)
    <2>1. Begin(t, "reset", "insert", 0, <<>>)
        BY <1>4 DEF BeginReset
    <2> QED
        BY <2>1, BeginFits
<1>5. CASE RejectExamIds(t)
    <2>1. UNCHANGED <<tables, resets, disturbed, overtaken, imports>> /\ UNCHANGED req
        BY <1>5 DEF RejectExamIds
    <2>2. ImportsCurrent'
        BY <1>5, ImportsStay DEF RejectExamIds, LInv, tables
    <2> QED
        BY <2>1, <2>2, ReadersGrow, RequestsStay DEF LInv
<1> QED
    BY <1>1, <1>2, <1>3, <1>4, <1>5 DEF Arrive

LEMMA BeginImportFits ==
    ASSUME IInv, LInv, BeginImport
    PROVE  LInv'
<1>1. /\ UNCHANGED <<tables, resets, disturbed, overtaken, imports>> /\ UNCHANGED req
      /\ \/ \E file \in RegistrationFiles :
               importer' = [kind |-> "registrations", rows |-> file,
                            seen |-> [students |-> students, courses |-> courses,
                                      registrations |-> registrations]]
         \/ \E file \in ScheduleFiles :
               importer' = [kind |-> "schedule", group |-> file,
                            seen |-> [courses |-> courses, rooms |-> rooms,
                                      exams |-> exams, lines |-> examRooms]]
         \/ \E file \in RoomFiles :
               importer' = [kind |-> "rooms", rooms |-> file, seen |-> [rooms |-> rooms]]
    BY DEF BeginImport, StartImport, counters
<1>2. ImportsCurrent'
    BY <1>1 DEF ImportsCurrent, tables
<1> QED
    BY <1>1, <1>2, ReadersGrow, RequestsStay DEF LInv

\* An import that adds to students, courses, registrations, rooms, exams or exam_rooms.
LEMMA ImportFits ==
    ASSUME IInv, LInv, NEW kind, EndImport(kind),
           students \subseteq students', courses \subseteq courses',
           DOMAIN rooms \subseteq DOMAIN rooms', registrations \subseteq registrations',
           \A e \in DOMAIN exams : e \in DOMAIN exams' /\ exams'[e] = exams[e],
           ~overtaken => FilesResolve'
    PROVE  LInv'
<1>0. /\ UNCHANGED <<sessions, generations, seatRows, req, resets, disturbed, overtaken>>
      /\ imports' = imports + 1 /\ importer' = NoImport
    BY DEF EndImport
<1>1. imports \in Nat /\ imports' \in Nat /\ imports <= imports'
    BY <1>0 DEF IInv, TypeOK
<1>2. TablesGrow
    BY <1>0, <1>1 DEF TablesGrow
<1>3. RowsResolve'
    <2>1. ASSUME NEW s \in DOMAIN sessions PROVE sessions[s].since.imports \in Nat
        <3>1. sessions \in Seq(SessionRecord) /\ s \in 1..Len(sessions)
            BY DEF IInv, TypeOK
        <3>2. sessions[s] \in SessionRecord
            BY <3>1, ElementOfSeq
        <3> QED
            BY <3>2 DEF SessionRecord
    <2>2. \A s \in DOMAIN sessions : sessions[s].since.imports <= imports'
        BY <1>1, <2>1 DEF LInv, RowsResolve
    <2>3. (overtaken' => disturbed') /\ (~overtaken' => FilesResolve')
        BY <1>0 DEF LInv, RowsResolve
    <2>4. \A s \in DOMAIN sessions' :
              /\ sessions'[s].ids # <<>>
              /\ sessions'[s].since.imports <= imports'
              /\ sessions'[s].since.resets <= resets'
              /\ ~disturbed' => sessions'[s].since.resets = resets'
              /\ sessions'[s].since.resets = resets' =>
                    \A i \in DOMAIN sessions'[s].ids : sessions'[s].ids[i] \in DOMAIN exams'
        BY <1>0, <2>2 DEF LInv, RowsResolve
    <2> QED
        BY <2>3, <2>4 DEF RowsResolve
<1>4. HistoryResolves'
    BY <1>0 DEF LInv, HistoryResolves, Known
<1>5. RequestsFit'
    BY <1>0, <1>1, <1>2, RequestsStay DEF LInv
<1>6. ImportsCurrent'
    BY <1>0 DEF ImportsCurrent, NoImport
<1> QED
    BY <1>3, <1>4, <1>5, <1>6 DEF LInv

LEMMA ImportRegistrationsFits ==
    ASSUME IInv, LInv, ImportRegistrations
    PROVE  LInv'
<1>0. importer.kind = "registrations" /\ EndImport("registrations")
      /\ UNCHANGED <<rooms, exams, examRooms>>
    BY DEF ImportRegistrations, EndImport
<1>1. PICK file : file = importer.rows
    OBVIOUS
<1>2. PICK found \in SUBSET (file \cap importer.seen.registrations),
           next \in SUBSET file, cached \in SUBSET importer.seen.courses :
          /\ StudentsOf(found \cup next) \subseteq importer.seen.students
          /\ students' = students \cup (StudentsOf(file) \ StudentsOf(found \cup next))
          /\ courses' = courses \cup (CoursesOf(file) \ cached)
          /\ registrations' = registrations \cup (file \ found)
    BY <1>1 DEF ImportRegistrations
<1>3. /\ students \subseteq students' /\ courses \subseteq courses'
      /\ registrations \subseteq registrations'
    BY <1>2
<1>4. ASSUME ~overtaken PROVE FilesResolve'
    <2>1. /\ importer.seen.students = students /\ importer.seen.courses = courses
          /\ importer.seen.registrations = registrations
        BY <1>0, <1>4 DEF LInv, ImportsCurrent
    <2>2. FilesResolve
        BY <1>4 DEF LInv, RowsResolve
    <2>3. \A x \in file : x.student \in StudentsOf(file) /\ x.course \in CoursesOf(file)
        BY DEF StudentsOf, CoursesOf
    <2>4. StudentsOf(file) \subseteq students' /\ CoursesOf(file) \subseteq courses'
        BY <1>2, <2>1
    <2>5. \A x \in registrations' : x.student \in students' /\ x.course \in courses'
        BY <1>2, <1>3, <2>2, <2>3, <2>4 DEF FilesResolve
    <2> QED
        BY <1>0, <1>3, <2>2, <2>5 DEF FilesResolve
<1> QED
    BY <1>0, <1>3, <1>4, ImportFits

\* A group of a schedule file adds an exam and rows of exam_rooms that name it, and
\* rooms on file.
LEMMA GroupFits ==
    ASSUME IInv, NEW file \in ScheduleFiles, StoreGroup(file)
    PROVE  /\ \A e \in DOMAIN exams : e \in DOMAIN exams' /\ exams'[e] = exams[e]
           /\ file.course \in courses
           /\ \A e \in DOMAIN exams' \ DOMAIN exams : exams'[e].course \in courses
           /\ \A i \in DOMAIN examRooms' :
                 \/ i \in DOMAIN examRooms /\ examRooms'[i] = examRooms[i]
                 \/ examRooms'[i].exam \in DOMAIN exams' /\ examRooms'[i].room \in DOMAIN rooms
<1> DEFINE found == ExamWith(exams, file.course, file.slot)
           e == IF found = {} THEN NextId(exams) ELSE CHOOSE x \in found : TRUE
           places == {n \in DOMAIN file.lines :
                        /\ file.lines[n].room \in DOMAIN rooms
                        /\ ~HasLine(examRooms, e, file.lines[n].room)}
           some == Chosen(file.lines, places)
           row == [course |-> file.course, slot |-> file.slot]
           tail == [i \in DOMAIN some |-> [exam |-> e, room |-> some[i].room,
                                           allocated |-> some[i].allocated]]
<1>1. /\ exams' = WithRow(exams, e, row) /\ file.course \in courses
      /\ examRooms' = examRooms \o tail
    BY DEF StoreGroup
<1>2. file.lines \in Seq([room : RoomId, allocated : Nat])
    BY ConstantsAreTyped DEF ConstantsAssumption
<1>3. exams \in Seq(ExamRecord) /\ examRooms \in Seq(LineRecord)
    BY DEF IInv, TypeOK
<1>4. e \notin DOMAIN exams \/ exams[e] = row
    <2>1. CASE found = {}
        <3>1. e = NextId(exams)
            BY <2>1
        <3>2. NextId(exams) \notin DOMAIN exams
            BY <1>3, NextIdIsNext
        <3> HIDE DEF e
        <3> QED
            BY <3>1, <3>2
    <2>2. CASE found # {}
        <3>1. e \in found
            <4> HIDE DEF found
            <4> QED
                BY <2>2
        <3> HIDE DEF e
        <3>2. e \in DOMAIN exams /\ exams[e].course = file.course /\ exams[e].slot = file.slot
            BY <3>1 DEF ExamWith
        <3>3. exams[e] \in ExamRecord
            BY <1>3, <3>2, ElementOfSeq
        <3> QED
            BY <3>2, <3>3 DEF ExamRecord
    <2> QED
        BY <2>1, <2>2
<1>5. /\ \A i \in DOMAIN some : some[i].room \in DOMAIN rooms
      /\ some \in Seq([room : RoomId, allocated : Nat])
    <2> DEFINE lines == file.lines
               S == [room : RoomId, allocated : Nat]
    <2>1. /\ lines \in Seq(S) /\ places \in SUBSET DOMAIN lines
          /\ \A n \in places : lines[n].room \in DOMAIN rooms
        BY <1>2
    <2>2. some = Chosen(lines, places)
        OBVIOUS
    <2> HIDE DEF lines, places, some, S
    <2>3. /\ \A n \in DOMAIN some : \E i \in places : some[n] = lines[i]
          /\ some \in Seq(S)
        BY <2>1, <2>2, ChosenIsSequence
    <2> QED
        BY <2>1, <2>3 DEF S
<1>6. row.course = file.course
    OBVIOUS
<1> HIDE DEF e, some, row
<1>7. /\ \A x \in DOMAIN exams : x \in DOMAIN exams' /\ exams'[x] = exams[x]
      /\ e \in DOMAIN exams'
      /\ \A x \in DOMAIN exams' \ DOMAIN exams : exams'[x] = row
    BY <1>1, <1>4 DEF WithRow
<1>8. DOMAIN tail = DOMAIN some /\ \A i \in DOMAIN tail :
          tail[i].exam = e /\ tail[i].room = some[i].room
    OBVIOUS
<1>9. Len(tail) \in Nat /\ DOMAIN tail = 1..Len(tail)
    <2>1. DOMAIN some = 1..Len(some) /\ Len(some) \in Nat
        BY <1>5
    <2>2. tail \in Seq([exam : {e}, room : {some[i].room : i \in DOMAIN some},
                        allocated : {some[i].allocated : i \in DOMAIN some}])
        BY <2>1
    <2> HIDE DEF tail
    <2> QED
        BY <2>2
<1> HIDE DEF tail
<1>10. \A i \in DOMAIN examRooms' :
           \/ i \in DOMAIN examRooms /\ examRooms'[i] = examRooms[i]
           \/ \E j \in DOMAIN tail : examRooms'[i] = tail[j]
    <2> SUFFICES ASSUME NEW i \in DOMAIN examRooms', i \notin DOMAIN examRooms
                 PROVE  \E j \in DOMAIN tail : examRooms'[i] = tail[j]
        BY <1>1, <1>3
    <2>1. /\ Len(examRooms) \in Nat /\ DOMAIN examRooms = 1..Len(examRooms)
          /\ i \in 1..(Len(examRooms) + Len(tail))
        BY <1>1, <1>3, <1>9
    <2>2. i - Len(examRooms) \in 1..Len(tail) /\ examRooms'[i] = tail[i - Len(examRooms)]
        BY <1>1, <1>3, <1>9, <2>1
    <2> QED
        BY <1>9, <2>2
<1>11. \A j \in DOMAIN tail : tail[j].exam \in DOMAIN exams' /\ tail[j].room \in DOMAIN rooms
    BY <1>5, <1>7, <1>8
<1> QED
    BY <1>1, <1>6, <1>7, <1>10, <1>11

LEMMA ImportScheduleFits ==
    ASSUME IInv, LInv, ImportSchedule
    PROVE  LInv'
<1>0. importer.kind = "schedule" /\ EndImport("schedule")
      /\ UNCHANGED <<students, courses, registrations, rooms>>
    BY DEF ImportSchedule, EndImport
<1>1. PICK file, seen : file = importer.group /\ seen = importer.seen
    OBVIOUS
<1>2. file \in ScheduleFiles
    BY <1>0, <1>1 DEF IInv, TypeOK, ImporterTyped
<1>3. \/ StoreGroup(file) \/ (exams' = exams /\ examRooms' = examRooms)
      \/ StoreStrayExam(file, seen) \/ StoreStrayLine(file, seen)
    BY <1>1 DEF ImportSchedule
<1>4. exams \in Seq(ExamRecord)
    BY DEF IInv, TypeOK
<1> DEFINE Kept == \A e \in DOMAIN exams : e \in DOMAIN exams' /\ exams'[e] = exams[e]
<1>5. ~overtaken => FilesResolve /\ seen.courses = courses /\ seen.exams = exams
    BY <1>0, <1>1 DEF LInv, RowsResolve, ImportsCurrent
<1>6. CASE StoreGroup(file)
    <2>1. /\ Kept
          /\ \A e \in DOMAIN exams' \ DOMAIN exams : exams'[e].course \in courses
          /\ \A i \in DOMAIN examRooms' :
                \/ i \in DOMAIN examRooms /\ examRooms'[i] = examRooms[i]
                \/ examRooms'[i].exam \in DOMAIN exams' /\ examRooms'[i].room \in DOMAIN rooms
        BY <1>2, <1>6, GroupFits
    <2>2. ~overtaken => FilesResolve'
        BY <1>0, <1>5, <2>1 DEF FilesResolve
    <2> QED
        BY <1>0, <2>1, <2>2, ImportFits
<1>7. CASE exams' = exams /\ examRooms' = examRooms
    <2>1. Kept /\ (~overtaken => FilesResolve')
        BY <1>0, <1>5, <1>7 DEF FilesResolve
    <2> QED
        BY <1>0, <2>1, ImportFits
<1>8. CASE StoreStrayExam(file, seen)
    <2>1. overtaken
        BY <1>5, <1>8 DEF StoreStrayExam
    <2>2. NextId(exams) \notin DOMAIN exams
        BY <1>4, NextIdIsNext
    <2>3. Kept
        BY <1>8, <2>2 DEF StoreStrayExam, WithRow
    <2> QED
        BY <1>0, <2>1, <2>3, ImportFits
<1>9. CASE StoreStrayLine(file, seen)
    <2>1. overtaken /\ exams' = exams
        BY <1>5, <1>9 DEF StoreStrayLine, ExamWith
    <2> QED
        BY <1>0, <2>1, ImportFits
<1> QED
    BY <1>3, <1>6, <1>7, <1>8, <1>9

LEMMA ImportRoomsFits ==
    ASSUME IInv, LInv, ImportRooms
    PROVE  LInv'
<1>0. /\ EndImport("rooms") /\ DOMAIN rooms \subseteq DOMAIN rooms'
      /\ UNCHANGED <<students, courses, registrations, exams, examRooms>>
    BY DEF ImportRooms
<1>1. ~overtaken => FilesResolve'
    BY <1>0 DEF LInv, RowsResolve, FilesResolve
<1> QED
    BY <1>0, <1>1, ImportFits

LEMMA EnvironmentFits ==
    ASSUME IInv, LInv, ImportFails \/ Restart \/ UNCHANGED vars
    PROVE  LInv'
<1>1. CASE ImportFails
    <2>1. /\ UNCHANGED <<tables, resets, disturbed, overtaken, imports>> /\ UNCHANGED req
          /\ importer' = NoImport
        BY <1>1 DEF ImportFails, counters
    <2>2. ImportsCurrent'
        BY <2>1 DEF ImportsCurrent, NoImport
    <2> QED
        BY <2>1, <2>2, ReadersGrow, RequestsStay DEF LInv
<1>2. CASE Restart
    <2>1. UNCHANGED <<tables, resets, disturbed, overtaken, imports>> /\ importer' = NoImport
        BY <1>2 DEF Restart, counters
    <2>2. \A t \in Request : req'[t].at = "idle"
        BY <1>2 DEF Restart, Idle
    <2>3. RequestsFit'
        BY <2>2 DEF RequestsFit, At
    <2>4. ImportsCurrent'
        BY <2>1 DEF ImportsCurrent, NoImport
    <2> QED
        BY <2>1, <2>3, <2>4, ReadersGrow DEF LInv
<1>3. CASE UNCHANGED vars
    <2>1. UNCHANGED <<tables, resets, disturbed, overtaken, imports>> /\ UNCHANGED req
        BY <1>3 DEF vars, counters
    <2>2. ImportsCurrent'
        BY <1>3, ImportsStay DEF vars, tables, counters, LInv
    <2> QED
        BY <2>1, <2>2, ReadersGrow, RequestsStay DEF LInv
<1> QED
    BY <1>1, <1>2, <1>3

LEMMA StepFits ==
    ASSUME IInv, LInv, NEW t \in Request, Step(t)
    PROVE  LInv'
<1>1. CASE LoadSession(t)
    BY <1>1, LoadSessionFits
<1>2. CASE LoadSessionExams(t)
    BY <1>2, LoadSessionExamsFits
<1>3. CASE LoadExam(t)
    BY <1>3, LoadExamFits
<1>4. CASE ExamsLoaded(t)
    BY <1>4, ExamsLoadedFits
<1>5. CASE ListRooms(t)
    BY <1>5, ListRoomsFits
<1>6. CASE LookUpRooms(t)
    BY <1>6, LookUpRoomsFits
<1>7. CASE RoomsListed(t)
    BY <1>7, RoomsListedFits
<1>8. CASE ListStudents(t)
    BY <1>8, ListStudentsFits
<1>9. CASE LookUpStudents(t)
    BY <1>9, LookUpStudentsFits
<1>10. CASE StudentsListed(t)
    BY <1>10, StudentsListedFits
<1>11. CASE Place(t)
    BY <1>11, PlaceFits
<1>12. CASE Write(t)
    BY <1>12, WriteFits
<1>13. CASE LockTimeout(t)
    BY <1>13, LockTimeoutFits
<1>14. CASE CommitSession(t)
    BY <1>14, CommitSessionFits
<1>15. CASE Respond(t)
    BY <1>15, RespondFits
<1>16. CASE CommitGeneration(t)
    BY <1>16, CommitGenerationFits
<1>17. CASE CommitReset(t)
    BY <1>17, CommitResetFits
<1> QED
    BY <1>1, <1>2, <1>3, <1>4, <1>5, <1>6, <1>7, <1>8, <1>9, <1>10, <1>11, <1>12,
       <1>13, <1>14, <1>15, <1>16, <1>17 DEF Step

LEMMA InitLInv == Init => LInv
<1> SUFFICES ASSUME Init PROVE LInv
    OBVIOUS
<1>1. PICK s \in StartStates :
          /\ exams = s.exams /\ examRooms = s.lines /\ sessions = s.sessions
          /\ registrations = s.registrations /\ rooms = s.rooms
          /\ students = StudentsOf(s.registrations) /\ courses = CoursesOf(s.registrations)
    BY DEF Init
<1>2. /\ \A i \in DOMAIN exams : exams[i].course \in courses
      /\ \A i \in DOMAIN examRooms :
            examRooms[i].exam \in DOMAIN exams /\ examRooms[i].room \in DOMAIN rooms
      /\ \A i \in DOMAIN sessions :
            /\ Accepted(s, sessions[i].ids)
            /\ sessions[i].since = [imports |-> 0, resets |-> 0]
    BY <1>1, ConstantsAreTyped DEF ConstantsAssumption
<1>3. /\ generations = <<>> /\ seatRows = {} /\ importer = NoImport
      /\ req = [t \in Request |-> Idle] /\ imports = 0 /\ resets = 0
      /\ overtaken = FALSE
    BY DEF Init
<1>4. RowsResolve
    <2>1. FilesResolve
        BY <1>1, <1>2 DEF FilesResolve, StudentsOf, CoursesOf
    <2>2. ASSUME NEW i \in DOMAIN sessions
          PROVE  /\ sessions[i].ids # <<>>
                 /\ \A j \in DOMAIN sessions[i].ids : sessions[i].ids[j] \in DOMAIN exams
                 /\ sessions[i].since.imports = 0 /\ sessions[i].since.resets = 0
        BY <1>1, <1>2 DEF Accepted
    <2> QED
        BY <1>2, <1>3, <2>1, <2>2 DEF RowsResolve
<1>5. HistoryResolves
    <2>1. DOMAIN generations = {}
        BY <1>3
    <2> QED
        BY <1>3, <2>1 DEF HistoryResolves
<1>6. RequestsFit
    <2>1. \A t \in Request : req[t].at = "idle"
        BY <1>3 DEF Idle
    <2> QED
        BY <2>1 DEF RequestsFit, At
<1>7. ImportsCurrent
    BY <1>3 DEF ImportsCurrent, NoImport
<1> QED
    BY <1>4, <1>5, <1>6, <1>7 DEF LInv

LEMMA NextFits == IInv /\ LInv /\ [Next]_vars => LInv'
<1> SUFFICES ASSUME IInv, LInv, [Next]_vars PROVE LInv'
    OBVIOUS
<1>1. ASSUME NEW t \in Request, Step(t) PROVE LInv'
    BY <1>1, StepFits
<1>2. ASSUME NEW t \in Request, Arrive(t) PROVE LInv'
    BY <1>2, ArrivalFits
<1>3. CASE ImportSchedule
    BY <1>3, ImportScheduleFits
<1>4. CASE ImportRegistrations
    BY <1>4, ImportRegistrationsFits
<1>5. CASE ImportRooms
    BY <1>5, ImportRoomsFits
<1>6. CASE BeginImport
    BY <1>6, BeginImportFits
<1>7. CASE ImportFails \/ Restart \/ UNCHANGED vars
    BY <1>7, EnvironmentFits
<1> QED
    BY <1>1, <1>2, <1>3, <1>4, <1>5, <1>6, <1>7 DEF Next

\* What a request or an import has read stays on file until a reset, and every stored
\* row names rows on file unless the last reset met another request or an import.
THEOREM KnowledgeHolds == Spec => []LInv
<1> QED
    BY InitLInv, NextFits, InvariantHolds, PTL DEF Spec

\* ReferencesResolve for any number of concurrent requests, imports, resets and
\* restarts: no request and no import that the writes of others overtake stores a row
\* that names what is not on file, as long as no reset falls into one.
THEOREM ReferencesHold == Spec => []ReferencesResolve
<1>1. IInv /\ LInv => ReferencesResolve
    <2> SUFFICES ASSUME IInv, LInv, ~disturbed PROVE ReferencesResolve
        BY DEF ReferencesResolve
    <2>1. \A x \in seatRows : x.generation \in DOMAIN generations
        BY DEF IInv, TablesSound
    <2> QED
        BY <2>1 DEF LInv, RowsResolve, FilesResolve, HistoryResolves, ReferencesResolve, Known
<1> QED
    BY <1>1, InvariantHolds, KnowledgeHolds, PTL

\* OnlyResetsBreakRequests for any number of concurrent requests, imports and resets:
\* what the handlers assert of the rows they read is false only after a reset fell into
\* the request, or into the one that created the session it generates, or when the last
\* reset fell into an import that then stored rows without the rows they refer to.
THEOREM ResetsAloneBreak == Spec => OnlyResetsBreakRequests
<1> DEFINE Excused(t) ==
        \/ overtaken
        \/ req[t].since.resets # resets
        \/ req[t].op = "session" /\ sessions[req[t].of].since.resets # resets
    Bad(t) == reply' \in {<<t, "AssertionError">>, <<t, "IndexError">>}
<1>1. ASSUME IInv, LInv, NEW t \in Request, LoadExam(t), Bad(t) PROVE Excused(t)
    <2> DEFINE e == req[t].ids[req[t].k]
    <2>1. At(t, "exams") /\ ~Finished(t)
        BY <1>1 DEF LoadExam
    <2>2. /\ req[t] \in RequestRecord /\ Holds(req[t]) /\ req[t].at = "exams"
        BY <1>1, <2>1, ActiveHolds DEF At, LInv
    <2>3. e \notin DOMAIN exams /\ req[t].op = "session"
        <3>1. reply' # NoReply
            BY <1>1 DEF NoReply
        <3>2. /\ e \notin DOMAIN exams
              /\ Answer(t, IF req[t].op = "session" THEN "AssertionError"
                           ELSE "ExamNotFoundError")
            BY <1>1, <3>1 DEF LoadExam, Goto
        <3>3. reply' = <<t, IF req[t].op = "session" THEN "AssertionError"
                            ELSE "ExamNotFoundError">>
            BY <3>2 DEF Answer
        <3> HIDE DEF e
        <3>4. CASE req[t].op # "session"
            BY <1>1, <3>3, <3>4
        <3> QED
            BY <3>2, <3>4
    <2>4. req[t].k \in DOMAIN req[t].ids
        BY <2>1, <2>2 DEF RequestRecord, Finished
    <2>5. SUFFICES ASSUME req[t].since.resets = resets,
                          sessions[req[t].of].since.resets = resets
                   PROVE  FALSE
        BY <2>3
    <2>6. req[t].of \in DOMAIN sessions /\ req[t].ids = sessions[req[t].of].ids
        BY <2>2, <2>3, <2>5 DEF Holds, UpToDate
    <2>7. e \in DOMAIN exams
        BY <1>1, <2>4, <2>5, <2>6 DEF LInv, RowsResolve
    <2> QED
        BY <2>3, <2>7
<1>2. ASSUME IInv, LInv, NEW t \in Request, LookUpRooms(t), Bad(t) PROVE Excused(t)
    <2>1. Holds(req[t])
        BY <1>2, ActiveHolds DEF LookUpRooms, At, LInv
    <2>2. \E i \in DOMAIN req[t].lines : req[t].lines[i].room \notin DOMAIN rooms
        BY <1>2 DEF LookUpRooms, Goto, Answer, NoReply
    <2> QED
        BY <2>1, <2>2 DEF Holds, UpToDate
<1>3. ASSUME IInv, LInv, NEW t \in Request, LookUpStudents(t), Bad(t) PROVE Excused(t)
    <2>1. Holds(req[t])
        BY <1>3, ActiveHolds DEF LookUpStudents, At, LInv
    <2>2. PICK x \in req[t].roster : ~Known(x.student)
        BY <1>3 DEF LookUpStudents, Goto, Answer, NoReply
    <2>3. overtaken \/ [student |-> x.student, course |-> x.course] \notin registrations
        BY <1>3, <2>2 DEF Known, LInv, RowsResolve, FilesResolve
    <2> QED
        BY <2>1, <2>3 DEF Holds, UpToDate
<1>4. ASSUME IInv, LInv, NEW t \in Request, Place(t), Bad(t) PROVE Excused(t)
    <2>1. Holds(req[t]) /\ req[t].at = "rooms" /\ req[t].op \in {"exam", "session"}
        BY <1>4, ActiveHolds DEF Place, At, LInv
    <2>2. req[t].ids = <<>>
        BY <1>4 DEF Place, Goto, Answer, NoReply
    <2>3. req[t].op = "session"
        BY <2>1, <2>2 DEF Holds, RequestFits
    <2>4. SUFFICES ASSUME req[t].since.resets = resets PROVE FALSE
        OBVIOUS
    <2>5. req[t].of \in DOMAIN sessions /\ req[t].ids = sessions[req[t].of].ids
        BY <2>1, <2>3, <2>4 DEF Holds, UpToDate
    <2> QED
        BY <1>4, <2>2, <2>5 DEF LInv, RowsResolve
<1>5. ASSUME IInv, LInv, NEW t \in Request, Respond(t), Bad(t) PROVE Excused(t)
    <2>1. /\ Holds(req[t]) /\ req[t].at = "respond" /\ req[t] \in RequestRecord
          /\ RequestSound(req[t])
        BY <1>5, ActiveHolds, ActiveRequest DEF Respond, At, LInv
    <2>2. SUFFICES ASSUME req[t].since.resets = resets, ~overtaken PROVE FALSE
        OBVIOUS
    <2>3. /\ \A j \in DOMAIN examRooms : examRooms[j].room \in DOMAIN rooms
          /\ \A e \in DOMAIN exams : exams[e].course \in courses
        BY <1>5, <2>2 DEF LInv, RowsResolve, FilesResolve
    <2>4. PICK i \in DOMAIN req[t].ids : req[t].ids[i] \notin DOMAIN exams
        BY <1>5, <2>3 DEF Respond, Answer
    <2> DEFINE loaded == req[t].loaded
               ids == req[t].ids
    <2>5. /\ loaded \in Seq([id : Nat, course : Course, slot : Slot]) /\ ids \in Seq(Nat)
          /\ Len(loaded) = Len(ids)
        BY <2>1 DEF RequestRecord, Holds, RequestFits
    <2>6. i \in DOMAIN loaded
        <3>1. i \in DOMAIN ids
            BY <2>4
        <3> HIDE DEF loaded, ids
        <3> QED
            BY <2>5, <3>1
    <2>7. loaded[i].id \in DOMAIN exams /\ loaded[i].id = ids[i]
        BY <2>1, <2>2, <2>6 DEF Holds, UpToDate, RequestSound
    <2> QED
        BY <2>4, <2>7
<1>6. ASSUME NEW t \in Request, Step(t),
             ~LoadExam(t), ~LookUpRooms(t), ~LookUpStudents(t), ~Place(t), ~Respond(t)
      PROVE  \/ reply' = NoReply
             \/ \E a : reply' = <<t, a>> /\ a \notin {"AssertionError", "IndexError"}
    BY <1>6 DEF Step, LoadSession, LoadSessionExams, ExamsLoaded, ListRooms, RoomsListed,
                ListStudents, StudentsListed, Write, LockTimeout, CommitSession,
                CommitGeneration, CommitReset, Goto, Answer, NoReply
<1>7. ASSUME NEW t \in Request, Arrive(t)
      PROVE  reply' = NoReply \/ reply' = <<t, "ValueError">>
    BY <1>7 DEF Arrive, BeginCreate, RejectExamIds, BeginGenerate, BeginGenerateSession,
                BeginReset, Begin, NoReply
<1>8. (\/ BeginImport \/ ImportRegistrations \/ ImportSchedule \/ ImportRooms
       \/ ImportFails \/ Restart) => reply' = NoReply
    BY DEF BeginImport, StartImport, ImportRegistrations, ImportSchedule, ImportRooms,
           EndImport, ImportFails, Restart, NoReply
<1>9. ASSUME NEW t \in Request, Step(t)
      PROVE  reply' = NoReply \/ \E a : reply' = <<t, a>>
    BY <1>9 DEF Step, LoadSession, LoadSessionExams, LoadExam, ExamsLoaded, ListRooms,
                LookUpRooms, RoomsListed, ListStudents, LookUpStudents, StudentsListed,
                Place, Write, LockTimeout, CommitSession, Respond, CommitGeneration,
                CommitReset, Goto, Answer, NoReply
<1>10. IInv /\ LInv /\ Next => \A t \in Request : Bad(t) => Excused(t)
    <2> SUFFICES ASSUME IInv, LInv, Next, NEW t \in Request, Bad(t) PROVE Excused(t)
        OBVIOUS
    <2>1. reply' # NoReply
        BY DEF NoReply
    <2>2. \A u : \A a : reply' = <<u, a>> => u = t /\ a \in {"AssertionError", "IndexError"}
        OBVIOUS
    <2> HIDE DEF Bad
    <2>3. PICK u \in Request : Step(u) \/ Arrive(u)
        BY <1>8, <2>1 DEF Next
    <2>4. Step(u)
        BY <1>7, <2>1, <2>2, <2>3
    <2>5. u = t
        BY <1>9, <2>1, <2>2, <2>4
    <2>6. LoadExam(t) \/ LookUpRooms(t) \/ LookUpStudents(t) \/ Place(t) \/ Respond(t)
        BY <1>6, <2>1, <2>2, <2>4, <2>5
    <2> HIDE DEF Excused
    <2> QED
        BY <1>1, <1>2, <1>3, <1>4, <1>5, <2>6
<1> DEFINE Excusable ==
        \A t \in Request :
            reply' \in {<<t, "AssertionError">>, <<t, "IndexError">>} =>
                \/ overtaken
                \/ req[t].since.resets # resets
                \/ /\ req[t].op = "session"
                   /\ sessions[req[t].of].since.resets # resets
<1>11. IInv /\ LInv /\ [Next]_vars => [Excusable]_vars
    BY <1>10
<1> QED
    BY <1>11, InvariantHolds, KnowledgeHolds, PTL DEF OnlyResetsBreakRequests, Spec
-----------------------------------------------------------------------------
\* The students of a table who are registered for one of some courses.
StudentsIn(table, subjects) == {x.student : x \in {y \in table : y.course \in subjects}}

LEMMA GenerationFresh ==
    ASSUME IInv, LInv, NEW t \in Request, CommitGeneration(t), req[t].since.resets = resets
    PROVE  LET subjects == {exams[req[t].ids[i]].course : i \in DOMAIN req[t].ids}
               g == generations'[req[t].id]
               seated == {x.student : x \in seatRows' \ seatRows}
               early == StudentsIn(req[t].since.registrations, subjects)
               late == StudentsIn(registrations, subjects)
           IN  /\ g.registered >= Cardinality(early)
               /\ g.registered <= Cardinality(late)
               /\ seated \subseteq late
               /\ g.unassigned = 0 => early \subseteq seated
<1> DEFINE r == req[t]
           ids == r.ids
           loaded == r.loaded
           roster == r.roster
           plan == r.plan
           subjects == {exams[ids[i]].course : i \in DOMAIN ids}
           early == StudentsIn(r.since.registrations, subjects)
           late == StudentsIn(registrations, subjects)
           R == {x.student : x \in roster}
           seated == {x.student : x \in seatRows' \ seatRows}
           placed == {a.student : a \in plan}
           g == generations'[r.id]
           new == {[generation |-> r.id, exam |-> a.exam, room |-> a.room,
                    seat |-> a.seat, student |-> a.student] : a \in plan}
<1>1. /\ r.at = "commit" /\ r.op \in {"exam", "session"} /\ r \in RequestRecord
      /\ RequestSound(r) /\ RequestFits(r) /\ UpToDate(r)
    BY ActiveHolds, ActiveRequest DEF CommitGeneration, At, LInv, Holds
<1>2. /\ generations' = WithRow(generations, r.id, GenerationRow(r))
      /\ seatRows' = seatRows \cup new
      /\ r.id = Len(generations) + 1 /\ generations \in Seq(GenerationRecord)
    BY <1>1 DEF CommitGeneration, IInv, TypeOK, IdsReserved, At
<1>3. /\ loaded \in Seq([id : Nat, course : Course, slot : Slot]) /\ ids \in Seq(Nat)
      /\ Len(loaded) = Len(ids)
      /\ \A i \in DOMAIN loaded : /\ loaded[i].id = ids[i] /\ i < r.k
                                  /\ exams[ids[i]].course = loaded[i].course
      /\ \A x \in roster : \E i \in DOMAIN loaded : x.course = loaded[i].course
      /\ \A x \in roster : [student |-> x.student, course |-> x.course] \in registrations
      /\ \A x, y \in roster : x.student = y.student => x = y
      /\ \A a \in plan : \E x \in roster : a.student = x.student
      /\ IsFiniteSet(roster) /\ IsFiniteSet(plan) /\ Cardinality(plan) <= Cardinality(roster)
      /\ \A a, b \in plan : a # b => a.student # b.student
    <2>1. loaded \in Seq([id : Nat, course : Course, slot : Slot]) /\ ids \in Seq(Nat)
        BY <1>1 DEF RequestRecord
    <2>2. Len(loaded) = Len(ids) /\ \A i \in DOMAIN loaded : i < r.k
        BY <1>1 DEF RequestFits
    <2>3. /\ \A i \in DOMAIN loaded : loaded[i].id = ids[i]
          /\ \A x \in roster : \E i \in DOMAIN loaded : x.course = loaded[i].course
        BY <1>1 DEF RequestSound
    <2>4. \A i \in DOMAIN loaded : exams[loaded[i].id].course = loaded[i].course
        BY <1>1 DEF UpToDate
    <2>5. \A x \in roster : [student |-> x.student, course |-> x.course] \in registrations
        BY <1>1 DEF UpToDate
    <2>6. /\ \A x, y \in roster : x.student = y.student => x = y
          /\ \A a \in plan : \E x \in roster : a.student = x.student
        BY <1>1 DEF RequestFits
    <2>7. PlanSound(roster, plan, r.layout) /\ IsFiniteSet(roster)
        BY <1>1 DEF RequestSound
    <2>8. /\ IsFiniteSet(plan) /\ Cardinality(plan) <= Cardinality(roster)
          /\ \A a, b \in plan : a # b => a.student # b.student
        <3> HIDE DEF roster, plan
        <3> QED
            BY <2>7 DEF PlanSound
    <2> HIDE DEF r, ids, loaded, roster, plan
    <2> QED
        BY <2>1, <2>2, <2>3, <2>4, <2>5, <2>6, <2>7, <2>8
<1>4. \A i \in DOMAIN loaded : \A y \in r.since.registrations : y.course = loaded[i].course =>
          \E x \in roster : x.student = y.student
    <2>1. \A i \in DOMAIN loaded : \A y \in r.since.registrations :
              y.course = loaded[i].course =>
              [student |-> y.student, exam |-> loaded[i].id, course |-> y.course] \in roster
        BY <1>1, <1>3 DEF UpToDate, HasHeard, Gathering
    <2> QED
        BY <2>1
<1>5. g = GenerationRow(r)
    BY <1>2 DEF WithRow
<1>6. seatRows' \ seatRows = new
    <2>1. r.id \notin DOMAIN generations
        <3> DEFINE id == r.id
        <3>1. id = Len(generations) + 1
            BY <1>2
        <3> HIDE DEF id
        <3>2. id \notin DOMAIN generations
            BY <1>2, <3>1
        <3> QED
            BY <3>2 DEF id
    <2>2. \A x \in new : x.generation = r.id
        OBVIOUS
    <2>3. \A x \in seatRows : x.generation \in DOMAIN generations
        BY DEF IInv, TablesSound
    <2> HIDE DEF new
    <2> QED
        BY <1>2, <2>1, <2>2, <2>3
<1>7. seated = placed
    <2>1. /\ \A a \in plan : \E x \in new : x.student = a.student
          /\ \A x \in new : \E a \in plan : x.student = a.student
        <3> DEFINE id == r.id
        <3>1. new = {RowFor(id, a) : a \in plan}
            BY DEF RowFor
        <3>2. \A a : RowFor(id, a).student = a.student
            BY DEF RowFor
        <3> HIDE DEF new, plan, id
        <3>3. \A a \in plan : RowFor(id, a) \in new
            BY <3>1
        <3> QED
            BY <3>1, <3>2, <3>3
    <2> HIDE DEF new, plan
    <2> QED
        BY <1>6, <2>1
<1>8. IsFiniteSet(registrations)
    BY DEF IInv, TablesSound
<1> HIDE DEF r, ids, loaded, roster, plan
<1>9. DOMAIN ids = DOMAIN loaded
    BY <1>3
<1>10. \A i \in DOMAIN loaded : loaded[i].course \in subjects
    BY <1>3, <1>9
<1>11. \A c \in subjects : \E i \in DOMAIN loaded : c = loaded[i].course
    <2>1. \A i \in DOMAIN loaded : exams[ids[i]].course = loaded[i].course
        BY <1>3
    <2>2. \A c \in subjects : \E i \in DOMAIN loaded : c = exams[ids[i]].course
        BY <1>9
    <2> HIDE DEF subjects
    <2> QED
        BY <2>1, <2>2
<1>12. /\ g.registered = Cardinality(roster)
       /\ g.unassigned = Cardinality(roster) - Cardinality(plan)
    BY <1>5 DEF GenerationRow, roster, plan
<1> HIDE DEF g, seated, subjects, new
<1>13. early \subseteq R
    BY <1>4, <1>11 DEF StudentsIn
<1>14. R \subseteq late
    <2> SUFFICES ASSUME NEW x \in roster PROVE x.student \in late
        OBVIOUS
    <2> DEFINE y == [student |-> x.student, course |-> x.course]
    <2>1. y \in registrations /\ y.student = x.student /\ y.course \in subjects
        BY <1>3, <1>10
    <2> HIDE DEF y
    <2> QED
        BY <2>1 DEF StudentsIn
<1>15. placed \subseteq R
    BY <1>3
<1>16. IsFiniteSet(R) /\ Cardinality(R) = Cardinality(roster) /\ Cardinality(R) \in Nat
    <2> DEFINE f == [x \in roster |-> x.student]
    <2>1. \A x, y \in roster : f[x] = f[y] => x = y
        BY <1>3
    <2>2. R = {f[x] : x \in roster} /\ DOMAIN f = roster
        OBVIOUS
    <2> HIDE DEF f, R
    <2> QED
        BY <1>3, <2>1, <2>2, InjectiveImage
<1>17. IsFiniteSet(placed) /\ Cardinality(placed) = Cardinality(plan)
       /\ Cardinality(placed) \in Nat
    <2> DEFINE f == [a \in plan |-> a.student]
    <2>1. \A x, y \in plan : f[x] = f[y] => x = y
        BY <1>3
    <2>2. placed = {f[a] : a \in plan} /\ DOMAIN f = plan
        OBVIOUS
    <2>3. IsFiniteSet(plan)
        BY <1>3
    <2> HIDE DEF f, placed
    <2> QED
        BY <2>1, <2>2, <2>3, InjectiveImage
<1>18. IsFiniteSet(late)
    <2> DEFINE some == {y \in registrations : y.course \in subjects}
               f == [y \in some |-> y.student]
    <2>1. IsFiniteSet(some)
        BY <1>8, FS_Subset
    <2>2. late = {f[y] : y \in some} /\ DOMAIN f = some
        BY DEF StudentsIn
    <2> HIDE DEF f, some, late
    <2> QED
        BY <2>1, <2>2, FiniteImage
<1> HIDE DEF early, late, R, placed
<1>19. Cardinality(early) <= Cardinality(R) /\ Cardinality(early) \in Nat
    BY <1>13, <1>16, FS_Subset, FS_CardinalityType
<1>20. Cardinality(R) <= Cardinality(late) /\ Cardinality(late) \in Nat
    BY <1>14, <1>18, FS_Subset, FS_CardinalityType
<1>21. g.unassigned = 0 => placed = R
    <2> SUFFICES ASSUME g.unassigned = 0, placed # R PROVE FALSE
        OBVIOUS
    <2>1. Cardinality(placed) = Cardinality(R)
        BY <1>12, <1>16, <1>17
    <2>2. PICK b \in R : b \notin placed
        BY <1>15
    <2>3. Cardinality(placed) < Cardinality(R)
        BY <1>15, <1>16, <2>2, SmallerSet
    <2> QED
        BY <1>16, <2>1, <2>3
<1>22. /\ g.registered >= Cardinality(early) /\ g.registered <= Cardinality(late)
    BY <1>12, <1>16, <1>19, <1>20
<1> QED
    BY <1>7, <1>13, <1>14, <1>15, <1>21, <1>22
       DEF early, late, g, seated, subjects, r, ids

\* RostersFresh for any number of concurrent requests and imports: however the loop that
\* collects the roster interleaves with imports, the generation counts everyone who was
\* registered when it was requested and nobody who is not when it is stored.
THEOREM RostersStayFresh == Spec => RostersFresh
<1> DEFINE AllFresh ==
        \A t \in Request :
            /\ At(t, "commit") /\ req[t].op \in {"exam", "session"} /\ reply' = <<t, "ok">>
            /\ req[t].since.resets = resets
            => LET subjects == {exams[req[t].ids[i]].course : i \in DOMAIN req[t].ids}
                   of(table) == {x.student : x \in {y \in table : y.course \in subjects}}
                   g == generations'[req[t].id]
                   seated == {x.student : x \in seatRows' \ seatRows}
               IN  /\ g.registered >= Cardinality(of(req[t].since.registrations))
                   /\ g.registered <= Cardinality(of(registrations))
                   /\ seated \subseteq of(registrations)
                   /\ g.unassigned = 0 => of(req[t].since.registrations) \subseteq seated
<1>1. ASSUME NEW t \in Request, NEW u \in Request, Step(u),
             At(t, "commit"), req[t].op \in {"exam", "session"}, reply' = <<t, "ok">>
      PROVE  CommitGeneration(t)
    <2>1. u = t
        BY <1>1 DEF Step, LoadSession, LoadSessionExams, LoadExam, ExamsLoaded, ListRooms,
                LookUpRooms, RoomsListed, ListStudents, LookUpStudents, StudentsListed,
                Place, Write, LockTimeout, CommitSession, Respond, CommitGeneration,
                CommitReset, Goto, Answer, NoReply
    <2> QED
        BY <1>1, <2>1 DEF Step, LoadSession, LoadSessionExams, LoadExam, ExamsLoaded,
                ListRooms, LookUpRooms, RoomsListed, ListStudents, LookUpStudents,
                StudentsListed, Place, Write, LockTimeout, CommitSession, Respond,
                CommitReset, At
<1>2. ASSUME NEW u \in Request, Arrive(u), NEW t
      PROVE  reply' # <<t, "ok">>
    BY <1>2 DEF Arrive, BeginCreate, RejectExamIds, BeginGenerate, BeginGenerateSession,
                BeginReset, Begin, NoReply
<1>3. ASSUME BeginImport \/ ImportRegistrations \/ ImportSchedule \/ ImportRooms
               \/ ImportFails \/ Restart,
             NEW t
      PROVE  reply' # <<t, "ok">>
    <2>1. reply' = NoReply
        BY <1>3 DEF BeginImport, StartImport, ImportRegistrations, ImportSchedule, ImportRooms,
                EndImport, ImportFails, Restart
    <2> QED
        BY <2>1 DEF NoReply
<1>4. ASSUME IInv, LInv, Next, NEW t \in Request,
             At(t, "commit"), req[t].op \in {"exam", "session"}, reply' = <<t, "ok">>,
             req[t].since.resets = resets
      PROVE  CommitGeneration(t)
    BY <1>1, <1>2, <1>3, <1>4 DEF Next
<1>5. IInv /\ LInv /\ Next => AllFresh
    BY <1>4, GenerationFresh DEF StudentsIn
<1>6. IInv /\ LInv /\ [Next]_vars => [AllFresh]_vars
    BY <1>5
<1> QED
    BY <1>6, InvariantHolds, KnowledgeHolds, PTL DEF RostersFresh, Spec
-----------------------------------------------------------------------------
\* What several exams allocate to a room is a number of seats.
LEMMA AllocatedIsNatural ==
    ASSUME NEW lines \in Seq(LineRecord), NEW room
    PROVE  AllocatedTo(lines, room) \in Nat
<1> DEFINE n == Len(lines)
           S == {j \in DOMAIN lines : lines[j].room = room}
           f == [i \in S |-> lines[i].allocated]
<1>1. n \in Nat /\ DOMAIN lines = 1..n /\ \A i \in 1..n : lines[i] \in LineRecord
    BY ElementOfSeq
<1>2. S \in SUBSET (1..n) /\ IsFiniteSet(1..n)
    BY <1>1, FS_Interval
<1>3. IsFiniteSet(S)
    BY <1>2, FS_Subset
<1>4. f \in [S -> Nat]
    BY <1>1 DEF LineRecord
<1>5. AllocatedTo(lines, room) = SumFunction(f)
    BY DEF AllocatedTo
<1> HIDE DEF f, S
<1> QED
    BY <1>3, <1>4, <1>5, SumIsNatural

\* Each participant's place in the order is below their number.
LEMMA AheadBelow ==
    ASSUME NEW roster \in SUBSET Participant, IsFiniteSet(roster), NEW x \in roster
    PROVE  Ahead(roster)[x] \in 0..(Cardinality(roster) - 1)
<1> DEFINE before == {w \in roster : Earlier(w, x)}
<1>1. x.student \in Nat /\ x.course \in Nat
    BY ConstantsAreTyped DEF Participant, ConstantsAssumption
<1>2. x \notin before
    BY <1>1 DEF Earlier
<1>3. before \in SUBSET roster
    OBVIOUS
<1>4. Ahead(roster)[x] = Cardinality(before)
    BY DEF Ahead
<1> HIDE DEF before
<1>5. /\ Cardinality(before) < Cardinality(roster)
      /\ Cardinality(before) \in Nat /\ Cardinality(roster) \in Nat
    BY <1>2, <1>3, SmallerSet
<1> QED
    BY <1>4, <1>5

\* A session's plan that leaves someone out fills every room its exams use.
Honoured(r) ==
    Cardinality(r.plan) < Cardinality(r.roster) =>
        \A i \in DOMAIN r.lines :
            LET room == r.lines[i].room
                taken == {a.seat : a \in {b \in r.plan : b.room = room}}
            IN  \/ Cardinality(taken) = AllocatedTo(r.lines, room)
                \/ taken = (1..r.layout[room].capacity) \ r.layout[room].blocked

LEMMA PlanHonours ==
    ASSUME NEW r \in RequestRecord, RequestSound(r), r.at = "rooms",
           r.op = "session", NoDuplicateStudent(r.roster), RoomsDistinct(AllocationsOf(r)),
           NEW layout \in RoomTables,
           \A i \in DOMAIN AllocationsOf(r) : AllocationsOf(r)[i].room \in DOMAIN layout,
           Cardinality(PlanOf(r, layout)) < Cardinality(r.roster), NEW i \in DOMAIN r.lines
    PROVE  LET room == r.lines[i].room
               taken == {a.seat : a \in {b \in PlanOf(r, layout) : b.room = room}}
           IN  \/ Cardinality(taken) = AllocatedTo(r.lines, room)
               \/ taken = (1..layout[room].capacity) \ layout[room].blocked
<1> DEFINE D == r.roster
           lines == r.lines
           room == lines[i].room
           allocations == AllocationsOf(r)
           ahead == Ahead(D)
           plan == PlanOf(r, layout)
           taken == {a.seat : a \in {b \in plan : b.room = room}}
<1>1. IsFiniteSet(D) /\ D \in SUBSET Participant /\ lines \in Seq(LineRecord)
    BY DEF RequestRecord, RequestSound
<1>2. /\ \A x, y \in D : x.student = y.student => x = y
      /\ IsFiniteSet(plan)
    BY PlanFromRoster
<1>3. \A x, y \in D : ahead[x] = ahead[y] => x = y
    BY <1>1, <1>2, AheadDiffers
<1>4. DOMAIN ahead = D
    BY DEF Ahead
<1>5. Placeable(DOMAIN layout, allocations, layout)
    BY AllocationsPlaceable
<1>6. \A x, y \in D : x # y => x.student # y.student
    BY <1>2
<1>7. plan = SeatingOf(ahead, Candidates(allocations, layout))
    BY DEF PlanOf
<1>8. \A x \in D : ahead[x] \in 0..(Cardinality(D) - 1)
    BY <1>1, AheadBelow
<1>9. DOMAIN lines \subseteq Nat
    BY <1>1
<1>10. PICK j \in FirstPlaces(lines) : lines[j].room = room
    <2> DEFINE T == {k \in DOMAIN lines : lines[k].room = room}
    <2>1. T \in SUBSET Nat /\ i \in T
        BY <1>9
    <2>2. PICK j \in T : \A k \in T : j <= k
        BY <2>1, LeastNatural
    <2>3. \A k \in DOMAIN lines : k < j => lines[k].room # room
        BY <1>9, <2>1, <2>2
    <2> QED
        BY <2>2, <2>3 DEF FirstPlaces
<1>11. /\ j \in DOMAIN allocations /\ allocations[j].room = room
       /\ allocations[j].allocated = AllocatedTo(lines, room)
    BY <1>10 DEF AllocationsOf, MergedAllocations
<1>12. AllocatedTo(lines, room) \in Nat
    BY <1>1, AllocatedIsNatural
<1>13. RoomsDistinct(allocations) /\ Cardinality(plan) < Cardinality(D)
    OBVIOUS
<1> HIDE DEF D, lines, room, allocations, ahead, plan
<1>14. \A z \in plan : \E p \in Candidates(allocations, layout) :
           z.room = p.room /\ z.seat = p.seat
    BY <1>7, PlanOnCandidates
<1>15. \A p \in Candidates(allocations, layout) : \E z \in plan :
           z.room = p.room /\ z.seat = p.seat
    BY <1>1, <1>2, <1>3, <1>4, <1>5, <1>6, <1>7, <1>8, <1>13, ShortPlanUsesAll
<1>16. \/ Cardinality(taken) = allocations[j].allocated
       \/ taken = UsableSeats(layout[room])
    <2>1. GivesAway(plan, Candidates(allocations, layout))
        BY <1>14, <1>15 DEF GivesAway
    <2>2. allocations[j].allocated \in Nat
        BY <1>11, <1>12
    <2>3. j \in DOMAIN allocations /\ allocations[j].room = room
        BY <1>11
    <2>4. RoomsDistinct(allocations)
        BY <1>13
    <2>5. \/ Cardinality(TakenIn(plan, allocations[j].room)) = allocations[j].allocated
          \/ TakenIn(plan, allocations[j].room) = UsableSeats(layout[allocations[j].room])
        BY <1>5, <2>1, <2>2, <2>3, <2>4, RoomFilled
    <2> QED
        BY <2>3, <2>5 DEF TakenIn
<1>17. UsableSeats(layout[room]) = (1..layout[room].capacity) \ layout[room].blocked
    BY DEF UsableSeats, SeatNumbers
<1>18. \/ Cardinality(taken) = AllocatedTo(lines, room)
       \/ taken = (1..layout[room].capacity) \ layout[room].blocked
    BY <1>11, <1>16, <1>17
<1> QED
    BY <1>18 DEF plan, room, lines

\* Who comes to the insert, comes from Place or does not generate a session.
LEMMA PlaceHonours ==
    ASSUME IInv, NEW t \in Request, Place(t), req'[t].at = "insert", req[t].op = "session"
    PROVE  Honoured(req'[t])
<1>1. PICK layout \in RoomTables : layout = rooms
    BY DEF IInv, TypeOK
<1> DEFINE r == req[t]
<1>2. /\ At(t, "rooms")
      /\ NoDuplicateStudent(r.roster) /\ RoomsDistinct(AllocationsOf(r))
      /\ \A i \in DOMAIN AllocationsOf(r) : AllocationsOf(r)[i].room \in DOMAIN layout
      /\ Goto(t, [r EXCEPT !.at = "insert", !.layout = layout, !.plan = PlanOf(r, layout)])
    BY <1>1 DEF Place, Answer, Idle, IInv, TypeOK, PlanOf
<1>3. r \in RequestRecord /\ RequestSound(r) /\ r.at = "rooms"
    BY <1>2, ActiveRequest DEF At
<1>4. /\ req'[t].lines = r.lines /\ req'[t].roster = r.roster
      /\ req'[t].plan = PlanOf(r, layout) /\ req'[t].layout = layout
    BY <1>2, <1>3 DEF Goto, IInv, TypeOK, RequestRecord
<1> HIDE DEF r
<1>5. ASSUME Cardinality(PlanOf(r, layout)) < Cardinality(r.roster), NEW i \in DOMAIN r.lines
      PROVE  LET room == r.lines[i].room
                 taken == {a.seat : a \in {b \in PlanOf(r, layout) : b.room = room}}
             IN  \/ Cardinality(taken) = AllocatedTo(r.lines, room)
                 \/ taken = (1..layout[room].capacity) \ layout[room].blocked
    BY <1>2, <1>3, <1>5, PlanHonours DEF r
<1> QED
    BY <1>4, <1>5 DEF Honoured

\* No step but Place takes the generation of a session to its first write.
LEMMA OnlyPlacePlaces ==
    ASSUME IInv, NEW t \in Request, Step(t), ~Place(t)
    PROVE  \/ \E a : Answer(t, a)
           \/ \E r : Goto(t, r) /\ (r.at # "insert" \/ r.op # "session")
<1> DEFINE old == req[t]
           e == old.ids[old.k]
           Ended == \E a : Answer(t, a)
<1>1. old \in RequestRecord
    BY ActiveRequest DEF Step, LoadSession, LoadSessionExams, LoadExam, ExamsLoaded,
       ListRooms, LookUpRooms, RoomsListed, ListStudents, LookUpStudents,
       StudentsListed, Write, LockTimeout, CommitSession, Respond,
       CommitGeneration, CommitReset, Place, At
<1>2. CASE LoadSession(t)
    <2>1. PICK r : r = [old EXCEPT !.at = "session_exams"]
        OBVIOUS
    <2>2. r.at = "session_exams"
        BY <1>1, <1>2, <2>1 DEF RequestRecord
    <2>3. Ended \/ Goto(t, r)
        BY <1>2, <2>1 DEF LoadSession
    <2> QED
        BY <2>2, <2>3
<1>3. CASE LoadSessionExams(t)
    <2>1. PICK r : r = [old EXCEPT !.at = "exams",
                          !.ids = IF old.of \in DOMAIN sessions THEN sessions[old.of].ids
                                  ELSE <<>>]
        OBVIOUS
    <2>2. r.at = "exams"
        BY <1>1, <1>3, <2>1 DEF RequestRecord
    <2>3. Goto(t, r)
        BY <1>3, <2>1 DEF LoadSessionExams
    <2> QED
        BY <2>2, <2>3
<1>4. CASE LoadExam(t)
    <2>1. PICK r : r = [old EXCEPT !.k = @ + 1,
                          !.loaded = Append(@, [id |-> e, course |-> exams[e].course,
                                                slot |-> exams[e].slot])]
        OBVIOUS
    <2>2. r.at = "exams"
        BY <1>1, <1>4, <2>1 DEF RequestRecord, LoadExam, At
    <2>3. Ended \/ Goto(t, r)
        BY <1>4, <2>1 DEF LoadExam
    <2> QED
        BY <2>2, <2>3
<1>5. CASE ExamsLoaded(t)
    <2>1. PICK r : r = [old EXCEPT !.at = "rooms", !.k = 1]
        OBVIOUS
    <2>2. r.at = "rooms"
        BY <1>1, <1>5, <2>1 DEF RequestRecord
    <2>3. Ended \/ Goto(t, r)
        BY <1>5, <2>1 DEF ExamsLoaded
    <2> QED
        BY <2>2, <2>3
<1>6. CASE ListRooms(t)
    <2>1. PICK r : r = [old EXCEPT !.at = "room_lookup",
                          !.lines = @ \o Listed(examRooms, old.ids[old.k])]
        OBVIOUS
    <2>2. r.at = "room_lookup"
        BY <1>1, <1>6, <2>1 DEF RequestRecord
    <2>3. Goto(t, r)
        BY <1>6, <2>1 DEF ListRooms
    <2> QED
        BY <2>2, <2>3
<1>7. CASE LookUpRooms(t)
    <2>1. PICK r : r = IF old.op = "create" THEN [old EXCEPT !.at = "rooms", !.k = @ + 1]
                ELSE [old EXCEPT !.at = "students"]
        OBVIOUS
    <2>2. r.at # "insert"
        BY <1>1, <1>7, <2>1 DEF RequestRecord
    <2>3. Ended \/ Goto(t, r)
        BY <1>7, <2>1 DEF LookUpRooms
    <2> QED
        BY <2>2, <2>3
<1>8. CASE RoomsListed(t)
    <2>1. PICK r : r = [old EXCEPT !.at = "students", !.k = 1]
        OBVIOUS
    <2>2. r.at = "students"
        BY <1>1, <1>8, <2>1 DEF RequestRecord
    <2>3. Ended \/ Goto(t, r)
        BY <1>8, <2>1 DEF RoomsListed
    <2> QED
        BY <2>2, <2>3
<1>9. CASE ListStudents(t)
    <2>1. PICK r : r = [old EXCEPT !.at = "student_lookup",
                          !.roster = @ \cup
                            {[student |-> x.student, exam |-> old.loaded[old.k].id,
                              course |-> old.loaded[old.k].course] :
                               x \in {y \in registrations :
                                       y.course = old.loaded[old.k].course}}]
        OBVIOUS
    <2>2. r.at = "student_lookup"
        BY <1>1, <1>9, <2>1 DEF RequestRecord
    <2>3. Goto(t, r)
        BY <1>9, <2>1 DEF ListStudents
    <2> QED
        BY <2>2, <2>3
<1>10. CASE LookUpStudents(t)
    <2>1. PICK r : r = [old EXCEPT !.at = IF old.op = "create" THEN "students" ELSE "rooms",
                          !.k = @ + 1]
        OBVIOUS
    <2>2. r.at # "insert"
        BY <1>1, <1>10, <2>1 DEF RequestRecord
    <2>3. Ended \/ Goto(t, r)
        BY <1>10, <2>1 DEF LookUpStudents
    <2> QED
        BY <2>2, <2>3
<1>11. CASE Write(t)
    <2>1. PICK r : r = [old EXCEPT !.at = "commit",
                          !.id = IF old.op = "create" THEN NextId(sessions)
                                 ELSE NextId(generations)]
        OBVIOUS
    <2>2. r.at = "commit"
        BY <1>1, <1>11, <2>1 DEF RequestRecord
    <2>3. Goto(t, r)
        BY <1>11, <2>1 DEF Write
    <2> QED
        BY <2>2, <2>3
<1>12. CASE CommitSession(t)
    <2>1. PICK r : r = [old EXCEPT !.at = "respond"]
        OBVIOUS
    <2>2. r.at = "respond"
        BY <1>1, <1>12, <2>1 DEF RequestRecord
    <2>3. Goto(t, r)
        BY <1>12, <2>1 DEF CommitSession
    <2> QED
        BY <2>2, <2>3
<1>13. CASE StudentsListed(t)
    <2>1. PICK r : r = [old EXCEPT !.at = "insert"]
        OBVIOUS
    <2>2. r.op # "session"
        BY <1>1, <1>13, <2>1 DEF StudentsListed, RequestRecord
    <2>3. Ended \/ Goto(t, r)
        BY <1>13, <2>1 DEF StudentsListed
    <2> QED
        BY <2>2, <2>3
<1>14. LockTimeout(t) \/ Respond(t) \/ CommitGeneration(t) \/ CommitReset(t)
          => \E a : Answer(t, a)
    BY DEF LockTimeout, Respond, CommitGeneration, CommitReset
<1> QED
    BY <1>2, <1>3, <1>4, <1>5, <1>6, <1>7, <1>8, <1>9, <1>10, <1>11, <1>12, <1>13, <1>14 DEF Step

LEMMA NextHonours ==
    IInv /\ SharedAllocationsHonoured /\ [Next]_vars => SharedAllocationsHonoured'
<1> SUFFICES ASSUME IInv, SharedAllocationsHonoured, [Next]_vars,
                    NEW u \in Request, At(u, "insert")', (req[u].op = "session")'
             PROVE  Honoured(req'[u])
    BY DEF SharedAllocationsHonoured, Honoured
<1>1. ASSUME req'[u] = req[u] PROVE Honoured(req'[u])
    <2>1. At(u, "insert") /\ req[u].op = "session"
        BY <1>1 DEF At
    <2>2. Honoured(req[u])
        BY <2>1 DEF SharedAllocationsHonoured, Honoured
    <2> QED
        BY <1>1, <2>2
<1>2. ASSUME NEW t \in Request, NEW r, req' = [req EXCEPT ![t] = r],
             r.at # "insert" \/ r.op # "session"
      PROVE  Honoured(req'[u])
    BY <1>1, <1>2 DEF IInv, TypeOK, At
<1>3. ASSUME NEW t \in Request, NEW a, Answer(t, a) PROVE Honoured(req'[u])
    BY <1>2, <1>3 DEF Answer, Idle
<1>4. ASSUME NEW t \in Request, Place(t) PROVE Honoured(req'[u])
    <2>1. CASE u = t
        <3>1. req[t].op = "session"
            <4>1. req[t] \in RequestRecord /\ t \in DOMAIN req
                BY <1>4, ActiveRequest DEF Place, At, IInv, TypeOK
            <4>2. ASSUME NEW a, Answer(t, a) PROVE FALSE
                BY <2>1, <4>1, <4>2 DEF Answer, Idle, At
            <4>3. Goto(t, [req[t] EXCEPT !.at = "insert", !.layout = rooms,
                                         !.plan = PlanOf(req[t], rooms)])
                BY <1>4, <4>2 DEF Place, PlanOf
            <4>4. req'[t].op = req[t].op
                BY <4>1, <4>3 DEF Goto, RequestRecord
            <4> QED
                BY <2>1, <4>4
        <3> QED
            BY <1>4, <2>1, <3>1, PlaceHonours DEF At
    <2>2. CASE u # t
        BY <1>1, <1>4, <2>2 DEF Place, Goto, Answer, IInv, TypeOK
    <2> QED
        BY <2>1, <2>2
<1>5. ASSUME NEW t \in Request, Step(t), ~Place(t) PROVE Honoured(req'[u])
    <2>1. CASE \E a : Answer(t, a)
        BY <1>3, <2>1
    <2>2. ASSUME NEW r, Goto(t, r), r.at # "insert" \/ r.op # "session"
          PROVE  Honoured(req'[u])
        BY <1>2, <2>2 DEF Goto
    <2> QED
        BY <1>5, <2>1, <2>2, OnlyPlacePlaces
<1>6. ASSUME NEW t \in Request, Arrive(t) PROVE Honoured(req'[u])
    <2>1. CASE RejectExamIds(t)
        BY <1>1, <2>1 DEF RejectExamIds
    <2>2. ASSUME NEW op, NEW at, NEW of, NEW ids, Begin(t, op, at, of, ids),
                 at # "insert" \/ op # "session"
          PROVE  Honoured(req'[u])
        BY <1>2, <2>2 DEF Begin, Fresh
    <2> QED
        BY <1>6, <2>1, <2>2
           DEF Arrive, BeginCreate, BeginGenerate, BeginGenerateSession, BeginReset
<1>7. CASE Restart
    BY <1>7 DEF Restart, At, Idle
<1>8. CASE \/ BeginImport \/ ImportRegistrations \/ ImportSchedule \/ ImportRooms
           \/ ImportFails \/ UNCHANGED vars
    BY <1>1, <1>8 DEF BeginImport, StartImport, ImportRegistrations, ImportSchedule,
       ImportRooms, EndImport, ImportFails, vars
<1> QED
    BY <1>2, <1>3, <1>4, <1>5, <1>6, <1>7, <1>8 DEF Next

\* SharedAllocationsHonoured for any rooms and any number of exams and students: a
\* session leaves nobody out while a room its exams share has an allocated, usable seat.
THEOREM SharedRoomsFilled == Spec => []SharedAllocationsHonoured
<1>1. Init => SharedAllocationsHonoured
    BY DEF Init, SharedAllocationsHonoured, At, Idle
<1> QED
    BY <1>1, NextHonours, InvariantHolds, PTL DEF Spec
-----------------------------------------------------------------------------
\* The rooms of the exams before the one whose rooms are read next.
RoomsHeard(r) == IF r.at = "rooms" THEN r.k - 1 ELSE r.k

\* While it collects them, a request's lines are what its exams have on file.
LinesCurrent(r) ==
    r.at \in {"rooms", "room_lookup"} \/ (r.op = "session" /\ r.at \in Reading) =>
        r.lines = LinesFrom(examRooms, r.ids)[RoomsHeard(r)]

\* How far the loops are.
LoopsBounded(r) ==
    /\ r.at \in {"session", "session_exams", "exams"} => r.lines = <<>>
    /\ r.at \in Reading => r.k <= Len(r.ids) + 1
    /\ r.at \in {"room_lookup", "student_lookup"} => r.k <= Len(r.ids)
    /\ r.op # "create" /\ r.at = "students" => r.k <= Len(r.ids)

\* A creation that no import and no reset fell into has checked what it has checked.
CreationChecked(r) ==
    /\ LinesCurrent(r)
    /\ r.at \in {"students", "student_lookup", "insert", "commit"} =>
          RoomsShared(r.ids, examRooms)
    /\ r.at \in {"students", "student_lookup"} =>
          \A i \in DOMAIN r.loaded : HasHeard(r, i) =>
              \A y \in registrations : y.course = r.loaded[i].course =>
                  [student |-> y.student, exam |-> r.loaded[i].id, course |-> y.course]
                      \in r.roster
    /\ r.at \in {"insert", "commit"} => StudentsApart(r.ids, exams, registrations)

\* What a request relies on when nothing was imported since its creation, or since the
\* creation of the session it generates, began.
Undisturbed(r) ==
    /\ LoopsBounded(r)
    /\ r.since.imports = imports /\ r.since.resets # resets => exams = <<>>
    /\ r.since.imports = imports /\ r.since.resets = resets /\ r.op = "create" =>
          CreationChecked(r)
    /\ /\ r.since.resets = resets /\ r.op = "session"
       /\ r.at \notin {"session", "session_exams"}
       /\ sessions[r.of].since.imports = imports
       => LinesCurrent(r)

SessionsAcceptable ==
    \A s \in DOMAIN sessions : sessions[s].since.imports = imports =>
        \/ exams = <<>>
        \/ /\ StudentsApart(sessions[s].ids, exams, registrations)
           /\ RoomsShared(sessions[s].ids, examRooms)

AcceptanceHolds ==
    /\ SessionsAcceptable
    /\ \A t \in Request : ~At(t, "idle") => Undisturbed(req[t])

-----------------------------------------------------------------------------
\* One step of LinesFrom: g holds what fewer exams allocate.
LinesStep(table, ids, g, m) == IF m = 0 THEN <<>> ELSE g[m - 1] \o Listed(table, ids[m])

\* What LinesFrom computes, by induction on the number of exams.
LEMMA LinesExist ==
    ASSUME NEW table, NEW ids, NEW n \in Nat
    PROVE  \E g : g = [m \in 0..n |-> LinesStep(table, ids, g, m)]
<1> DEFINE step(g, m) == LinesStep(table, ids, g, m)
           P(k) == \E g : g = [m \in 0..k |-> step(g, m)]
<1>1. P(0)
    <2> DEFINE g == [m \in 0..0 |-> <<>>]
    <2>1. \A m \in 0..0 : step(g, m) = <<>>
        BY DEF LinesStep
    <2>2. g = [m \in 0..0 |-> step(g, m)]
        BY <2>1
    <2> HIDE DEF g, step
    <2> QED
        BY <2>2
<1>2. ASSUME NEW k \in Nat, P(k) PROVE P(k + 1)
    <2>1. PICK g : g = [m \in 0..k |-> step(g, m)]
        BY <1>2
    <2> DEFINE h == [m \in 0..(k + 1) |-> step(g, m)]
    <2>2. \A m \in 0..k : h[m] = g[m]
        <3>1. \A m \in 0..k : m \in 0..(k + 1) /\ g[m] = step(g, m)
            BY <2>1
        <3> HIDE DEF step
        <3> QED
            BY <3>1
    <2>3. ASSUME NEW m \in 0..(k + 1) PROVE step(g, m) = step(h, m)
        <3>1. CASE m = 0
            BY <3>1 DEF LinesStep
        <3>2. CASE m # 0
            <4>1. m - 1 \in 0..k
                BY <3>2
            <4>2. h[m - 1] = g[m - 1]
                BY <2>2, <4>1
            <4> HIDE DEF h
            <4> QED
                BY <3>2, <4>2 DEF LinesStep
        <3> QED
            BY <3>1, <3>2
    <2>4. h = [m \in 0..(k + 1) |-> step(h, m)]
        <3> HIDE DEF step
        <3> QED
            BY <2>3
    <2> HIDE DEF h, step
    <2> QED
        BY <2>4
<1> HIDE DEF P
<1>3. P(n)
    <2> SUFFICES ASSUME ~P(n) PROVE FALSE
        OBVIOUS
    <2> DEFINE T == {m \in Nat : ~P(m)}
    <2>1. PICK m \in T : \A k \in T : m <= k
        BY LeastNatural
    <2>2. m # 0 /\ m \in Nat /\ ~P(m)
        BY <1>1
    <2>3. m - 1 \in Nat /\ ~(m <= m - 1)
        BY <2>2
    <2>4. P(m - 1)
        BY <2>1, <2>3
    <2>5. P((m - 1) + 1)
        BY <1>2, <2>3, <2>4
    <2> QED
        BY <2>2, <2>5
<1> QED
    BY <1>3 DEF P

\* The lines of no exam, and of one exam more.
LEMMA LinesEquation ==
    ASSUME NEW table, NEW ids, Len(ids) \in Nat
    PROVE  /\ LinesFrom(table, ids)[0] = <<>>
           /\ \A n \in 1..Len(ids) :
                 LinesFrom(table, ids)[n] = LinesFrom(table, ids)[n - 1] \o Listed(table, ids[n])
<1> DEFINE lines == LinesFrom(table, ids)
           step(g, m) == LinesStep(table, ids, g, m)
<1>1. lines = CHOOSE g : g = [m \in 0..Len(ids) |-> step(g, m)]
    BY DEF LinesFrom, LinesStep
<1>2. \E g : g = [m \in 0..Len(ids) |-> step(g, m)]
    BY LinesExist
<1>3. lines = [m \in 0..Len(ids) |-> step(lines, m)]
    <2> HIDE DEF step, lines
    <2> QED
        BY <1>1, <1>2
<1> HIDE DEF lines
<1>4. lines[0] = <<>>
    BY <1>3 DEF LinesStep
<1>5. ASSUME NEW n \in 1..Len(ids) PROVE lines[n] = lines[n - 1] \o Listed(table, ids[n])
    <2>1. n \in 0..Len(ids) /\ n # 0
        OBVIOUS
    <2>2. lines[n] = step(lines, n)
        <3> HIDE DEF step
        <3> QED
            BY <1>3, <2>1
    <2> QED
        BY <2>1, <2>2 DEF LinesStep
<1> QED
    BY <1>4, <1>5 DEF lines
-----------------------------------------------------------------------------
\* The tables a request relies on, and the history counters, stay as they are.
Quiet == UNCHANGED <<registrations, exams, examRooms, sessions, imports, resets>>

LEMMA QuietSteps ==
    ASSUME IInv, AcceptanceHolds, Quiet, NEW t \in Request, NEW r,
           req' = [req EXCEPT ![t] = r], r.at # "idle" => Undisturbed(r)
    PROVE  AcceptanceHolds'
<1>1. /\ registrations' = registrations /\ exams' = exams /\ examRooms' = examRooms
      /\ sessions' = sessions /\ imports' = imports /\ resets' = resets
    BY DEF Quiet
<1>2. SessionsAcceptable'
    BY <1>1 DEF AcceptanceHolds, SessionsAcceptable, RoomsShared, StudentsApart
<1>3. ASSUME NEW s, Undisturbed(s) PROVE Undisturbed(s)'
    <2>1. LinesCurrent(s)' <=> LinesCurrent(s)
        BY <1>1 DEF LinesCurrent, RoomsHeard
    <2>2. CreationChecked(s)' <=> CreationChecked(s)
        BY <1>1, <2>1 DEF CreationChecked, HasHeard, RoomsShared, StudentsApart
    <2>3. LoopsBounded(s)' <=> LoopsBounded(s)
        BY DEF LoopsBounded
    <2> QED
        BY <1>1, <1>3, <2>1, <2>2, <2>3 DEF Undisturbed
<1>4. req'[t] = r /\ \A u \in Request \ {t} : req'[u] = req[u]
    BY DEF IInv, TypeOK
<1>5. ASSUME NEW u \in Request, req'[u].at # "idle" PROVE Undisturbed(req[u])'
    <2>1. PICK s : s = req'[u]
        OBVIOUS
    <2>2. Undisturbed(s)
        BY <1>4, <1>5, <2>1 DEF AcceptanceHolds, At
    <2>3. Undisturbed(s)'
        BY <1>3, <2>2
    <2> QED
        BY <2>1, <2>3
           DEF Undisturbed, LoopsBounded, CreationChecked, LinesCurrent, RoomsHeard, HasHeard
<1> QED
    BY <1>2, <1>5 DEF AcceptanceHolds, At

\* A step that only reads moves t on, or ends its request.
LEMMA MovesOnUndisturbed ==
    ASSUME IInv, AcceptanceHolds, UNCHANGED <<tables, importer, counters>>, NEW t \in Request,
           NEW r, Undisturbed(r), Goto(t, r)
    PROVE  AcceptanceHolds'
<1>1. Quiet /\ req' = [req EXCEPT ![t] = r]
    BY DEF Quiet, tables, counters, Goto
<1> QED
    BY <1>1, QuietSteps

LEMMA EndsUndisturbed ==
    ASSUME IInv, AcceptanceHolds, UNCHANGED <<tables, importer, counters>>, NEW t \in Request,
           NEW a, Answer(t, a)
    PROVE  AcceptanceHolds'
<1>1. Quiet /\ req' = [req EXCEPT ![t] = Idle] /\ Idle.at = "idle"
    BY DEF Quiet, tables, counters, Answer, Idle
<1> QED
    BY <1>1, QuietSteps

\* What is known of a request under way.
LEMMA UnderWay ==
    ASSUME IInv, LInv, AcceptanceHolds, NEW t \in Request, ~At(t, "idle")
    PROVE  /\ req[t] \in RequestRecord /\ RequestSound(req[t]) /\ Holds(req[t])
           /\ Undisturbed(req[t])
           /\ req[t].ids \in Seq(Nat) /\ req[t].k \in Nat \ {0} /\ Len(req[t].ids) \in Nat
           /\ req[t].loaded \in Seq([id : Nat, course : Course, slot : Slot])
<1>1. req[t] \in RequestRecord
    BY ActiveRequest
<1>2. req[t].ids \in Seq(Nat) /\ req[t].k \in Nat \ {0}
      /\ req[t].loaded \in Seq([id : Nat, course : Course, slot : Slot])
    BY <1>1 DEF RequestRecord
<1>3. Len(req[t].ids) \in Nat
    BY <1>2
<1> QED
    BY <1>1, <1>2, <1>3, ActiveRequest, ActiveHolds DEF LInv, AcceptanceHolds
-----------------------------------------------------------------------------
LEMMA LoadSessionUndisturbed ==
    ASSUME IInv, LInv, AcceptanceHolds, NEW t \in Request, LoadSession(t)
    PROVE  AcceptanceHolds'
<1>1. UNCHANGED <<tables, importer, counters>> /\ At(t, "session")
    BY DEF LoadSession
<1>2. PICK r : r = [req[t] EXCEPT !.at = "session_exams"]
    OBVIOUS
<1>3. /\ req[t] \in RequestRecord /\ RequestSound(req[t]) /\ Undisturbed(req[t])
      /\ req[t].at = "session"
    BY <1>1, UnderWay DEF At
<1>4. /\ r.at = "session_exams" /\ r.op = req[t].op /\ r.lines = req[t].lines
      /\ r.since = req[t].since
    BY <1>2, <1>3 DEF RequestRecord
<1>5. Undisturbed(r)
    BY <1>3, <1>4 DEF Undisturbed, LoopsBounded, RequestSound, Reading
<1> QED
    BY <1>1, <1>2, <1>5, MovesOnUndisturbed, EndsUndisturbed DEF LoadSession

LEMMA LoadSessionExamsUndisturbed ==
    ASSUME IInv, LInv, AcceptanceHolds, NEW t \in Request, LoadSessionExams(t)
    PROVE  AcceptanceHolds'
<1> DEFINE s == req[t].of
           ids == IF s \in DOMAIN sessions THEN sessions[s].ids ELSE <<>>
<1>1. UNCHANGED <<tables, importer, counters>> /\ At(t, "session_exams")
    BY DEF LoadSessionExams
<1>2. PICK r : r = [req[t] EXCEPT !.at = "exams", !.ids = ids]
    OBVIOUS
<1>3. /\ req[t] \in RequestRecord /\ RequestSound(req[t]) /\ Undisturbed(req[t])
      /\ req[t].at = "session_exams"
    BY <1>1, UnderWay DEF At
<1>4. /\ r.at = "exams" /\ r.op = req[t].op /\ r.lines = req[t].lines
      /\ r.since = req[t].since
    BY <1>2, <1>3 DEF RequestRecord
<1>5. Undisturbed(r)
    BY <1>3, <1>4 DEF Undisturbed, LoopsBounded, LinesCurrent, RequestSound, Reading
<1>6. Goto(t, r)
    BY <1>2 DEF LoadSessionExams
<1> QED
    BY <1>1, <1>5, <1>6, MovesOnUndisturbed

LEMMA LoadExamUndisturbed ==
    ASSUME IInv, LInv, AcceptanceHolds, NEW t \in Request, LoadExam(t)
    PROVE  AcceptanceHolds'
<1> DEFINE e == req[t].ids[req[t].k]
           row == [id |-> e, course |-> exams[e].course, slot |-> exams[e].slot]
<1>1. UNCHANGED <<tables, importer, counters>> /\ At(t, "exams")
    BY DEF LoadExam
<1>2. PICK r : r = [req[t] EXCEPT !.k = @ + 1, !.loaded = Append(@, row)]
    OBVIOUS
<1>3. /\ req[t] \in RequestRecord /\ Undisturbed(req[t]) /\ req[t].at = "exams"
    BY <1>1, UnderWay DEF At
<1>4. /\ r.at = "exams" /\ r.op = req[t].op /\ r.lines = req[t].lines
      /\ r.since = req[t].since
    BY <1>2, <1>3 DEF RequestRecord
<1>5. Undisturbed(r)
    BY <1>3, <1>4 DEF Undisturbed, LoopsBounded, LinesCurrent, CreationChecked, Reading
<1>6. Goto(t, r) \/ \E a : Answer(t, a)
    BY <1>2 DEF LoadExam
<1> QED
    BY <1>1, <1>5, <1>6, MovesOnUndisturbed, EndsUndisturbed

LEMMA ExamsLoadedUndisturbed ==
    ASSUME IInv, LInv, AcceptanceHolds, NEW t \in Request, ExamsLoaded(t)
    PROVE  AcceptanceHolds'
<1>1. UNCHANGED <<tables, importer, counters>> /\ At(t, "exams")
    BY DEF ExamsLoaded
<1>2. PICK r : r = [req[t] EXCEPT !.at = "rooms", !.k = 1]
    OBVIOUS
<1>3. /\ req[t] \in RequestRecord /\ Undisturbed(req[t]) /\ req[t].at = "exams"
      /\ Len(req[t].ids) \in Nat
    BY <1>1, UnderWay DEF At
<1>4. /\ r.at = "rooms" /\ r.k = 1 /\ r.op = req[t].op /\ r.lines = <<>>
      /\ r.since = req[t].since /\ r.of = req[t].of /\ Len(r.ids) \in Nat
    BY <1>2, <1>3 DEF RequestRecord, Undisturbed, LoopsBounded
<1>5. LinesCurrent(r)
    <2>1. PICK ids : ids = r.ids
        OBVIOUS
    <2>2. Len(ids) \in Nat
        BY <1>4, <2>1
    <2>3. LinesFrom(examRooms, ids)[0] = <<>>
        BY <2>2, LinesEquation
    <2>4. RoomsHeard(r) = 0
        BY <1>4 DEF RoomsHeard
    <2> QED
        BY <1>4, <2>1, <2>3, <2>4 DEF LinesCurrent
<1>6. LoopsBounded(r)
    BY <1>4 DEF LoopsBounded, Reading
<1>7. Undisturbed(r)
    BY <1>3, <1>4, <1>5, <1>6 DEF Undisturbed, CreationChecked
<1>8. Goto(t, r) \/ \E a : Answer(t, a)
    BY <1>2 DEF ExamsLoaded
<1> QED
    BY <1>1, <1>7, <1>8, MovesOnUndisturbed, EndsUndisturbed

LEMMA ListRoomsUndisturbed ==
    ASSUME IInv, LInv, AcceptanceHolds, NEW t \in Request, ListRooms(t)
    PROVE  AcceptanceHolds'
<1> DEFINE more == Listed(examRooms, req[t].ids[req[t].k])
           all == LinesFrom(examRooms, req[t].ids)
           k == req[t].k
<1>1. UNCHANGED <<tables, importer, counters>> /\ At(t, "rooms") /\ ~(k > Len(req[t].ids))
    BY DEF ListRooms, Finished
<1>2. PICK r : r = [req[t] EXCEPT !.at = "room_lookup", !.lines = @ \o more]
    OBVIOUS
<1>3. /\ req[t] \in RequestRecord /\ Undisturbed(req[t]) /\ req[t].at = "rooms"
      /\ Len(req[t].ids) \in Nat /\ k \in Nat \ {0}
    BY <1>1, UnderWay DEF At
<1>4. /\ r.at = "room_lookup" /\ r.k = k /\ r.op = req[t].op
      /\ r.lines = req[t].lines \o more /\ r.ids = req[t].ids
      /\ r.since = req[t].since /\ r.of = req[t].of
    BY <1>2, <1>3 DEF RequestRecord
<1>5. ASSUME LinesCurrent(req[t]) PROVE LinesCurrent(r)
    <2>1. req[t].lines = all[k - 1]
        BY <1>3, <1>5 DEF LinesCurrent, RoomsHeard
    <2>2. k \in 1..Len(req[t].ids)
        BY <1>1, <1>3
    <2>3. all[k] = all[k - 1] \o more
        <3>1. PICK ids : ids = req[t].ids
            OBVIOUS
        <3>2. Len(ids) \in Nat
            BY <1>3, <3>1
        <3>3. \A n \in 1..Len(ids) :
                  LinesFrom(examRooms, ids)[n]
                    = LinesFrom(examRooms, ids)[n - 1] \o Listed(examRooms, ids[n])
            BY <3>2, LinesEquation
        <3> QED
            BY <2>2, <3>1, <3>3
    <2> HIDE DEF all, more
    <2>4. r.lines = all[k]
        BY <1>4, <2>1, <2>3
    <2> QED
        BY <1>4, <2>4 DEF LinesCurrent, RoomsHeard, all
<1>6. LoopsBounded(r)
    BY <1>1, <1>3, <1>4 DEF LoopsBounded, Reading
<1>7. Undisturbed(r)
    BY <1>3, <1>4, <1>5, <1>6 DEF Undisturbed, CreationChecked
<1>8. Goto(t, r)
    BY <1>2 DEF ListRooms
<1> QED
    BY <1>1, <1>7, <1>8, MovesOnUndisturbed

LEMMA LookUpRoomsUndisturbed ==
    ASSUME IInv, LInv, AcceptanceHolds, NEW t \in Request, LookUpRooms(t)
    PROVE  AcceptanceHolds'
<1> DEFINE k == req[t].k
           create == req[t].op = "create"
<1>1. UNCHANGED <<tables, importer, counters>> /\ At(t, "room_lookup")
    BY DEF LookUpRooms
<1>2. PICK r : r = IF create THEN [req[t] EXCEPT !.at = "rooms", !.k = @ + 1]
                   ELSE [req[t] EXCEPT !.at = "students"]
    OBVIOUS
<1>3. /\ req[t] \in RequestRecord /\ Undisturbed(req[t]) /\ req[t].at = "room_lookup"
      /\ Len(req[t].ids) \in Nat /\ k \in Nat \ {0}
    BY <1>1, UnderWay DEF At
<1>4. /\ r.at = (IF create THEN "rooms" ELSE "students")
      /\ r.k = (IF create THEN k + 1 ELSE k) /\ r.op = req[t].op
      /\ r.lines = req[t].lines /\ r.ids = req[t].ids
      /\ r.since = req[t].since /\ r.of = req[t].of
    BY <1>2, <1>3 DEF RequestRecord
<1>5. RoomsHeard(r) = RoomsHeard(req[t])
    BY <1>3, <1>4 DEF RoomsHeard
<1>6. LinesCurrent(req[t]) => LinesCurrent(r)
    BY <1>3, <1>4, <1>5 DEF LinesCurrent
<1>7. LoopsBounded(r)
    BY <1>3, <1>4 DEF Undisturbed, LoopsBounded, Reading
<1>8. Undisturbed(r)
    BY <1>3, <1>4, <1>6, <1>7 DEF Undisturbed, CreationChecked
<1>9. Goto(t, r) \/ Answer(t, "AssertionError")
    BY <1>2 DEF LookUpRooms
<1> QED
    BY <1>1, <1>8, <1>9, MovesOnUndisturbed, EndsUndisturbed

LEMMA RoomsListedUndisturbed ==
    ASSUME IInv, LInv, AcceptanceHolds, NEW t \in Request, RoomsListed(t)
    PROVE  AcceptanceHolds'
<1> DEFINE k == req[t].k
           ids == req[t].ids
<1>1. /\ UNCHANGED <<tables, importer, counters>> /\ At(t, "rooms") /\ k > Len(ids)
      /\ req[t].op = "create"
    BY DEF RoomsListed, Finished
<1>2. PICK r : r = [req[t] EXCEPT !.at = "students", !.k = 1]
    OBVIOUS
<1>3. /\ req[t] \in RequestRecord /\ Undisturbed(req[t]) /\ req[t].at = "rooms"
      /\ Len(ids) \in Nat /\ k \in Nat \ {0}
      /\ req[t].loaded \in Seq([id : Nat, course : Course, slot : Slot])
    BY <1>1, UnderWay DEF At
<1>4. /\ r.at = "students" /\ r.k = 1 /\ r.op = "create" /\ r.lines = req[t].lines
      /\ r.ids = ids /\ r.since = req[t].since /\ r.loaded = req[t].loaded
    BY <1>1, <1>2, <1>3 DEF RequestRecord
<1>5. LoopsBounded(r)
    BY <1>3, <1>4 DEF LoopsBounded, Reading
<1>6. \A i \in DOMAIN r.loaded : ~HasHeard(r, i)
    <2>1. \A i \in DOMAIN r.loaded : ~(i < 1)
        BY <1>3, <1>4
    <2> QED
        BY <1>4, <2>1 DEF HasHeard
<1>7. CASE NoConflictingRoomUsage(req[t].lines) /\ Goto(t, r)
    <2>1. ASSUME CreationChecked(req[t]) PROVE CreationChecked(r)
        <3>1. req[t].lines = LinesFrom(examRooms, ids)[k - 1]
            BY <1>3, <2>1 DEF CreationChecked, LinesCurrent, RoomsHeard
        <3>2. k - 1 = Len(ids)
            BY <1>1, <1>3 DEF Undisturbed, LoopsBounded, Reading
        <3>3. RoomsShared(ids, examRooms)
            BY <1>7, <3>1, <3>2 DEF RoomsShared
        <3>4. LinesCurrent(r)
            BY <1>4 DEF LinesCurrent
        <3> QED
            BY <1>4, <1>6, <3>3, <3>4 DEF CreationChecked
    <2>2. Undisturbed(r)
        BY <1>1, <1>3, <1>4, <1>5, <2>1 DEF Undisturbed
    <2> QED
        BY <1>1, <1>7, <2>2, MovesOnUndisturbed
<1>8. CASE Answer(t, "ConflictingRoomAllocationError")
    BY <1>1, <1>8, EndsUndisturbed
<1> QED
    BY <1>2, <1>7, <1>8 DEF RoomsListed

LEMMA ListStudentsUndisturbed ==
    ASSUME IInv, LInv, AcceptanceHolds, NEW t \in Request, ListStudents(t)
    PROVE  AcceptanceHolds'
<1> DEFINE k == req[t].k
           e == req[t].loaded[k]
           listed == {y \in registrations : y.course = e.course}
           more == {[student |-> x.student, exam |-> e.id, course |-> e.course] : x \in listed}
<1>1. UNCHANGED <<tables, importer, counters>> /\ At(t, "students") /\ ~(k > Len(req[t].ids))
    BY DEF ListStudents, Finished
<1>2. PICK r : r = [req[t] EXCEPT !.at = "student_lookup", !.roster = @ \cup more]
    OBVIOUS
<1>3. /\ req[t] \in RequestRecord /\ Undisturbed(req[t]) /\ req[t].at = "students"
      /\ Len(req[t].ids) \in Nat /\ k \in Nat \ {0}
    BY <1>1, UnderWay DEF At
<1>4. /\ r.at = "student_lookup" /\ r.k = k /\ r.op = req[t].op /\ r.lines = req[t].lines
      /\ r.ids = req[t].ids /\ r.since = req[t].since /\ r.loaded = req[t].loaded
      /\ r.of = req[t].of /\ r.roster = req[t].roster \cup more
    BY <1>1, <1>2, <1>3 DEF RequestRecord
<1>5. LoopsBounded(r)
    BY <1>1, <1>3, <1>4 DEF LoopsBounded, Reading
<1>6. LinesCurrent(req[t]) => LinesCurrent(r)
    BY <1>3, <1>4 DEF LinesCurrent, RoomsHeard, Reading
<1>7. \A y \in registrations : y.course = e.course =>
          [student |-> y.student, exam |-> e.id, course |-> y.course] \in more
    OBVIOUS
<1> HIDE DEF more, e
<1>8. ASSUME CreationChecked(req[t]) PROVE CreationChecked(r)
    <2>1. ASSUME NEW i \in DOMAIN r.loaded, HasHeard(r, i),
                 NEW y \in registrations, y.course = r.loaded[i].course
          PROVE  [student |-> y.student, exam |-> r.loaded[i].id, course |-> y.course]
                     \in r.roster
        <3>1. CASE i = k
            BY <1>4, <1>7, <2>1, <3>1 DEF e
        <3>2. CASE i # k
            BY <1>3, <1>4, <1>8, <2>1, <3>2 DEF CreationChecked, HasHeard
        <3> QED
            BY <3>1, <3>2
    <2>2. RoomsShared(r.ids, examRooms)
        BY <1>3, <1>4, <1>8 DEF CreationChecked
    <2> QED
        BY <1>4, <1>6, <1>8, <2>1, <2>2 DEF CreationChecked
<1>9. Undisturbed(r)
    BY <1>3, <1>4, <1>5, <1>6, <1>8 DEF Undisturbed
<1>10. Goto(t, r)
    BY <1>2 DEF ListStudents, more, e
<1> QED
    BY <1>1, <1>9, <1>10, MovesOnUndisturbed

LEMMA LookUpStudentsUndisturbed ==
    ASSUME IInv, LInv, AcceptanceHolds, NEW t \in Request, LookUpStudents(t)
    PROVE  AcceptanceHolds'
<1> DEFINE k == req[t].k
           stage == IF req[t].op = "create" THEN "students" ELSE "rooms"
<1>1. UNCHANGED <<tables, importer, counters>> /\ At(t, "student_lookup")
    BY DEF LookUpStudents
<1>2. PICK r : r = [req[t] EXCEPT !.at = stage, !.k = @ + 1]
    OBVIOUS
<1>3. /\ req[t] \in RequestRecord /\ Undisturbed(req[t]) /\ req[t].at = "student_lookup"
      /\ Len(req[t].ids) \in Nat /\ k \in Nat \ {0}
      /\ req[t].loaded \in Seq([id : Nat, course : Course, slot : Slot])
    BY <1>1, UnderWay DEF At
<1>4. /\ r.at = stage /\ r.k = k + 1 /\ r.op = req[t].op /\ r.lines = req[t].lines
      /\ r.ids = req[t].ids /\ r.since = req[t].since /\ r.loaded = req[t].loaded
      /\ r.of = req[t].of /\ r.roster = req[t].roster
    BY <1>1, <1>2, <1>3 DEF RequestRecord
<1>5. LoopsBounded(r)
    BY <1>3, <1>4 DEF Undisturbed, LoopsBounded, Reading
<1>6. req[t].op = "session" /\ LinesCurrent(req[t]) => LinesCurrent(r)
    BY <1>3, <1>4 DEF LinesCurrent, RoomsHeard, Reading
<1>7. \A i \in DOMAIN r.loaded : HasHeard(r, i) => HasHeard(req[t], i)
    <2>1. DOMAIN r.loaded \subseteq Nat
        BY <1>3, <1>4
    <2>2. \A i \in DOMAIN r.loaded : i < r.k => i < k \/ i = k
        BY <1>3, <1>4, <2>1
    <2> QED
        BY <1>3, <1>4, <2>2 DEF HasHeard
<1>8. ASSUME CreationChecked(req[t]), r.op = "create" PROVE CreationChecked(r)
    <2>1. RoomsShared(r.ids, examRooms)
        BY <1>3, <1>4, <1>8 DEF CreationChecked
    <2>2. LinesCurrent(r)
        BY <1>4, <1>8 DEF LinesCurrent
    <2> QED
        BY <1>3, <1>4, <1>7, <1>8, <2>1, <2>2 DEF CreationChecked
<1>9. Undisturbed(r)
    BY <1>3, <1>4, <1>5, <1>6, <1>8 DEF Undisturbed
<1>10. Goto(t, r) \/ Answer(t, "AssertionError")
    BY <1>2 DEF LookUpStudents
<1> QED
    BY <1>1, <1>9, <1>10, MovesOnUndisturbed, EndsUndisturbed

\* Nobody in two exams of a roster that is complete: nobody registered for two of them.
LEMMA StudentsListedUndisturbed ==
    ASSUME IInv, LInv, AcceptanceHolds, NEW t \in Request, StudentsListed(t)
    PROVE  AcceptanceHolds'
<1> DEFINE k == req[t].k
           ids == req[t].ids
           loaded == req[t].loaded
           roster == req[t].roster
<1>1. /\ UNCHANGED <<tables, importer, counters>> /\ At(t, "students") /\ k > Len(ids)
      /\ req[t].op = "create"
    BY DEF StudentsListed, Finished
<1>2. PICK r : r = [req[t] EXCEPT !.at = "insert"]
    OBVIOUS
<1>3. /\ req[t] \in RequestRecord /\ Undisturbed(req[t]) /\ req[t].at = "students"
      /\ RequestSound(req[t]) /\ Holds(req[t])
      /\ Len(ids) \in Nat /\ k \in Nat \ {0} /\ ids \in Seq(Nat)
      /\ loaded \in Seq([id : Nat, course : Course, slot : Slot])
    BY <1>1, UnderWay DEF At
<1>4. /\ r.at = "insert" /\ r.op = "create" /\ r.ids = ids /\ r.since = req[t].since
    BY <1>1, <1>2, <1>3 DEF RequestRecord
<1>5. CASE NoDuplicateStudent(roster) /\ Goto(t, r)
    <2>1. ASSUME CreationChecked(req[t]), UpToDate(req[t]) PROVE CreationChecked(r)
        <3>1. RoomsShared(ids, examRooms)
            BY <1>3, <2>1 DEF CreationChecked
        <3>2. /\ Len(loaded) = Len(ids) /\ NoRepeats(ids)
              /\ \A i \in DOMAIN loaded : loaded[i].id = ids[i]
              /\ \A i \in DOMAIN loaded : exams[loaded[i].id].course = loaded[i].course
            BY <1>3, <2>1 DEF RequestSound, Reading, UpToDate
        <3>3. DOMAIN ids = DOMAIN loaded /\ \A i \in DOMAIN loaded : i < k
            <4> HIDE DEF ids, loaded, k
            <4> QED
                BY <1>1, <1>3, <3>2
        <3>4. \A i \in DOMAIN loaded : \A y \in registrations : y.course = loaded[i].course =>
                  [student |-> y.student, exam |-> loaded[i].id, course |-> y.course] \in roster
            BY <1>3, <2>1, <3>3 DEF CreationChecked, HasHeard
        <3>5. ASSUME NEW i \in DOMAIN ids, NEW j \in DOMAIN ids,
                     NEW x \in registrations, NEW y \in registrations,
                     x.course = exams[ids[i]].course, y.course = exams[ids[j]].course,
                     x.student = y.student
              PROVE  i = j
            <4> DEFINE a == [student |-> x.student, exam |-> loaded[i].id, course |-> x.course]
                       b == [student |-> y.student, exam |-> loaded[j].id, course |-> y.course]
            <4>1. a \in roster /\ b \in roster
                BY <3>2, <3>3, <3>4, <3>5
            <4>2. a.student = x.student /\ b.student = y.student
                  /\ a.exam = loaded[i].id /\ b.exam = loaded[j].id
                OBVIOUS
            <4> HIDE DEF a, b
            <4>3. a.exam = b.exam
                BY <1>5, <3>5, <4>1, <4>2 DEF NoDuplicateStudent
            <4> QED
                BY <3>2, <3>3, <3>5, <4>2, <4>3 DEF NoRepeats
        <3>6. StudentsApart(ids, exams, registrations)
            BY <3>5 DEF StudentsApart
        <3>7. LinesCurrent(r)
            BY <1>4 DEF LinesCurrent
        <3> QED
            BY <1>4, <3>1, <3>6, <3>7 DEF CreationChecked
    <2>2. Undisturbed(r)
        <3>1. LoopsBounded(r)
            BY <1>4 DEF LoopsBounded, Reading
        <3> QED
            BY <1>1, <1>3, <1>4, <2>1, <3>1 DEF Undisturbed, Holds
    <2> QED
        BY <1>1, <1>5, <2>2, MovesOnUndisturbed
<1>6. CASE Answer(t, "DuplicateStudentInSessionError")
    BY <1>1, <1>6, EndsUndisturbed
<1> QED
    BY <1>2, <1>5, <1>6 DEF StudentsListed
-----------------------------------------------------------------------------
LEMMA PlaceUndisturbed ==
    ASSUME IInv, LInv, AcceptanceHolds, NEW t \in Request, Place(t)
    PROVE  AcceptanceHolds'
<1>1. /\ UNCHANGED <<tables, importer, counters>>
      /\ At(t, "rooms") /\ req[t].op \in {"exam", "session"}
    BY DEF Place
<1>2. PICK r : r = [req[t] EXCEPT !.at = "insert", !.layout = rooms,
                          !.plan = PlanOf(req[t], rooms)]
    OBVIOUS
<1>3. req[t] \in RequestRecord /\ Undisturbed(req[t]) /\ req[t].at = "rooms"
    BY <1>1, UnderWay DEF At
<1>4. /\ r.at = "insert" /\ r.op = req[t].op /\ r.since = req[t].since
    BY <1>2, <1>3 DEF RequestRecord
<1>5. LoopsBounded(r) /\ LinesCurrent(r)
    BY <1>4 DEF LoopsBounded, LinesCurrent, Reading
<1>6. Undisturbed(r)
    BY <1>1, <1>3, <1>4, <1>5 DEF Undisturbed
<1>7. Goto(t, r) \/ \E a : Answer(t, a)
    BY <1>2 DEF Place, PlanOf
<1> QED
    BY <1>1, <1>6, <1>7, MovesOnUndisturbed, EndsUndisturbed

LEMMA WriteUndisturbed ==
    ASSUME IInv, LInv, AcceptanceHolds, NEW t \in Request, Write(t)
    PROVE  AcceptanceHolds'
<1> DEFINE next == IF req[t].op = "create" THEN NextId(sessions) ELSE NextId(generations)
<1>1. UNCHANGED <<tables, importer, counters>> /\ At(t, "insert")
    BY DEF Write
<1>2. PICK r : r = [req[t] EXCEPT !.at = "commit", !.id = next]
    OBVIOUS
<1>3. req[t] \in RequestRecord /\ Undisturbed(req[t]) /\ req[t].at = "insert"
    BY <1>1, UnderWay DEF At
<1>4. /\ r.at = "commit" /\ r.op = req[t].op /\ r.since = req[t].since
      /\ r.ids = req[t].ids
    BY <1>2, <1>3 DEF RequestRecord
<1>5. LoopsBounded(r) /\ LinesCurrent(r)
    BY <1>4 DEF LoopsBounded, LinesCurrent, Reading
<1>6. CreationChecked(req[t]) => CreationChecked(r)
    BY <1>3, <1>4, <1>5 DEF CreationChecked
<1>7. Undisturbed(r)
    BY <1>3, <1>4, <1>5, <1>6 DEF Undisturbed
<1>8. Goto(t, r)
    BY <1>2 DEF Write
<1> QED
    BY <1>1, <1>7, <1>8, MovesOnUndisturbed

\* The session that becomes visible is the one whose exams were checked.
LEMMA CommitSessionUndisturbed ==
    ASSUME IInv, LInv, AcceptanceHolds, NEW t \in Request, CommitSession(t)
    PROVE  AcceptanceHolds'
<1> DEFINE id == req[t].id
           row == [ids |-> req[t].ids,
                   since |-> [imports |-> req[t].since.imports,
                              resets |-> req[t].since.resets]]
<1>1. /\ At(t, "commit") /\ req[t].op = "create"
      /\ sessions' = WithRow(sessions, id, row)
      /\ registrations' = registrations /\ exams' = exams /\ examRooms' = examRooms
      /\ imports' = imports /\ resets' = resets
    BY DEF CommitSession, counters
<1>2. PICK r : r = [req[t] EXCEPT !.at = "respond"]
    OBVIOUS
<1>3. req[t] \in RequestRecord /\ Undisturbed(req[t]) /\ req[t].at = "commit"
    BY <1>1, UnderWay DEF At
<1>4. /\ r.at = "respond" /\ r.op = "create" /\ r.since = req[t].since
    BY <1>1, <1>2, <1>3 DEF RequestRecord
<1>5. req'[t] = r /\ \A u \in Request \ {t} : req'[u] = req[u]
    BY <1>2 DEF CommitSession, Goto, IInv, TypeOK
<1>6. row.ids = req[t].ids /\ row.since.imports = req[t].since.imports
    OBVIOUS
<1>7. id \notin DOMAIN sessions
    <2>1. id = Len(sessions) + 1 /\ sessions \in Seq(SessionRecord)
        BY <1>1 DEF IInv, IdsReserved, At, TypeOK
    <2> HIDE DEF id
    <2> QED
        BY <2>1
<1> HIDE DEF id, row
<1>8. /\ \A s \in DOMAIN sessions' :
            (s = id /\ sessions'[s] = row) \/ (s \in DOMAIN sessions /\ sessions'[s] = sessions[s])
      /\ \A s \in DOMAIN sessions : sessions'[s] = sessions[s]
    BY <1>1, <1>7 DEF WithRow
<1>9. row.since.imports = imports =>
          \/ exams = <<>>
          \/ StudentsApart(row.ids, exams, registrations) /\ RoomsShared(row.ids, examRooms)
    BY <1>1, <1>3, <1>6 DEF Undisturbed, CreationChecked
<1>10. SessionsAcceptable'
    <2> SUFFICES ASSUME NEW s \in DOMAIN sessions', sessions'[s].since.imports = imports,
                        exams # <<>>
                 PROVE  /\ StudentsApart(sessions'[s].ids, exams, registrations)
                        /\ RoomsShared(sessions'[s].ids, examRooms)
        BY <1>1 DEF SessionsAcceptable, StudentsApart, RoomsShared
    <2>1. CASE sessions'[s] = row
        BY <1>9, <2>1
    <2>2. CASE s \in DOMAIN sessions /\ sessions'[s] = sessions[s]
        BY <2>2 DEF AcceptanceHolds, SessionsAcceptable
    <2> QED
        BY <1>8, <2>1, <2>2
<1>11. ASSUME NEW s, Undisturbed(s),
              s.since.resets = resets /\ s.op = "session" /\ s.at # "session" =>
                  s.of \in DOMAIN sessions
       PROVE  Undisturbed(s)'
    <2>1. LinesCurrent(s)' <=> LinesCurrent(s)
        BY <1>1 DEF LinesCurrent, RoomsHeard
    <2>2. CreationChecked(s)' <=> CreationChecked(s)
        BY <1>1, <2>1 DEF CreationChecked, HasHeard, RoomsShared, StudentsApart
    <2>3. LoopsBounded(s)' <=> LoopsBounded(s)
        BY DEF LoopsBounded
    <2> QED
        BY <1>1, <1>8, <1>11, <2>1, <2>2, <2>3 DEF Undisturbed
<1>12. Undisturbed(r)
    <2>1. LoopsBounded(r) /\ LinesCurrent(r) /\ CreationChecked(r)
        BY <1>4 DEF LoopsBounded, LinesCurrent, CreationChecked, Reading
    <2> QED
        BY <1>3, <1>4, <2>1 DEF Undisturbed
<1>13. Undisturbed(r)'
    BY <1>4, <1>11, <1>12
<1>14. ASSUME NEW u \in Request, req'[u].at # "idle" PROVE Undisturbed(req[u])'
    <2>1. PICK s : s = req'[u]
        OBVIOUS
    <2>2. CASE u = t
        BY <1>5, <1>13, <2>2
           DEF Undisturbed, LoopsBounded, CreationChecked, LinesCurrent, RoomsHeard, HasHeard
    <2>3. CASE u # t
        <3>1. Undisturbed(s) /\ Holds(s)
            BY <1>5, <1>14, <2>1, <2>3, UnderWay DEF At
        <3>2. Undisturbed(s)'
            BY <1>11, <3>1 DEF Holds, UpToDate
        <3> QED
            BY <2>1, <3>2
               DEF Undisturbed, LoopsBounded, CreationChecked, LinesCurrent, RoomsHeard, HasHeard
    <2> QED
        BY <2>2, <2>3
<1> QED
    BY <1>10, <1>14 DEF AcceptanceHolds, At

LEMMA CommitGenerationUndisturbed ==
    ASSUME IInv, LInv, AcceptanceHolds, NEW t \in Request, CommitGeneration(t)
    PROVE  AcceptanceHolds'
<1>1. Quiet /\ req' = [req EXCEPT ![t] = Idle] /\ Idle.at = "idle"
    BY DEF CommitGeneration, Quiet, counters, Answer, Idle
<1> QED
    BY <1>1, QuietSteps
 
LEMMA CommitResetUndisturbed ==
    ASSUME IInv, LInv, AcceptanceHolds, NEW t \in Request, CommitReset(t)
    PROVE  AcceptanceHolds'
<1>1. /\ exams' = <<>> /\ sessions' = <<>> /\ resets' = resets + 1
      /\ req' = [req EXCEPT ![t] = Idle]
    BY DEF CommitReset, Answer
<1>2. SessionsAcceptable'
    BY <1>1 DEF SessionsAcceptable
<1>3. ASSUME NEW u \in Request, ~At(u, "idle")' PROVE Undisturbed(req[u])'
    <2>1. u # t /\ req'[u] = req[u]
        BY <1>1, <1>3 DEF IInv, TypeOK, At, Idle
    <2>2. ~At(u, "idle")
        BY <1>3, <2>1 DEF At
    <2>3. Undisturbed(req[u]) /\ req[u] \in RequestRecord /\ Holds(req[u])
        BY <2>2, UnderWay
    <2>4. /\ req[u].since.resets \in Nat /\ resets \in Nat
          /\ req[u].since.resets <= resets
        BY <2>3 DEF RequestRecord, Holds, RequestFits, IInv, TypeOK
    <2>5. req'[u].since.resets # resets'
        BY <1>1, <2>1, <2>4
    <2>6. LoopsBounded(req[u])'
        BY <2>1, <2>3 DEF Undisturbed, LoopsBounded
    <2> QED
        BY <1>1, <2>5, <2>6 DEF Undisturbed
<1> QED
    BY <1>2, <1>3 DEF AcceptanceHolds

\* A request that begins has read nothing yet.
LEMMA BeginUndisturbed ==
    ASSUME IInv, LInv, AcceptanceHolds, NEW t \in Request, NEW op, NEW at, NEW of, NEW ids,
           Begin(t, op, at, of, ids), at \in {"session", "exams", "insert"},
           at = "insert" => op = "reset"
    PROVE  AcceptanceHolds'
<1>1. PICK r : r = Fresh(op, at, of, ids)
    OBVIOUS
<1>2. /\ r.op = op /\ r.at = at /\ r.lines = <<>>
      /\ r.since.imports = imports /\ r.since.resets = resets
    BY <1>1 DEF Fresh
<1>3. LoopsBounded(r) /\ LinesCurrent(r)
    BY <1>2 DEF LoopsBounded, LinesCurrent, Reading
<1>4. r.op = "create" => CreationChecked(r)
    BY <1>2, <1>3 DEF CreationChecked
<1>5. Undisturbed(r)
    BY <1>2, <1>3, <1>4 DEF Undisturbed
<1>6. Quiet /\ req' = [req EXCEPT ![t] = r]
    BY <1>1 DEF Begin, Quiet, tables
<1> QED
    BY <1>5, <1>6, QuietSteps

\* Nothing is known of the requests and the sessions that began before an import.
LEMMA ImportUndisturbed ==
    ASSUME IInv, LInv, AcceptanceHolds, imports' = imports + 1,
           UNCHANGED <<sessions, req, resets>>
    PROVE  AcceptanceHolds'
<1>1. imports \in Nat /\ imports' = imports + 1
    BY DEF IInv, TypeOK
<1>2. \A s \in DOMAIN sessions : sessions[s].since.imports # imports'
    <2> SUFFICES ASSUME NEW s \in DOMAIN sessions PROVE sessions[s].since.imports # imports'
        OBVIOUS
    <2>1. sessions \in Seq(SessionRecord) /\ s \in 1..Len(sessions)
        BY DEF IInv, TypeOK
    <2>2. sessions[s] \in SessionRecord
        BY <2>1, ElementOfSeq
    <2>3. sessions[s].since.imports \in Nat /\ sessions[s].since.imports <= imports
        BY <2>2 DEF SessionRecord, LInv, RowsResolve
    <2> QED
        BY <1>1, <2>3
<1>3. SessionsAcceptable'
    BY <1>2 DEF SessionsAcceptable
<1>4. ASSUME NEW u \in Request, ~At(u, "idle") PROVE Undisturbed(req[u])'
    <2>1. Undisturbed(req[u]) /\ req[u] \in RequestRecord /\ Holds(req[u])
          /\ RequestSound(req[u])
        BY <1>4, UnderWay
    <2>2. req[u].since.imports \in Nat /\ req[u].since.imports <= imports
        BY <2>1 DEF RequestRecord, Holds, RequestFits
    <2>3. req[u].since.imports # imports'
        BY <1>1, <2>2
    <2>4. LoopsBounded(req[u])'
        BY <2>1 DEF Undisturbed, LoopsBounded
    <2>5. req[u].since.resets = resets /\ req[u].op = "session" /\ req[u].at # "session" =>
              sessions[req[u].of].since.imports # imports'
        BY <1>2, <2>1 DEF Holds, UpToDate
    <2> QED
        BY <2>3, <2>4, <2>5 DEF Undisturbed
<1> QED
    BY <1>3, <1>4 DEF AcceptanceHolds, At

LEMMA ArrivalUndisturbed ==
    ASSUME IInv, LInv, AcceptanceHolds, NEW t \in Request, Arrive(t)
    PROVE  AcceptanceHolds'
<1>1. CASE BeginCreate(t)
    <2>1. PICK ids \in ExamArgs : Begin(t, "create", "exams", 0, ids)
        BY <1>1 DEF BeginCreate
    <2> QED
        BY <2>1, BeginUndisturbed
<1>2. CASE BeginGenerate(t)
    <2>1. PICK ids \in ExamArgs : Begin(t, "exam", "exams", ids[1], ids)
        BY <1>2 DEF BeginGenerate
    <2>2. PICK e : e = ids[1]
        OBVIOUS
    <2> QED
        BY <2>1, <2>2, BeginUndisturbed
<1>3. CASE BeginGenerateSession(t)
    <2>1. PICK s \in 1..MaxRequests : Begin(t, "session", "session", s, <<>>)
        BY <1>3 DEF BeginGenerateSession
    <2> QED
        BY <2>1, BeginUndisturbed
<1>4. CASE BeginReset(t)
    <2>1. Begin(t, "reset", "insert", 0, <<>>)
        BY <1>4 DEF BeginReset
    <2> QED
        BY <2>1, BeginUndisturbed
<1>5. CASE RejectExamIds(t)
    <2>1. Quiet /\ req' = [req EXCEPT ![t] = req[t]] /\ req[t].at = "idle"
        BY <1>5 DEF RejectExamIds, Quiet, tables, At, IInv, TypeOK
    <2>2. PICK r : r = req[t]
        OBVIOUS
    <2> QED
        BY <2>1, <2>2, QuietSteps
<1> QED
    BY <1>1, <1>2, <1>3, <1>4, <1>5 DEF Arrive

LEMMA EnvironmentUndisturbed ==
    ASSUME IInv, LInv, AcceptanceHolds,
           \/ BeginImport \/ ImportRegistrations \/ ImportSchedule \/ ImportRooms
           \/ ImportFails \/ Restart \/ UNCHANGED vars
    PROVE  AcceptanceHolds'
<1>1. CASE ImportRegistrations \/ ImportSchedule \/ ImportRooms
    <2>1. imports' = imports + 1 /\ UNCHANGED <<sessions, req, resets>>
        BY <1>1 DEF ImportRegistrations, ImportSchedule, ImportRooms, EndImport
    <2> QED
        BY <2>1, ImportUndisturbed
<1>2. CASE Restart
    <2>1. /\ registrations' = registrations /\ exams' = exams /\ examRooms' = examRooms
          /\ sessions' = sessions /\ imports' = imports
        BY <1>2 DEF Restart, tables, counters
    <2>2. SessionsAcceptable'
        BY <2>1 DEF AcceptanceHolds, SessionsAcceptable, RoomsShared, StudentsApart
    <2>3. \A t \in Request : req'[t].at = "idle"
        BY <1>2 DEF Restart, Idle
    <2> QED
        BY <2>2, <2>3 DEF AcceptanceHolds, At
<1>3. CASE BeginImport \/ ImportFails \/ UNCHANGED vars
    <2>1. UNCHANGED <<tables, req, counters>>
        BY <1>3 DEF BeginImport, StartImport, ImportFails, vars
    <2> QED
        BY <2>1 DEF tables, counters, AcceptanceHolds, SessionsAcceptable, RoomsShared,
                    StudentsApart, At, Undisturbed, LoopsBounded, CreationChecked,
                    LinesCurrent, RoomsHeard, HasHeard
<1> QED
    BY <1>1, <1>2, <1>3

LEMMA StepUndisturbed ==
    ASSUME IInv, LInv, AcceptanceHolds, NEW t \in Request, Step(t)
    PROVE  AcceptanceHolds'
<1>1. CASE LoadSession(t)
    BY <1>1, LoadSessionUndisturbed
<1>2. CASE LoadSessionExams(t)
    BY <1>2, LoadSessionExamsUndisturbed
<1>3. CASE LoadExam(t)
    BY <1>3, LoadExamUndisturbed
<1>4. CASE ExamsLoaded(t)
    BY <1>4, ExamsLoadedUndisturbed
<1>5. CASE ListRooms(t)
    BY <1>5, ListRoomsUndisturbed
<1>6. CASE LookUpRooms(t)
    BY <1>6, LookUpRoomsUndisturbed
<1>7. CASE RoomsListed(t)
    BY <1>7, RoomsListedUndisturbed
<1>8. CASE ListStudents(t)
    BY <1>8, ListStudentsUndisturbed
<1>9. CASE LookUpStudents(t)
    BY <1>9, LookUpStudentsUndisturbed
<1>10. CASE StudentsListed(t)
    BY <1>10, StudentsListedUndisturbed
<1>11. CASE Place(t)
    BY <1>11, PlaceUndisturbed
<1>12. CASE Write(t)
    BY <1>12, WriteUndisturbed
<1>13. CASE LockTimeout(t)
    BY <1>13, EndsUndisturbed DEF LockTimeout
<1>14. CASE CommitSession(t)
    BY <1>14, CommitSessionUndisturbed
<1>15. CASE Respond(t)
    BY <1>15, EndsUndisturbed DEF Respond
<1>16. CASE CommitGeneration(t)
    BY <1>16, CommitGenerationUndisturbed
<1>17. CASE CommitReset(t)
    BY <1>17, CommitResetUndisturbed
<1> QED
    BY <1>1, <1>2, <1>3, <1>4, <1>5, <1>6, <1>7, <1>8, <1>9, <1>10, <1>11, <1>12,
       <1>13, <1>14, <1>15, <1>16, <1>17 DEF Step

LEMMA InitAcceptance == Init => AcceptanceHolds
<1> SUFFICES ASSUME Init PROVE AcceptanceHolds
    OBVIOUS
<1>1. PICK s \in StartStates :
          /\ exams = s.exams /\ examRooms = s.lines /\ registrations = s.registrations
          /\ sessions = s.sessions
    BY DEF Init
<1>2. \A i \in DOMAIN sessions : Accepted(s, sessions[i].ids)
    BY <1>1, ConstantsAreTyped DEF ConstantsAssumption
<1>3. SessionsAcceptable
    BY <1>1, <1>2 DEF SessionsAcceptable, Accepted
<1>4. \A t \in Request : req[t].at = "idle"
    BY DEF Init, Idle
<1> QED
    BY <1>3, <1>4 DEF AcceptanceHolds, At

LEMMA NextAcceptance == IInv /\ LInv /\ AcceptanceHolds /\ [Next]_vars => AcceptanceHolds'
<1> SUFFICES ASSUME IInv, LInv, AcceptanceHolds, [Next]_vars PROVE AcceptanceHolds'
    OBVIOUS
<1>1. ASSUME NEW t \in Request, Step(t) PROVE AcceptanceHolds'
    BY <1>1, StepUndisturbed
<1>2. ASSUME NEW t \in Request, Arrive(t) PROVE AcceptanceHolds'
    BY <1>2, ArrivalUndisturbed
<1>3. CASE \/ BeginImport \/ ImportRegistrations \/ ImportSchedule \/ ImportRooms
           \/ ImportFails \/ Restart \/ UNCHANGED vars
    BY <1>3, EnvironmentUndisturbed
<1> QED
    BY <1>1, <1>2, <1>3 DEF Next

\* What create_session has checked of a session stays true until the next import or
\* reset, and so does what a request has read of its exams' rooms.
THEOREM ChecksStayTrue == Spec => []AcceptanceHolds
<1> QED
    BY InitAcceptance, NextAcceptance, InvariantHolds, KnowledgeHolds, PTL DEF Spec

\* With no import since its creation began, and no reset since its generation did, a
\* session's exams share neither a student nor too small a room.
LEMMA StillAcceptable ==
    ASSUME IInv, LInv, AcceptanceHolds, NEW t \in Request,
           At(t, "rooms"), Finished(t), req[t].op = "session",
           req[t].since.resets = resets, ~(sessions[req[t].of].since.imports < imports)
    PROVE  NoDuplicateStudent(req[t].roster) /\ NoConflictingRoomUsage(req[t].lines)
<1> DEFINE r == req[t]
           ids == r.ids
           loaded == r.loaded
           roster == r.roster
           session == sessions[r.of]
<1>1. /\ r.at = "rooms" /\ r.op = "session" /\ r.k > Len(ids)
      /\ RequestSound(r) /\ Holds(r) /\ UpToDate(r) /\ Undisturbed(r)
      /\ r.k \in Nat \ {0} /\ Len(ids) \in Nat /\ ids \in Seq(Nat)
      /\ loaded \in Seq([id : Nat, course : Course, slot : Slot])
    BY UnderWay DEF At, Finished, Holds
<1>2. r.of \in DOMAIN sessions /\ ids = session.ids
    BY <1>1 DEF UpToDate
<1>3. /\ ids # <<>> /\ session.since.imports <= imports /\ session.since.imports \in Nat
      /\ imports \in Nat
    <2>1. sessions \in Seq(SessionRecord) /\ r.of \in 1..Len(sessions) /\ imports \in Nat
        BY <1>2 DEF IInv, TypeOK
    <2>2. session \in SessionRecord
        BY <2>1, ElementOfSeq
    <2> QED
        BY <1>2, <2>1, <2>2 DEF LInv, RowsResolve, SessionRecord
<1>4. session.since.imports = imports
    BY <1>3
<1>5. /\ Len(loaded) = Len(ids)
      /\ \A i \in DOMAIN loaded : loaded[i].id = ids[i]
      /\ \A i \in DOMAIN loaded : loaded[i].id \in DOMAIN exams
      /\ \A i \in DOMAIN loaded : exams[loaded[i].id].course = loaded[i].course
      /\ \A x \in roster : \E i \in DOMAIN loaded :
            x.exam = loaded[i].id /\ x.course = loaded[i].course
      /\ \A x \in roster : [student |-> x.student, course |-> x.course] \in registrations
    BY <1>1 DEF RequestSound, Reading, UpToDate
<1>6. DOMAIN ids = DOMAIN loaded /\ \E i : i \in DOMAIN loaded
    <2> HIDE DEF r, loaded, ids
    <2>1. DOMAIN ids = 1..Len(ids) /\ DOMAIN loaded = 1..Len(ids) /\ Len(ids) # 0
        BY <1>1, <1>3, <1>5
    <2>2. 1 \in 1..Len(ids)
        BY <1>1, <2>1
    <2> QED
        BY <2>1, <2>2
<1>7. exams # <<>>
    BY <1>5, <1>6
<1>8. StudentsApart(ids, exams, registrations) /\ RoomsShared(ids, examRooms)
    BY <1>2, <1>4, <1>7 DEF AcceptanceHolds, SessionsAcceptable
<1>9. NoConflictingRoomUsage(r.lines)
    <2>1. LinesCurrent(r)
        BY <1>1, <1>4 DEF Undisturbed
    <2>2. r.k <= Len(ids) + 1
        BY <1>1 DEF Undisturbed, LoopsBounded, Reading
    <2>3. r.k - 1 = Len(ids)
        <3>1. PICK k, n : k = r.k /\ n = Len(ids)
            OBVIOUS
        <3>2. k \in Nat /\ n \in Nat /\ k > n /\ k <= n + 1
            BY <1>1, <2>2, <3>1
        <3>3. k - 1 = n
            BY <3>2
        <3> QED
            BY <3>1, <3>3
    <2>4. r.lines = LinesFrom(examRooms, ids)[Len(ids)]
        BY <1>1, <2>1, <2>3 DEF LinesCurrent, RoomsHeard
    <2> QED
        BY <1>8, <2>4 DEF RoomsShared
<1>10. ASSUME NEW x \in roster, NEW y \in roster, x.student = y.student PROVE x.exam = y.exam
    <2>1. PICK i \in DOMAIN loaded : x.exam = loaded[i].id /\ x.course = loaded[i].course
        BY <1>5
    <2>2. PICK j \in DOMAIN loaded : y.exam = loaded[j].id /\ y.course = loaded[j].course
        BY <1>5
    <2> DEFINE a == [student |-> x.student, course |-> x.course]
               b == [student |-> y.student, course |-> y.course]
    <2>3. /\ a \in registrations /\ b \in registrations
          /\ a.course = exams[ids[i]].course /\ b.course = exams[ids[j]].course
          /\ a.student = b.student
          /\ ids[i] \in DOMAIN exams /\ ids[j] \in DOMAIN exams
        BY <1>5, <1>10, <2>1, <2>2
    <2> HIDE DEF a, b, r, ids, loaded
    <2>4. i = j
        BY <1>6, <1>8, <2>3 DEF StudentsApart
    <2> QED
        BY <2>1, <2>2, <2>4
<1>11. NoDuplicateStudent(roster)
    BY <1>10 DEF NoDuplicateStudent
<1> QED
    BY <1>9, <1>11

\* AcceptedSessionsGenerate for any number of concurrent requests, imports and resets:
\* what the creation of a session checked in reads spread over the commits of others is
\* what its generation finds, unless an import came in between.
THEOREM AcceptedStaysFit == Spec => AcceptedSessionsGenerate
<1> DEFINE Unfit(t) ==
        /\ At(t, "rooms") /\ Finished(t) /\ req[t].op = "session"
        /\ \/ reply' = <<t, "DuplicateStudentInSessionError">>
           \/ req'[t].at = "insert" /\ ~NoConflictingRoomUsage(req[t].lines)
        /\ req[t].since.resets = resets
<1>1. ASSUME NEW t \in Request, NEW u \in Request, Step(u),
             At(t, "rooms"), req[t].op = "session",
             reply' = <<t, "DuplicateStudentInSessionError">>
      PROVE  ~NoDuplicateStudent(req[t].roster)
    <2>1. reply' # NoReply
        BY <1>1 DEF NoReply
    <2>2. u = t
        BY <1>1, <2>1 DEF Step, LoadSession, LoadSessionExams, LoadExam, ExamsLoaded,
                ListRooms, LookUpRooms, RoomsListed, ListStudents, LookUpStudents,
                StudentsListed, Place, Write, LockTimeout, CommitSession, Respond,
                CommitGeneration, CommitReset, Goto, Answer
    <2>3. Place(t)
        BY <1>1, <2>1, <2>2 DEF Step, LoadSession, LoadSessionExams, LoadExam,
                ExamsLoaded, ListRooms, LookUpRooms, RoomsListed, ListStudents,
                LookUpStudents, StudentsListed, Write, LockTimeout, CommitSession, Respond,
                CommitGeneration, CommitReset, Goto, At
    <2> QED
        BY <1>1, <2>1, <2>3 DEF Place, Goto, Answer
<1>2. ASSUME NEW u \in Request, Arrive(u), NEW t
      PROVE  reply' # <<t, "DuplicateStudentInSessionError">>
    BY <1>2 DEF Arrive, BeginCreate, RejectExamIds, BeginGenerate, BeginGenerateSession,
                BeginReset, Begin, NoReply
<1>3. ASSUME BeginImport \/ ImportRegistrations \/ ImportSchedule \/ ImportRooms
               \/ ImportFails \/ Restart,
             NEW t
      PROVE  reply' # <<t, "DuplicateStudentInSessionError">>
    <2>1. reply' = NoReply
        BY <1>3 DEF BeginImport, StartImport, ImportRegistrations, ImportSchedule, ImportRooms,
                EndImport, ImportFails, Restart
    <2> QED
        BY <2>1 DEF NoReply
<1>4. ASSUME IInv, LInv, AcceptanceHolds, Next, NEW t \in Request, Unfit(t)
      PROVE  sessions[req[t].of].since.imports < imports
    <2>1. ASSUME ~(sessions[req[t].of].since.imports < imports)
          PROVE  NoDuplicateStudent(req[t].roster) /\ NoConflictingRoomUsage(req[t].lines)
        BY <1>4, <2>1, StillAcceptable
    <2>2. CASE reply' = <<t, "DuplicateStudentInSessionError">>
        <3>1. PICK u \in Request : Step(u)
            BY <1>2, <1>3, <1>4, <2>2 DEF Next
        <3>2. ~NoDuplicateStudent(req[t].roster)
            BY <1>1, <1>4, <2>2, <3>1
        <3> QED
            BY <2>1, <3>2
    <2>3. CASE ~NoConflictingRoomUsage(req[t].lines)
        BY <2>1, <2>3
    <2> QED
        BY <1>4, <2>2, <2>3
<1> DEFINE AllFit ==
        \A t \in Request :
            /\ At(t, "rooms") /\ Finished(t) /\ req[t].op = "session"
            /\ \/ reply' = <<t, "DuplicateStudentInSessionError">>
               \/ req'[t].at = "insert" /\ ~NoConflictingRoomUsage(req[t].lines)
            /\ req[t].since.resets = resets
            => sessions[req[t].of].since.imports < imports
<1>5. IInv /\ LInv /\ AcceptanceHolds /\ [Next]_vars => [AllFit]_vars
    BY <1>4
<1> QED
    BY <1>5, InvariantHolds, KnowledgeHolds, ChecksStayTrue, PTL
       DEF AcceptedSessionsGenerate, Spec
=============================================================================
