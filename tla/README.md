# Verification of the exam seating system

TLA+ models of the Exam Seating Arrangement System (`backend/app`), TLC
configurations that check them on small instances, and TLAPS proofs of the
results that should hold for every instance. The source is the reference: each
definition is translated from the lines that `PROJECT.json` ("map") names for it.

## 1. The system

A FastAPI backend over SQLite plans where students sit. A typical life:
registrations, rooms and a schedule are imported from CSV files; exams of one
slot may be combined into an *examination session*; a seating *generation* is
computed for an exam or a session, stored, and later read by reports and maps.

| Part | State | Operations | Hard in it | Correct when |
|---|---|---|---|---|
| Seat topology, rooms (`seating/topology.py`, `domain/room.py`) | none (pure) | position, adjacency, distance, usable seats | blocked seats | row and column follow from the number |
| Sequential strategy (`seating/strategies/sequential.py`) | local to a call | fill seats in order | caps per room against totals over rooms | no collision, no blocked seat, no seat wasted, flags agree |
| Constraint strategy (`seating/strategies/constraint.py`, `anti_cheating.py`, `constraints.py`) | local to a call | interleave courses, greedy scan | index into a list that shrinks, weighted sum for a lexicographic order | a permutation is seated, hard constraints hold of the whole, no one left out without reason |
| Examination sessions (`services/examination_session`) | `examination_sessions`, `session_exams` | create | check, then act; validated data goes stale | one slot, no student in two exams when generated |
| Seating generation (`services/seating_generation`) | `seating_generations`, `seat_assignments` | generate for an exam or a session | reads without a snapshot, concurrent runs | complete, append-only, up-to-date history |
| Database reset (`db/reset.py`, `api/admin.py`) | every table | delete all | requests in flight, ids reused | empty database, nothing dangling |
| Registration, schedule and room import | students, courses, registrations, exams, exam rooms, rooms | import a file | never overwrite, partial files, repeated files | idempotent, first value wins |
| Reports and seat map (`services/reports`, `reports/`) | none (reads, one `SELECT` after another) | seating list, ID ranges, seat map | rooms and blocked seats changed since the generation, commits between two reads | every stored assignment printed once, in its room, at its seat |
| Schema initialisation (`db/init_db.py`) | the schema, the server's transaction | add columns, create tables, rebuild one | statements that commit by themselves, stop between two of them | no row lost, a server that answers has the current schema, every compatible file gets its server up |
| Process scripts (`scripts/`) | PID files | start, stop | stale PIDs, two starts | at most one server |
| Login, frontend, legacy program, quality metrics | - | - | - | see "Not modelled" |

**How they interact.** Import handlers are `async def` without an `await`
between their first write and the commit, so they run one at a time on the event
loop. Session creation, generation and reset are plain `def`: each runs in a
thread of FastAPI's pool with its own database session. All meet in SQLite: a
`SELECT` sees what is committed at that moment (pysqlite opens a transaction
only for a write, so a request's reads are no snapshot), and the first write
takes the write lock until commit. Foreign keys are declared but not enforced,
and row ids are reused once the highest rows are gone.

## 2. Modules

```
SeatTopology <- SeatingPlan <- SequentialSeating <- MCSequentialSeating
     ^              ^   ^              ^---- SequentialSeatingProofs
     |              |   |              (implements SeatingContract)
AntiCheating <------|-- ConstraintSeating <- MCConstraintSeating
                    |          ^---- ConstraintSeatingProofs
                    |          (implements SeatingContract)
                    +-- SeatingLifecycle <- MCSeatingLifecycle, SeatingLifecycleProofs
                    +-- Reports <- MCReports, ReportsProofs
SeatingPlanProofs: lemmas about SeatTopology and SeatingPlan, for the other proofs

SeatTopology <- RoomConfiguration <- RoomImport <- MCRoomImport, DatabaseProofs
                                  <- SeatingLifecycle
RegistrationImport <- MCRegistrationImport, RegistrationImportProofs
ScheduleImport <- MCScheduleImport, ScheduleImportProofs
                                         (all three implement FirstValueWins)

SchemaMigration <- MCSchemaMigration, DatabaseProofs
```

* **SeatTopology** - rooms and seat geometry. A room is
  `[capacity, rows, columns, blocked]`; `rows = 0` is a room without a layout.
* **SeatingPlan** - what both strategies share: which seats may be filled
  (`Candidates`: per room the first `min(allocated, capacity, usable)` usable
  seats), the scanning order `Before`, totals, status, flags; and the vocabulary
  of the properties, which is stated in terms of capacities and blocked seats,
  not of the helpers the model uses. It also holds what the generate service does
  around a strategy, for the two modules that store generations: merging the
  allocations of a shared room (`MergedAllocations`, `AllocatedTo`) and the
  seating of a roster in the order of its sort key (`SeatingOf`, which takes how
  many come ahead of a student, `Ahead`).
* **SequentialSeating** - one call; each turn of the assignment loop is a step.
* **AntiCheating**, **ConstraintSeating** - one call; each turn of the
  interleaving loop and of the placement loop is a step. Penalties are doubled
  so that the one fractional term (`2 - sqrt 2` for a diagonal neighbour, the
  only value strictly between 0 and 1 there is) is an integer and every
  comparison of two penalties is kept. The early exit at score 0 returns the
  first seat of least score, which is what `BestSeat` says.
* **SeatingContract** - the abstract strategy: from a set of students and a pool
  of seats build a matching one pair at a time, then report a verdict that
  agrees with it. Both strategies are checked to implement it, through
  `registered`, `pool`, `placed`, `outcome` as functions of their variables.
* **SeatingLifecycle** - concurrent requests on one database. A request is a
  record of its local variables and the stage it is at. Each repository read,
  the lock, the commit and each pure check between them is a step; list and
  look-up are two steps, as in the code, because a reset can fall between them.
  An import is two steps, its start and its end, since only a reset can change what
  it reads: the start remembers the tables (`importer.seen`), and the end stores what
  the code stores if a reset in between came after any of the reads that precede the
  import's first write, registrations of removed students (`ImportRegistrations`), an
  exam without its course or a row without its exam (`StoreStrayExam`,
  `StoreStrayLine`) included. Rooms are a table: room files create them and backfill
  layouts and blocked seats under stored generations (`ImportRooms`). History
  variables say what the properties need to know of the past: `layout` is the rooms as
  a run read them, `disturbed` whether the last reset met another request or an
  import, `overtaken` whether it fell into an import of registrations or a schedule.
  Responses are named by the exception the handler ends with. Exceptions that
  the endpoint does not catch (`DuplicateStudentInSessionError` in
  `generate_session`, `AssertionError`, `IndexError`, `OperationalError`) are
  responses like the others.
* **FirstValueWins** - the abstract conflict policy of the importers: an
  identifier gets a value once and keeps it; a reset forgets everything at once.
* **RoomConfiguration** - pure: what a row of a room file makes of a room on file,
  in stages: capacity, layout, blocked seats (`Confirmed`). RoomImport and
  SeatingLifecycle share it.
* **RoomImport** - a file is parsed line by line (`RejectLine`, `RepeatLine`,
  `TakeLine`), then each room it names is created or confirmed
  (`Confirmed`, `Disagreements`).
* **RegistrationImport** - parsing with canonical names, then per row the
  student, the course and the registration, each looked up in the run's cache
  and then in what the session sees. Rows have ids, since registrations refer to
  students by id; a database reset may come between any two steps until the
  import's first write takes the lock.
* **ScheduleImport** - lines are grouped into exams (`OpenGroup`,
  `ExtendGroup`), each exam and each of its rooms is created, confirmed or
  skipped. Courses and rooms appear between imports.

* **Reports** - one report request at a time, which stands for all of them since
  reports write nothing; each of its `SELECT`s and each loop between them is a
  step. A generate request is two steps, its plan (`GenerateExam`,
  `GenerateSession`) and its commit (`Store`), so that a reset or an import can come
  between them; an import is one step, and so is a reset, which `Reload` with the same
  or another database follows. Tables are
  sequences and a row's id is its place, so a reset hands ids out again. A
  generation by the constraint strategy may store any plan with a seat each and
  no seat free while one waits (`AnySeatings`), whatever the scoring prefers. The
  databases that imports may load (`Loads`) are consistent (`LoadsAssumption`): what
  the unique constraints of the tables and the creation of a session enforce.
  After a reset that fell into a schedule import (`overtaken`) they may also hold an
  exam whose course is gone or a row whose exam is (`OvertakenLoads`). A reset that
  falls into a registration import leaves registrations of absent students, which
  makes generate requests fail (SeatingLifecycle) and so leaves reports nothing to
  report on.
* **SchemaMigration** - `disk` is the file as committed, `seen` as the server's
  connection sees it. pysqlite opens a transaction for the `INSERT` of the
  rebuild only: the rename and the `CREATE TABLE` before it commit by
  themselves, the `DROP` and the indexes after it join the transaction. One
  action per statement of `init_db()`, `Stop` anywhere (the open transaction is
  rolled back), `StoreGeneration` once the server is up.

In the import modules a file is a sequence of records of cells, and a cell is
what the parser tells apart: a value, empty, or not a number.

Definitions marked "Faulty variant" are the bugs each property was tried
against: put in place of the definition that follows them, the property named
in `PROJECT.json` ("mutants") is violated.

## 3. Runs

| Run | Bounds | What it shows |
|---|---|---|
| `sequential` | 2 rooms (1x3 with any blocked seats; 2 seats with or without a layout), 0-5 students, every allocation 0-4 of no, one or two rooms, repeats included | 10,656 calls: no collision, no blocked or surplus seat, number order, no seat wasted, every shortage has a true reason, contract implemented |
| `constraint` | 2x3 room with blocked seats and a 1x2 room, 5 students in every pattern of 3 courses, 6 in every pattern of 2; explicit sets of up to 4 hard pairs | 1,616 calls: interleaving is a permutation in course order that keeps level courses level, hard constraints, left out only for a reason, contract |
| `lifecycle` | 2 threads, 3 requests, 2 imports, 2 resets, 4 requests and imports together, restarts; three exams and a session on file, a file that blocks a seat | 765,000 states, the two threads exchanged for each other: stored generations are collision-free, on seats that were not blocked when the run read the room, complete, append-only, fresh; accepted sessions can be generated; shared rooms filled up; references resolve when the last reset met no request and no import; a handler trips only over a reset: during the request, during the creation of the session it generates, or in an import |
| `answered` | an earlier session, fewer files, 2 requests, 1 import, 1 reset, fairness | 28,000 states: every request ends |
| `room_import` | 3 imports of 1-2 line files about a room of 2 or 4 seats (plain, 1x2, 2x2, 1x4, blocked or not) and another; every header; one line per check of the parser | every stored room well formed, every disagreement reported, one pass does all, first values kept |
| `registration_import` | 2 imports, 1 reset, 2 students, 2 courses, 2 names, files of 1-3 lines, failures anywhere | first names kept, other names reported, a committed file adds exactly its registrations |
| `schedule_import` | 2 imports, 2 courses, 2 rooms, 2 slots, counts 1-2, files of 1-2 lines | stored or reported, first values kept, overflow noticed |
| `migration` | 13 past files (none, and one per schema a version left, with 0-2 generations), 3 stops, ids up to 3, fairness | no generation lost, the served schema is current, harm only by a stop within the building of a table, every compatible file gets its server up |
| `reports` | 2 databases and one that an overtaken schedule import left, 2 generations, 2 imports, 3 of both together, 1 reset, both strategies | 1.0 million states: what is printed is what is stored, single-exam ranges bound rooms, students vanish from the map only by later blocked seats, no report fails but for a reset in it, in its generation or in a schedule import |
| `generations_untouched`, `ranges_coincide`, `orthogonal_first` | as their models; one generation for `ranges_coincide`, a 3x3 room for `orthogonal_first` | the findings of section 5 |

**Why the bounds are enough.** A room needs three seats for a blocked one to
lie before, between or after usable ones, and two rooms for the caps per room
and the totals to disagree. Six students in two rows give every kind of
neighbour (row, column, diagonal, none). Two requests at a time are enough for
every check-then-act, lock and commit race between them, since a stored session
may be there from the start; a third participant is the import or the restart,
and a reset is a request of its own. The third request is there for what two that
met leave behind: a creation that a reset overtook stores a session whose exams
are gone, and only a later request to generate it fails. An import that a reset fell
into is of that kind too: it stores a registration of a removed student, and a request
that generates for its course afterwards, with no reset near it, runs into an
assertion; without the conjunct `overtaken` TLC finds that run. `MaxRequests`,
`MaxImports` and `MaxResets` bound the lifecycle, and `MaxEvents` requests and
imports together. Its threads are symmetric: no operation tells them apart. An import relates at most two earlier values of a fact (in the
file, in the database) to an incoming one: two lines and two files meet every
case, a third room file the one where layout and blocked seats each arrive on
their own. `MaxImports` and `MaxResets` bound those runs. A report reads one
generation: a second one can only disturb it, and two imports change two things
of one room, three of both together (`MaxGenerations`, `MaxImports`, `MaxEvents`,
`MaxResets`; `LateAllocation` is what a later schedule file allocates). One reset is
enough to fall into a report, between the plan and the commit of a generation, or into
a schedule import. A start is cut short at most once per
statement that commits by itself, and the third stop meets a file that two of
them shaped; two past generations and one new one are enough for a key to be
handed out again (`MaxStops`, `MaxGenerations`).

Deadlock checking is off for the strategy, import, migration and report runs,
where a call that has returned, the last import allowed, or a start that found an
incompatible file stops. It is on in the lifecycle.

**Fairness.** Two runs use it. `answered`: `WF` on each thread's own steps, that
is, the operating system schedules every thread that can run. A thread that
waits for the lock can always go on, with the lock or with the timeout. Imports,
arrivals, resets and restarts are not fair. `migration`: `WF` on `Start` and on
the statements of a start, because the process manager (PM2) starts a server
again that has ended and a start that runs goes on; stops are not fair, and the
bound on them makes them end.

## 4. Proofs

`SeatingPlanProofs` holds lemmas on candidate seats: a nonempty set of
candidates has a first element in scanning order (`FirstOfIsMember`, from the
least-number principle), a candidate is a seat of a listed room, two
candidates of distinct rooms never denote the same seat (`CandidateIdentity`),
and the seats a room offers are exactly `min(n, usable)` many
(`FirstSeatsBounded`, `FirstSeatsExact`, by the cardinality theorems of the
library). From these follow, for both strategies, that seatings made of distinct
candidates keep to capacities, blocked seats and allocations
(`LimitsOfCandidates`) and that a call with every candidate taken has filled
every room (`AllTakenMeansFull`). For the plan a generation request stores it
shows that the seats and the students chosen in order are sequences without
repeats (`ChosenIsSequence`, `PlacesDiffer`), that their pairing is a sound
seating (`SeatingOfSound`) and that a plan which leaves a student out has used
every candidate (`ShortPlanUsesAll`, `RoomFilled`). Totals are folds over sets,
defined by recursion on subsets; `SumEquation` shows, by the least-number principle
on the size of the subset, that the fold exists and unfolds one element at a time, and `CandidatesCounted` that there are as many
candidate seats as the targets of the rooms add up to.

`SequentialSeatingProofs` proves, for every set of calls that satisfies
`CallsAssumption` (distinct students, well-formed rooms):

* `TypeCorrect`: `Spec => []TypeOK`,
* `NeverDoubleSeated`: `Spec => []NoDoubleSeating`,
* `AlwaysInStudentOrder`: `Spec => []SeatedInStudentOrder`,
* `AlwaysWithinLimits`: `Spec => []SeatsWithinLimits`,
* `NeverWastesASeat`: `Spec => []NoSeatWasted`,
* `ShortageAlwaysExplained`: `Spec => []ShortageExplained`,
* `SequentialImplementsContract`: `Spec => Contract!Spec`.

`NoDoubleSeating` is not inductive: a step appends a seat of `open`, and nothing
in the property says that `open` avoids the seats handed out. `IInv` adds what
the loop keeps: `open` only holds candidates of distinct rooms, the i-th record
seats the i-th student, and its seat is a candidate no longer in `open`. Each
action preserves it; `SeatNext` is the only one with work to do. Two further
invariants build on it: `SeatsTakenInOrder` (every seat handed out comes before
all of `open`) gives the order, and `SeatsAccounted` (a candidate is open or
taken, and a call returns only when students or seats have run out) gives that no
seat is wasted. With the flags that `Return` computes (`FlagsAreSummary`) it also
explains a shortage: a call that leaves someone out has used every candidate, so
the rooms' targets add up to fewer than the students, and when no two rooms
disagree on which is the smaller of allocation and usable seats, that sum is one of
the two totals the flags compare (`TotalsExplain`). The limits follow from `IInv` and the lemmas on how many seats a
room offers. The refinement maps every `SeatNext` to `Place` and `Return` to `Conclude`.

`ConstraintSeatingProofs` proves the properties of the `constraint` run for
every set of calls that satisfies the same assumption about
them, whatever the penalties are (`PenaltyNatural` is all it uses of them):

* `TypeCorrect`: `Spec => []TypeOK`,
* `EveryoneIsAccountedFor`: `Spec => []EveryoneAccountedFor`,
* `NoOneLeftOutWithoutReason`: `Spec => []LeftOutForGoodReason`,
* `HardConstraintsAlwaysHold`: `Spec => []HardConstraintsHold`,
* `NeverOverTheLimits`: no seat twice, none blocked or out of reach, no room over
  its allocation,
* `SingleCourseStaysInOrder`: `Spec => []SingleCourseSeatedInOrder`,
* `LevelStaysLevel`: `Spec => LevelCoursesStayLevel`,
* `ConstraintImplementsContract`: `Spec => Contract!Spec`.

`IInv` has one part per thing the two loops keep: the turns taken so far and the
students still waiting partition the argument list (`TurnsAccounted`), the
ordered list is a permutation of it once placement starts (`OrderDrawn`), the
seatings, the left out and the seats remaining account for students and
candidates (`SeatsAccounted`), and no pair seated so far breaks a hard constraint
(`CollisionFree`). Someone waits while turns are left (`SomeoneWaits`), so the
interleaving always has a next student (`NextInTurnWaits`). That a student was
left out for a reason is not inductive over `acceptable seats at the time`;
what saves it is that seating more students never makes a seat acceptable again
(`AcceptableShrinks`).

`DatabaseProofs` proves of room import, for every set of files that satisfies
`FilesAssumption`:

* `TypeCorrect`: `Spec => []TypeOK`,
* `AlwaysWellFormed`: `Spec => []RoomsWellFormed`,
* `FirstValuesAreKept`: `Spec => Policy!Spec`,
* `DisagreementsReported`: `Spec => []EveryDisagreementReported`,
* `OnePassIsEnough`: `Spec => []SecondPassChangesNothing`.

The invariant says that the committed table, the session's view and the parsed
rows are all well formed and that the view extends the table: whatever the table
knows of a room, the view has unchanged. `ConfirmedKeeps` is the heart: applying
a well-formed row to a well-formed room in stages gives a well-formed room with
every fact the room had. The commit then is a `Learn` step, all others stutter.
The last two theorems need a second invariant, `LInv`: every line read is
reported or has a row of the same content opened no later than it, rows are about
distinct rooms, and a row that was applied has nothing left to give, with what was
not taken reported (`RowApplied`). `ConfirmedSettles` shows that of one row; the
rows after it are about other rooms and leave it alone.

The same module proves of the start of the server, for every set of past files that
satisfies
`PastAssumption` and all natural bounds:

* `MigrationTypeCorrect`: `MigrationSpec => []MigrationTypeOK`,
* `NothingIsForgotten`: `MigrationSpec => []NothingForgotten`,
* `ServedSchemaIsCurrent`: `MigrationSpec => []ServedSchemaCurrent`,
* `OnlyInterruptionHides`: `MigrationSpec => []HiddenOnlyByInterruption`.

None of the three is inductive: what a statement may assume depends on the ones
before it in the same start and on what earlier starts left. `MigrationInv` says what
the open transaction has done to the file (`Transaction`), where the generations
are (`Kept`), what each stage of a start has reached (`Reached`), and, as long as
no start was cut short while it built a table, that the renamed copy exists only
during the rebuild and every index is in its place (`Undisturbed`).

`SeatingLifecycleProofs` proves, for any number of threads, requests, imports,
resets and restarts:

* `TypeCorrect`: `Spec => []TypeOK`,
* `NeverCollide`: `Spec => []GenerationsNeverCollide`,
* `CountsMatch`: `Spec => []CountsMatchRows`,
* `HistoryKept`: `Spec => HistoryAppendOnly`,
* `ReferencesHold`: `Spec => []ReferencesResolve`,
* `ResetsAloneBreak`: `Spec => OnlyResetsBreakRequests`,
* `RostersStayFresh`: `Spec => RostersFresh`,
* `SharedRoomsFilled`: `Spec => []SharedAllocationsHonoured`,
* `AcceptedStaysFit`: `Spec => AcceptedSessionsGenerate`.

The properties speak of what is stored or answered and say nothing about requests
in flight, so none is inductive. Three invariants carry them.

`IInv` is what holds whatever resets do: a request about to commit holds the lock
and its row's id is still the next one (`IdsReserved`: this is where the lock is
needed, and why no commit overwrites a row), the local variables of every request
agree with each other and the plan it computed is sound for the roster it read
(`RequestsSound`), and every stored assignment belongs to a generation
(`TablesSound`). That a roster's sort keys differ (`AheadDiffers`,
`RosterDistinct`) makes the order of students a sequence; it holds because a
session's exams do not repeat. `SharedRoomsFilled` needs no more than this and the
lemmas on plans.

`LInv` (`KnowledgeHolds`) is what a request knows as long as no reset was committed
since it began: the exams, rooms and students it read are on file, its roster holds
everyone who was registered when it began and no one who is not now. It says the same of a stored
session as long as no reset was committed since its creation began, which is why a
session row carries that moment; of an import, as long as no reset has fallen into it
(`ImportsCurrent`); and of the stored rows, that those imports wrote refer to rows on
file unless the last reset fell into an import (`FilesResolve`), and all do unless it
met another request either (`HistoryResolves`). A read that finds nothing contradicts it: that is
`ResetsAloneBreak`. It also gives `ReferencesHold` and `RostersStayFresh`.

`AcceptanceHolds` (`ChecksStayTrue`) is the check of a creation kept alive until the
next import: what `create_session` has verified so far of its exams is true of the
tables, then of the stored session, and then of the lines and roster a generate
request collects from it, as long as no import and no reset came in between.

`RegistrationImportProofs` proves, for every set of files that satisfies
`FilesAssumption`, with failures and resets between any two steps:

* `TypeCorrect`: `Spec => []TypeOK`,
* `DisagreementsReported`: `Spec => []EveryDisagreementReported`,
* `CommitIsExact`: `Spec => CommitAddsTheFile`,
* `FirstValuesAreKept`: `Spec => FirstValuesKept`.

`IInv` says that the session's view extends the committed tables once the write
lock is held (`ViewExtends`), that the parsed rows are the lines read, under
their canonical names (`LinesRead`), and that the rows resolved are in the run's
cache (`RowsResolved`). As long as no reset came in between, the cache names rows
the view has (`CacheSound`) and exactly the earlier rows' pairs were added to
the registrations (`RowsRegistered`). The last needs that a new row's id is larger
than every id in use (`NewIdIsNew`): a reused id would hand a student the
registrations of another.

`ScheduleImportProofs` proves, for every set of files that satisfies
`FilesAssumption`:

* `TypeCorrect`: `Spec => []TypeOK`,
* `NothingIsDropped`: `Spec => []NothingDropped`,
* `DisagreementsReported`: `Spec => []EveryDisagreementReported`,
* `OverflowIsNoticed`: `Spec => []OverflowNoticed`,
* `FirstValuesAreKept`: `Spec => FirstValuesKept`.

The properties relate a line of the file to the tables after the commit, two
passes later. `GroupsSound` takes the first pass: every valid line read is in a
group and has a row in it, opened no later than the line, and what it says
against them was reported. `ImportSound` takes the second: the groups and rows
before the one at hand are stored and agree with what is stored, or have an
error. `TablesSound` says that the view extends the tables and refers to known
courses and rooms only. A step only ever adds to the view, the reports and the
warnings (`Gains`), so what was imported stays imported; in the end the
agreements chain from the line over its group to the table (`AgreesChain`).

`ReportsProofs` proves, for every database `Loads` may hold, both strategies, any
layouts, blocked seats and allocations, and any number of generations, imports and
resets:

* `TypeCorrect`: `Spec => []TypeOK`,
* `Invariant`: `Spec => []IInv`,
* `ReportsWork`: `Spec => []OnlyResetBreaksReports`,
* `AssignmentsPrinted`: `Spec => []EveryAssignmentPrintedOnce`,
* `RangesBound`: `Spec => []RangesBoundRooms`,
* `VanishedWasBlockedLater`: `Spec => []VanishedOnlyIfBlockedLater`.

All four properties speak of a report that was sent, and none is inductive. `IInv`
has two halves. `TablesSound` is about what is stored, `RunSound` the same of what a
generate request is about to store, as long as no reset came after its plan: an assignment is to a seat of
a room that one of its generation's exams uses, a seat that was not blocked then
(`RowSound`), to which no one else is assigned (`OwnSeat`); and of a single exam's
generation the numbers ascend with the rooms in the order of the exam's lines and
with the seats (`InOrder`). A generate step establishes this from what the two
strategies promise (`SequentialSeatedWell`, `ConstraintSeatedWell`), the merging of
shared rooms included (`LinesFromSound`, `MergedFit`); a backfill or a new line only
adds to the facts it rests on. `ReportSound` is what a report in progress has read,
as long as it is `Untouched` by resets - none since it was asked for, none between the
plan and the commit of its generation, and the last one not in a schedule import: its rows and exams are
those on file (`Started`), each room in use is listed once or still to come
(`ListsRooms`), and the pages of a seat map are those of the rooms before the one at
hand (`Draws`). That others cannot disturb a report is one lemma
(`GrownKeepsReport`): each of their steps but a reset leaves its generation alone and
only adds rooms to exams and blocked seats to rooms. From `IInv`, `ReportAnswered`
shows, one case per action, that an error branch is taken only after a reset, or for
a generation that had no assignments, and that what is sent is right
(`ListAnswers`, `MapAnswers`; `Answered` collects it). The ID ranges need both orders
of `InOrder`: that of the seats for the two ends of a range (`RangeEnds`), that of
the rooms for the ranges to be apart (`RangesOfOneExam`).

`Loads` is what imports leave behind and `OvertakenLoads` what they may leave after a
reset fell into one, so the theorems rest on `LoadsAssumption`; of the latter it only
asks what the unique constraints enforce, not that a reference resolves. TLC evaluates
it for the databases of the run.

**Model-checked only:** `EventuallyServed` and `EveryRequestAnswered` are liveness,
which is out of the prover's reach. Every safety property the passing runs check is
also proved. `MCReports` checks four of them on two databases, and the mutants show
that each of the four can fail there.

## 5. Findings

All are places where a comment and the code disagree.

1. A start that is stopped between the rename and the commit of the copied rows
   leaves every old generation in the renamed table, and no later start looks
   there (`db/init_db.py:145`; its docstring, lines 41-43, says no generation is
   touched or invalidated).
2. The ID range of a room is taken from its smallest and largest seat
   (`services/reports/service.py:217`); `reports/ranges_report.py:14-17` says
   seat order and number order coincide within a room. For a session they do not.
3. Diagonal neighbours add up (`seating/anti_cheating.py:55`): three of them
   outweigh an orthogonal one, although lines 46-54 say fewer orthogonal
   neighbours always win.

## 6. Not modelled, and limits

* Process scripts: PID files and operating system processes; what a PID means is
  not the repository's. The models keep what matters of them: the server may be
  stopped at any step and started again.
* The administrator login: a pure check of a signed cookie against a clock.
  Frontend pages only call the endpoints. The legacy program is superseded and
  the quality metrics are used by tests only.
* Warnings, formatting, PDF drawing, pagination: no property is about them.
* In the lifecycle, an import is its start and its end (their own modules take them
  apart); room files agree on a room's capacity; a run reads the layouts of all its
  rooms at once, right before its first write; and the ids of students, courses and
  rooms stay the same across a reset; a commit that waits for a reader is not distinguished from one
  that does not. The strategy is the sequential one, which both endpoints
  accept; the constraint strategy differs in which seats of the same pool it
  takes, and is checked against the same contract.
* In Reports, a generate request reads everything at once and commits later, one at a
  time (SeatingLifecycle takes requests apart and lets them meet); an import and a
  reset are one step each, and the imports after a reset are one more. Student
  numbers, which sort by length and text, are integers in that order.
* In SchemaMigration, what the rename does to the text of `seat_assignments`'
  foreign key is left out: nothing enforces it.
* RoomImport and ScheduleImport have no reset in the middle of an import; what one
  may leave behind is in SeatingLifecycle.
* Dates and times of the schedule are one `slot`; day labels and the
  created/existing counters of schedule import are left out.
* Two hazards have no property: exams of one slot that are generated one by one
  may fill a shared room twice, which no document or test of the repository
  rules out; and stale PID files, see above.

## 7. Plan

1. *(done)* strategies, contract, lifecycle.
2. *(done)* `RoomImport`, `RegistrationImport`, `ScheduleImport` and their
   abstract policy `FirstValueWins`.
3. *(done)* `Reports`, `SchemaMigration`; every property of the strategies
   proved.
4. *(done)* Theorems: every property of the three imports with their
   refinement of FirstValueWins; every safety property of SequentialSeating and
   SeatingLifecycle.
5. *(done)* Theorems: every property of SchemaMigration's safety and of Reports,
   whose lists are written without recursion for it.
6. *(done)* Room tables that imports backfill, and resets that fall into imports
   and generations, in SeatingLifecycle and Reports.
7. The lifecycle with the constraint strategy; several generate requests at a time in
   Reports. The process scripts are not worth a model.
