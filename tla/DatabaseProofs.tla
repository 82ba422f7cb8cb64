--------------------------- MODULE DatabaseProofs ---------------------------
(***************************************************************************)
(* Two components that change the stored file each in its own way.         *)
(*                                                                         *)
(* Room import keeps every stored room well formed and every stored value, *)
(* reports whatever it does not take and needs one pass over a file, for   *)
(* every set of files and any number of imports.                           *)
(*                                                                         *)
(* The start of the server loses no generation and serves the current      *)
(* schema, for every set of past files and any number of stops, and does   *)
(* harm only when it is cut short while it builds a table.                 *)
(***************************************************************************)
EXTENDS RoomImport, SchemaMigration, TLAPS, SequenceTheorems

WellFormedTable(t) == \A c \in DOMAIN t : WellFormedRoom(t[c])

\* Table t knows all that table s knows.
Extends(s, t) ==
    \A c \in DOMAIN s :
        /\ c \in DOMAIN t
        /\ t[c].capacity = s[c].capacity
        /\ HasTopology(s[c]) => HasTopology(t[c]) /\ SameLayout(s[c], t[c])
        /\ s[c].blocked # {} => t[c].blocked = s[c].blocked

\* The inductive invariant.
IInv ==
    /\ TypeOK
    /\ phase = "parsing" => file \in Files
    /\ \A k \in DOMAIN parsed : WellFormedRoom(parsed[k].room)
    /\ WellFormedTable(work)
    /\ WellFormedTable(rooms)
    /\ Extends(rooms, work)

\* A valid line describes a room that the Room entity accepts.
LEMMA ValidLine ==
    ASSUME NEW f, f \in Files, NEW i \in DOMAIN f.lines, LineValid(f, f.lines[i])
    PROVE  /\ f.lines[i].code \in Code
           /\ RoomOf(f, f.lines[i]) \in RoomRecord
           /\ WellFormedRoom(RoomOf(f, f.lines[i]))
<1> DEFINE l == f.lines[i]
<1>1. l \in Line /\ f.layoutColumns \in BOOLEAN /\ f.blockedColumn \in BOOLEAN
    <2>1. f.lines \in Seq(Line) /\ i \in 1..Len(f.lines)
        BY FilesAreTyped DEF FilesAssumption
    <2> QED
        BY <2>1, FilesAreTyped, ElementOfSeq DEF FilesAssumption
<1> HIDE DEF l
<1>2. LineValid(f, l)
    BY DEF l
<1>3. /\ l.code \in Code /\ l.capacity \in Nat
      /\ RowsOf(f, l) \in Nat /\ ColumnsOf(f, l) \in Nat
      /\ l.blocked \in SUBSET Nat
    BY <1>1, <1>2 DEF LineValid, Line, Bad, RowsOf, ColumnsOf
<1>4. RoomOf(f, l) \in RoomRecord
    BY <1>3 DEF RoomOf, RoomRecord
<1>5. WellFormedRoom(RoomOf(f, l))
    BY <1>2, <1>3 DEF RoomOf, WellFormedRoom, HasTopology, LineValid
<1> QED
    BY <1>3, <1>4, <1>5 DEF l

\* Confirming a row for a known room keeps what is known and what it needs.
LEMMA ConfirmedKeeps ==
    ASSUME NEW old \in RoomRecord, WellFormedRoom(old),
           NEW new \in RoomRecord, WellFormedRoom(new)
    PROVE  /\ Confirmed(old, new) \in RoomRecord
           /\ WellFormedRoom(Confirmed(old, new))
           /\ Confirmed(old, new).capacity = old.capacity
           /\ HasTopology(old) =>
                  /\ HasTopology(Confirmed(old, new))
                  /\ SameLayout(old, Confirmed(old, new))
           /\ old.blocked # {} => Confirmed(old, new).blocked = old.blocked
<1> DEFINE room == Confirmed(old, new)
<1>1. room \in RoomRecord
    BY DEF Confirmed, RoomRecord
<1>2. room.capacity = old.capacity
    BY DEF Confirmed
<1>3. /\ room.rows = IF BackfillsLayout(old, new) THEN new.rows ELSE old.rows
      /\ room.columns = IF BackfillsLayout(old, new) THEN new.columns ELSE old.columns
      /\ room.blocked = IF BackfillsBlocked(old, new) THEN new.blocked ELSE old.blocked
    BY DEF Confirmed
<1>4. ASSUME BackfillsBlocked(old, new)
      PROVE  new.capacity = old.capacity /\ HasTopology(room)
    <2>1. HasTopology(new)
        BY <1>4 DEF BackfillsBlocked, WellFormedRoom
    <2>2. CASE BackfillsLayout(old, new)
        BY <1>3, <2>1, <2>2 DEF BackfillsLayout, HasTopology
    <2>3. CASE ~BackfillsLayout(old, new)
        <3>1. HasTopology(old) /\ SameLayout(old, new)
            BY <1>4, <2>1, <2>3 DEF BackfillsBlocked, LayoutConfirmed, StatesLayout
        <3>2. old.rows * old.columns = old.capacity /\ new.rows * new.columns = new.capacity
            BY <2>1, <3>1 DEF WellFormedRoom
        <3> QED
            BY <1>3, <2>3, <3>1, <3>2 DEF SameLayout, HasTopology
    <2> QED
        BY <2>2, <2>3
<1>5. WellFormedRoom(room)
    <2>1. CASE BackfillsLayout(old, new)
        <3>1. new.capacity = old.capacity
            BY <2>1 DEF BackfillsLayout
        <3>2. room.rows = new.rows /\ room.columns = new.columns
            BY <1>3, <2>1
        <3> QED
            BY <1>2, <1>3, <1>4, <2>1, <3>1, <3>2
               DEF WellFormedRoom, HasTopology, BackfillsLayout, StatesLayout
    <2>2. CASE ~BackfillsLayout(old, new)
        <3>1. room.rows = old.rows /\ room.columns = old.columns
            BY <1>3, <2>2
        <3> QED
            BY <1>2, <1>3, <1>4, <3>1 DEF WellFormedRoom, HasTopology
    <2> QED
        BY <2>1, <2>2
<1>6. HasTopology(old) => HasTopology(room) /\ SameLayout(old, room)
    BY <1>3 DEF BackfillsLayout, HasTopology, SameLayout
<1>7. old.blocked # {} => room.blocked = old.blocked
    BY <1>3 DEF BackfillsBlocked
<1> QED
    BY <1>1, <1>2, <1>5, <1>6, <1>7

LEMMA InitIInv == Init => IInv
<1> SUFFICES ASSUME Init PROVE IInv
    OBVIOUS
<1> USE DEF Init
<1>1. TypeOK
    <2>1. 0 \in 0..MaxImports
        BY FilesAreTyped DEF FilesAssumption
    <2>2. IsRoomTable(<< >>)
        BY DEF IsRoomTable
    <2>3. parsed \in Seq([line : Nat, code : Code, room : RoomRecord])
        BY EmptySeq
    <2> QED
        BY <2>1, <2>2, <2>3 DEF TypeOK
<1>2. DOMAIN rooms = {} /\ DOMAIN work = {} /\ DOMAIN parsed = {}
    OBVIOUS
<1> QED
    BY <1>1, <1>2 DEF IInv, WellFormedTable, Extends

LEMMA BeginImportKeeps == IInv /\ BeginImport => IInv'
<1> SUFFICES ASSUME IInv, BeginImport PROVE IInv'
    OBVIOUS
<1> USE DEF BeginImport
<1>1. TypeOK'
    <2>1. imports' \in 0..MaxImports
        BY FilesAreTyped DEF IInv, TypeOK, FilesAssumption
    <2>2. parsed' \in Seq([line : Nat, code : Code, room : RoomRecord])
        BY EmptySeq
    <2> QED
        BY <2>1, <2>2 DEF IInv, TypeOK
<1>2. DOMAIN parsed' = {}
    OBVIOUS
<1>3. Extends(rooms, work)'
    BY DEF Extends, SameLayout
<1> QED
    BY <1>1, <1>2, <1>3 DEF IInv, WellFormedTable

LEMMA TakeLineKeeps == IInv /\ TakeLine => IInv'
<1> SUFFICES ASSUME IInv, TakeLine PROVE IInv'
    OBVIOUS
<1> USE DEF TakeLine, Parsing
<1> DEFINE l == file.lines[next]
           row == [line |-> next, code |-> l.code, room |-> RoomOf(file, l)]
           Rows == [line : Nat, code : Code, room : RoomRecord]
<1>1. file \in Files /\ next \in DOMAIN file.lines /\ next \in Nat
    <2>1. file \in Files /\ next \in Nat \ {0}
        BY DEF IInv, TypeOK
    <2>2. file.lines \in Seq(Line)
        BY <2>1, FilesAreTyped DEF FilesAssumption
    <2> QED
        BY <2>1, <2>2
<1>2. /\ l.code \in Code /\ RoomOf(file, l) \in RoomRecord
      /\ WellFormedRoom(RoomOf(file, l))
    BY <1>1, ValidLine
<1>3. row \in Rows
    BY <1>1, <1>2
<1>4. parsed \in Seq(Rows) /\ parsed' = Append(parsed, row)
    BY DEF IInv, TypeOK
<1>5. /\ parsed' \in Seq(Rows)
      /\ DOMAIN parsed' = 1..(Len(parsed) + 1)
      /\ DOMAIN parsed = 1..Len(parsed)
      /\ parsed'[Len(parsed) + 1] = row
      /\ \A k \in 1..Len(parsed) : parsed'[k] = parsed[k]
    BY <1>3, <1>4
<1>6. \A k \in DOMAIN parsed' : WellFormedRoom(parsed'[k].room)
    <2> SUFFICES ASSUME NEW k \in 1..(Len(parsed) + 1)
                 PROVE  WellFormedRoom(parsed'[k].room)
        BY <1>5
    <2>1. CASE k = Len(parsed) + 1
        BY <1>2, <1>5, <2>1
    <2>2. CASE k \in 1..Len(parsed)
        BY <1>5, <2>2 DEF IInv
    <2> QED
        BY <1>4, <2>1, <2>2, LenProperties
<1>7. TypeOK'
    BY <1>1, <1>5 DEF IInv, TypeOK
<1> QED
    BY <1>6, <1>7 DEF IInv, WellFormedTable, Extends

\* The row the service is at.
LEMMA RowAtHand ==
    ASSUME IInv, next <= Len(parsed)
    PROVE  /\ parsed[next].code \in Code
           /\ parsed[next].room \in RoomRecord
           /\ WellFormedRoom(parsed[next].room)
<1> DEFINE Rows == [line : Nat, code : Code, room : RoomRecord]
<1>1. parsed \in Seq(Rows) /\ next \in Nat \ {0}
    BY DEF IInv, TypeOK
<1>2. next \in 1..Len(parsed) /\ DOMAIN parsed = 1..Len(parsed)
    BY <1>1
<1>3. parsed[next] \in Rows
    <2> HIDE DEF Rows
    <2> QED
        BY <1>1, <1>2, ElementOfSeq
<1> QED
    BY <1>2, <1>3 DEF IInv

LEMMA ConfirmRoomKeeps == IInv /\ ConfirmRoom => IInv'
<1> SUFFICES ASSUME IInv, ConfirmRoom PROVE IInv'
    OBVIOUS
<1> USE DEF ConfirmRoom
<1> DEFINE row == parsed[next]
           old == work[row.code]
<1>2. WellFormedRoom(row.room) /\ row.room \in RoomRecord /\ row.code \in Code
    BY RowAtHand
<1>3. /\ old \in RoomRecord /\ WellFormedRoom(old) /\ row.code \in DOMAIN work
      /\ work \in [DOMAIN work -> RoomRecord]
    BY DEF IInv, TypeOK, IsRoomTable, WellFormedTable
<1> DEFINE fresh == Confirmed(old, row.room)
<1>4. /\ fresh \in RoomRecord /\ WellFormedRoom(fresh)
      /\ fresh.capacity = old.capacity
      /\ HasTopology(old) => HasTopology(fresh) /\ SameLayout(old, fresh)
      /\ old.blocked # {} => fresh.blocked = old.blocked
    BY <1>2, <1>3, ConfirmedKeeps
<1>5. /\ DOMAIN work' = DOMAIN work
      /\ work'[row.code] = fresh
      /\ \A c \in DOMAIN work \ {row.code} : work'[c] = work[c]
      /\ work' \in [DOMAIN work -> RoomRecord]
    BY <1>3, <1>4
<1> HIDE DEF fresh, old, row
<1>6. TypeOK'
    BY <1>5 DEF IInv, TypeOK, IsRoomTable
<1>7. WellFormedTable(work)'
    BY <1>4, <1>5 DEF IInv, WellFormedTable
<1>8. Extends(rooms, work)'
    <2> SUFFICES ASSUME NEW c \in DOMAIN rooms
                 PROVE  /\ c \in DOMAIN work'
                        /\ work'[c].capacity = rooms[c].capacity
                        /\ HasTopology(rooms[c]) =>
                               HasTopology(work'[c]) /\ SameLayout(rooms[c], work'[c])
                        /\ rooms[c].blocked # {} => work'[c].blocked = rooms[c].blocked
        BY DEF Extends
    <2>1. /\ c \in DOMAIN work
          /\ work[c].capacity = rooms[c].capacity
          /\ HasTopology(rooms[c]) => HasTopology(work[c]) /\ SameLayout(rooms[c], work[c])
          /\ rooms[c].blocked # {} => work[c].blocked = rooms[c].blocked
        BY DEF IInv, Extends
    <2>2. CASE c = row.code
        BY <1>4, <1>5, <2>1, <2>2 DEF old, SameLayout
    <2>3. CASE c # row.code
        BY <1>5, <2>1, <2>3
    <2> QED
        BY <2>2, <2>3
<1> QED
    BY <1>6, <1>7, <1>8 DEF IInv, WellFormedTable

LEMMA CreateRoomKeeps == IInv /\ CreateRoom => IInv'
<1> SUFFICES ASSUME IInv, CreateRoom PROVE IInv'
    OBVIOUS
<1> USE DEF CreateRoom
<1> DEFINE row == parsed[next]
<1>2. WellFormedRoom(row.room) /\ row.room \in RoomRecord /\ row.code \in Code
    BY RowAtHand
<1>3. row.code \notin DOMAIN work /\ work \in [DOMAIN work -> RoomRecord]
    BY DEF IInv, TypeOK, IsRoomTable
<1>4. /\ DOMAIN work' = DOMAIN work \cup {row.code}
      /\ work'[row.code] = row.room
      /\ \A c \in DOMAIN work : work'[c] = work[c]
      /\ work' \in [DOMAIN work' -> RoomRecord]
    BY <1>2, <1>3
<1> HIDE DEF row
<1>5. TypeOK'
    BY <1>2, <1>4 DEF IInv, TypeOK, IsRoomTable
<1>6. WellFormedTable(work)'
    BY <1>2, <1>4 DEF IInv, WellFormedTable
<1>7. Extends(rooms, work)'
    BY <1>4 DEF IInv, Extends
<1> QED
    BY <1>5, <1>6, <1>7 DEF IInv, WellFormedTable

LEMMA NextKeepsIInv == IInv /\ [Next]_vars => IInv'
<1> SUFFICES ASSUME IInv, [Next]_vars PROVE IInv'
    OBVIOUS
<1> USE DEF IInv, WellFormedTable
<1>1. CASE BeginImport
    BY <1>1, BeginImportKeeps
<1>2. CASE RejectFile
    BY <1>2 DEF RejectFile, TypeOK, Extends
<1>3. CASE RejectLine
    BY <1>3 DEF RejectLine, TypeOK, Extends
<1>4. CASE RepeatLine
    BY <1>4 DEF RepeatLine, TypeOK, Extends
<1>5. CASE TakeLine
    BY <1>5, TakeLineKeeps
<1>6. CASE EndOfFile
    BY <1>6 DEF EndOfFile, TypeOK, Extends
<1>7. CASE ConfirmRoom
    BY <1>7, ConfirmRoomKeeps
<1>8. CASE CreateRoom
    BY <1>8, CreateRoomKeeps
<1>9. CASE Commit
    BY <1>9 DEF Commit, TypeOK, Extends, SameLayout
<1>10. CASE Abandon
    BY <1>10 DEF Abandon, TypeOK, Extends, SameLayout
<1>11. CASE UNCHANGED vars
    BY <1>11 DEF vars, TypeOK, Extends
<1> QED
    BY <1>1, <1>2, <1>3, <1>4, <1>5, <1>6, <1>7, <1>8, <1>9, <1>10, <1>11 DEF Next

\* The importer keeps its invariant, line after line and row after row.
THEOREM InvariantHolds == Spec => []IInv
BY InitIInv, NextKeepsIInv, PTL DEF Spec

\* The tables, the parsed rows and the counters keep their types.
THEOREM TypeCorrect == Spec => []TypeOK
<1>1. IInv => TypeOK
    BY DEF IInv
<1> QED
    BY <1>1, InvariantHolds, PTL

\* Every stored room is one the Room entity accepts, after any sequence of files.
THEOREM AlwaysWellFormed == Spec => []RoomsWellFormed
<1>1. IInv => RoomsWellFormed
    BY DEF IInv, RoomsWellFormed, WellFormedTable
<1> QED
    BY <1>1, InvariantHolds, PTL

\* A table that extends another knows the facts of the other.
LEMMA ExtendsLearns ==
    ASSUME Extends(rooms, rooms') PROVE Policy!Learn
<1> DEFINE before == DOMAIN StoredFacts
<1>1. ASSUME NEW key \in DOMAIN StoredFacts
      PROVE  key \in DOMAIN StoredFacts' /\ StoredFacts'[key] = StoredFacts[key]
    <2>1. CASE \E c \in DOMAIN rooms : key = <<c, "capacity">>
        BY <2>1 DEF Extends, StoredFacts
    <2>2. CASE \E c \in DOMAIN rooms : key = <<c, "layout">> /\ HasTopology(rooms[c])
        BY <2>2 DEF Extends, StoredFacts, SameLayout
    <2>3. CASE \E c \in DOMAIN rooms : key = <<c, "blocked">> /\ rooms[c].blocked # {}
        BY <2>3 DEF Extends, StoredFacts
    <2> QED
        BY <2>1, <2>2, <2>3 DEF StoredFacts
<1> QED
    BY <1>1 DEF Policy!Learn

\* Room import implements the policy "the first value wins": no stored capacity,
\* layout or set of blocked seats is ever replaced.
THEOREM FirstValuesAreKept == Spec => FirstValuesKept
<1>1. Init => Policy!Init
    BY DEF Init, Policy!Init, StoredFacts
<1>2. IInv /\ [Next]_vars => [Policy!Next]_StoredFacts
    <2> SUFFICES ASSUME IInv, [Next]_vars
                 PROVE  Policy!Next \/ StoredFacts' = StoredFacts
        OBVIOUS
    <2>1. CASE Commit
        <3>1. Extends(rooms, rooms')
            BY <2>1 DEF Commit, IInv
        <3> QED
            BY <3>1, ExtendsLearns DEF Policy!Next
    <2>2. CASE rooms' = rooms
        BY <2>2 DEF StoredFacts
    <2> QED
        BY <2>1, <2>2 DEF Next, vars, BeginImport, RejectFile, RejectLine, RepeatLine,
           TakeLine, EndOfFile, ConfirmRoom, CreateRoom, Abandon
<1> QED
    BY <1>1, <1>2, InvariantHolds, PTL DEF Spec, FirstValuesKept, Policy!Spec
-----------------------------------------------------------------------------
\* The row's facts are the room's, as far as the row states them.
Covers(row, room) ==
    /\ row.capacity = room.capacity
    /\ HasTopology(row) => SameLayout(row, room)
    /\ row.blocked # {} => row.blocked = room.blocked

\* Applying a row leaves nothing for a second time, and what the room does not take
\* from the row is reported.
Settles(new, room, reports, line) ==
    /\ Confirmed(room, new) = room
    /\ Covers(new, room) \/ \E r \in reports : r.line = line

LEMMA OwnRowSettles ==
    ASSUME NEW room \in RoomRecord, NEW reports, NEW line
    PROVE  Settles(room, room, reports, line)
<1>1. room = [capacity |-> room.capacity, rows |-> room.rows, columns |-> room.columns,
              blocked |-> room.blocked]
    BY DEF RoomRecord
<1>2. ~BackfillsLayout(room, room)
    BY DEF BackfillsLayout, StatesLayout
<1>3. ~BackfillsBlocked(room, room)
    BY DEF BackfillsBlocked
<1>4. Confirmed(room, room) = room
    BY <1>1, <1>2, <1>3 DEF Confirmed
<1> QED
    BY <1>4 DEF Settles, Covers, SameLayout

LEMMA ConfirmedSettles ==
    ASSUME NEW old \in RoomRecord, WellFormedRoom(old),
           NEW new \in RoomRecord, WellFormedRoom(new), NEW line
    PROVE  Settles(new, Confirmed(old, new), Disagreements(old, new, line), line)
<1> DEFINE room == Confirmed(old, new)
           reports == Disagreements(old, new, line)
<1>1. /\ room.capacity = old.capacity
      /\ room.rows = IF BackfillsLayout(old, new) THEN new.rows ELSE old.rows
      /\ room.columns = IF BackfillsLayout(old, new) THEN new.columns ELSE old.columns
      /\ room.blocked = IF BackfillsBlocked(old, new) THEN new.blocked ELSE old.blocked
      /\ room = [capacity |-> room.capacity, rows |-> room.rows, columns |-> room.columns,
                 blocked |-> room.blocked]
    BY DEF Confirmed
<1>2. \/ Covers(new, room)
      \/ old.capacity # new.capacity
      \/ HasTopology(old) /\ StatesLayout(new) /\ ~SameLayout(old, new)
      \/ StatesLayout(new) /\ ~HasTopology(old) /\ ~BackfillsLayout(old, new)
      \/ new.blocked # {} /\ old.blocked # {} /\ old.blocked # new.blocked
      \/ new.blocked # {} /\ old.blocked = {} /\ ~LayoutConfirmed(old, new)
    BY <1>1 DEF Covers, StatesLayout, SameLayout, BackfillsLayout, BackfillsBlocked
<1>3. Covers(new, room) \/ \E r \in reports : r.line = line
    <2>1. \A kind, a, b : Report(line, kind, a, b).line = line
        BY DEF Report
    <2>2. \A c, r : c => r \in When(c, r)
        BY DEF When
    <2>3. old.capacity # new.capacity => \E kind, a, b : Report(line, kind, a, b) \in reports
        BY <2>2 DEF Disagreements
    <2>4. HasTopology(old) /\ StatesLayout(new) /\ ~SameLayout(old, new) =>
            \E kind, a, b : Report(line, kind, a, b) \in reports
        BY <2>2 DEF Disagreements
    <2>5. StatesLayout(new) /\ ~HasTopology(old) /\ ~BackfillsLayout(old, new) =>
            \E kind, a, b : Report(line, kind, a, b) \in reports
        BY <2>2 DEF Disagreements, ErrorAt
    <2>6. new.blocked # {} /\ old.blocked # {} /\ old.blocked # new.blocked =>
            \E kind, a, b : Report(line, kind, a, b) \in reports
        BY <2>2 DEF Disagreements
    <2>7. new.blocked # {} /\ old.blocked = {} /\ ~LayoutConfirmed(old, new) =>
            \E kind, a, b : Report(line, kind, a, b) \in reports
        BY <2>2 DEF Disagreements, ErrorAt
    <2> HIDE DEF reports, room
    <2> QED
        BY <1>2, <2>1, <2>3, <2>4, <2>5, <2>6, <2>7
<1> HIDE DEF room
<1>4. ~BackfillsLayout(room, new)
    BY <1>1 DEF BackfillsLayout, HasTopology, StatesLayout
<1>5. ~BackfillsBlocked(room, new)
    <2> SUFFICES ASSUME new.blocked # {}, room.blocked = {}, LayoutConfirmed(room, new)
                 PROVE  FALSE
        BY DEF BackfillsBlocked
    <2>1. old.blocked = {} /\ ~BackfillsBlocked(old, new)
        BY <1>1
    <2>2. ~LayoutConfirmed(old, new)
        BY <2>1 DEF BackfillsBlocked
    <2>3. ~BackfillsLayout(old, new)
        BY <2>2 DEF LayoutConfirmed
    <2>4. room.rows = old.rows /\ room.columns = old.columns
        BY <1>1, <2>3
    <2> QED
        BY <1>4, <2>2, <2>4 DEF LayoutConfirmed, HasTopology, SameLayout
<1>6. Confirmed(room, new) = room
    BY <1>1, <1>4, <1>5 DEF Confirmed
<1> QED
    BY <1>3, <1>6 DEF Settles, room
-----------------------------------------------------------------------------
ReadSoFar == IF phase = "parsing" THEN 1..(next - 1) ELSE DOMAIN file.lines

ReportedAt(line) == \E r \in result.reports : r.line = line

\* A row is the room of a line read, and rows are about distinct rooms.
RowsDistinct ==
    /\ \A j, k \in DOMAIN parsed : parsed[j].code = parsed[k].code => j = k
    /\ phase # "idle" =>
          \A k \in DOMAIN parsed :
              /\ parsed[k].line \in ReadSoFar
              /\ file.lines[parsed[k].line].code = parsed[k].code
              /\ RoomOf(file, file.lines[parsed[k].line]) = parsed[k].room

\* Line i is reported, or an earlier row has what it says.
LineTaken(i) ==
    \/ ReportedAt(i)
    \/ \E k \in DOMAIN parsed :
          /\ parsed[k].line <= i /\ parsed[k].code = file.lines[i].code
          /\ parsed[k].room = RoomOf(file, file.lines[i])

LinesTaken ==
    phase # "idle" /\ file.required =>
        /\ ReadSoFar \subseteq DOMAIN file.lines
        /\ \A i \in ReadSoFar : LineTaken(i)

\* A row that was applied has nothing left to give, and what was not taken is reported.
RowApplied(row) ==
    /\ row.code \in DOMAIN work
    /\ Settles(row.room, work[row.code], result.reports, row.line)

RowsApplied ==
    /\ phase = "parsing" => (~file.required => parsed = <<>>)
    /\ phase \in {"applying", "done"} =>
          \A k \in DOMAIN parsed : k < next => RowApplied(parsed[k])
    /\ phase = "done" =>
          \A k \in DOMAIN parsed : k < next /\ rooms[parsed[k].code] = work[parsed[k].code]
    /\ phase = "done" => DOMAIN rooms = DOMAIN work
    /\ phase = "parsing" => rooms = work

\* A result has a set of reports.
ResultSound ==
    result = [status |-> result.status, created |-> result.created,
              existing |-> result.existing, duplicates |-> result.duplicates,
              reports |-> result.reports]

\* The inductive invariant with what the lines and the rows have come to.
LInv == IInv /\ ResultSound /\ RowsDistinct /\ LinesTaken /\ RowsApplied

\* Reports are only ever added, and so nothing reported is forgotten.
Adds == ResultSound' /\ result.reports \subseteq result'.reports

LEMMA LinesStayTaken ==
    ASSUME LinesTaken, Adds, UNCHANGED <<file, parsed>>, phase # "idle",
           ReadSoFar' \subseteq DOMAIN file.lines,
           \A i \in ReadSoFar' : i \in ReadSoFar \/ LineTaken(i)'
    PROVE  LinesTaken'
<1>1. \A i : LineTaken(i) => LineTaken(i)'
    BY DEF LineTaken, ReportedAt, Adds
<1> QED
    BY <1>1 DEF LinesTaken

LEMMA RowsStayDistinct ==
    ASSUME RowsDistinct, UNCHANGED <<file, parsed>>, phase # "idle",
           ReadSoFar \subseteq ReadSoFar'
    PROVE  RowsDistinct'
BY DEF RowsDistinct

LEMMA RowStaysApplied ==
    ASSUME Adds, NEW row, RowApplied(row), row.code \in DOMAIN work',
           work'[row.code] = work[row.code]
    PROVE  RowApplied(row)'
BY DEF RowApplied, Settles, Adds

\* While lines are read, the next line is one of the file.
LEMMA LineAtHand ==
    ASSUME IInv, Parsing, NEW n, n = next
    PROVE  /\ n \in Nat \ {0} /\ n \in DOMAIN file.lines /\ file \in Files
           /\ DOMAIN file.lines = 1..Len(file.lines) /\ Len(file.lines) \in Nat
           /\ 1..(n + 1 - 1) = (1..(n - 1)) \cup {n}
<1>1. n \in Nat \ {0} /\ file \in Files /\ n <= Len(file.lines)
    BY DEF IInv, TypeOK, Parsing
<1>2. file.lines \in Seq(Line)
    BY <1>1, FilesAreTyped DEF FilesAssumption
<1> QED
    BY <1>1, <1>2

\* A line is read and reported, or it repeats a row.
LEMMA LineRead ==
    ASSUME LInv, IInv', Parsing, Adds, NEW n, n = next, next' = n + 1, LineTaken(n)',
           UNCHANGED <<rooms, work, phase, file, parsed, imports>>
    PROVE  LInv'
<1>1. /\ IInv /\ ResultSound /\ RowsDistinct /\ LinesTaken /\ RowsApplied
      /\ phase = "parsing" /\ file.required
    BY DEF LInv, Parsing
<1>2. /\ n \in DOMAIN file.lines /\ 1..(n + 1 - 1) = (1..(n - 1)) \cup {n}
    BY <1>1, LineAtHand
<1>3. ReadSoFar = 1..(n - 1) /\ ReadSoFar' = (1..(n - 1)) \cup {n}
    BY <1>1, <1>2 DEF ReadSoFar
<1>4. ReadSoFar' = ReadSoFar \cup {n} /\ ReadSoFar \subseteq DOMAIN file.lines
    BY <1>1, <1>2, <1>3 DEF LinesTaken
<1>5. LinesTaken'
    BY <1>1, <1>2, <1>4, LinesStayTaken
<1>6. RowsDistinct'
    BY <1>1, <1>4, RowsStayDistinct
<1>7. RowsApplied'
    BY <1>1 DEF RowsApplied
<1> QED
    BY <1>5, <1>6, <1>7 DEF LInv, Adds

LEMMA RejectLineReads ==
    ASSUME LInv, RejectLine, IInv' PROVE LInv'
<1>1. PICK n : n = next
    OBVIOUS
<1>2. /\ Parsing /\ next' = next + 1
      /\ UNCHANGED <<rooms, work, phase, file, parsed, imports>>
      /\ result' = [result EXCEPT !.reports = @ \cup {ErrorAt(n)}]
    BY <1>1 DEF RejectLine
<1>3. Adds /\ ErrorAt(n) \in result'.reports
    BY <1>2 DEF LInv, ResultSound, Adds
<1>4. ErrorAt(n).line = n
    BY DEF ErrorAt, Report
<1>5. LineTaken(n)'
    <2>1. \E r \in result'.reports : r.line = n
        BY <1>3, <1>4
    <2> QED
        BY <2>1 DEF LineTaken, ReportedAt
<1> QED
    BY <1>1, <1>2, <1>3, <1>5, LineRead

LEMMA RepeatLineReads ==
    ASSUME LInv, RepeatLine, IInv' PROVE LInv'
<1>1. PICK n, l : n = next /\ l = file.lines[n]
    OBVIOUS
<1>2. /\ Parsing /\ next' = n + 1 /\ LineValid(file, l)
      /\ UNCHANGED <<rooms, work, phase, file, parsed, imports>>
    BY <1>1 DEF RepeatLine
<1>3. PICK k \in DOMAIN parsed : /\ parsed[k].code = l.code
        /\ result' = IF SameRoom(parsed[k].room, RoomOf(file, l))
                     THEN [result EXCEPT !.duplicates = @ + 1]
                     ELSE [result EXCEPT !.reports = @ \cup
                              {Report(n, "room_capacity", parsed[k].room.capacity, l.capacity)}]
    BY <1>1 DEF RepeatLine, Earlier
<1>4. IInv /\ ResultSound /\ RowsDistinct /\ phase = "parsing"
    BY <1>2 DEF LInv, Parsing
<1>5. CASE parsed[k].room = RoomOf(file, l)
    <2>1. Adds
        BY <1>3, <1>4, <1>5 DEF SameRoom, ResultSound, Adds
    <2>2. parsed[k].line <= n
        BY <1>1, <1>2, <1>4, LineAtHand DEF RowsDistinct, ReadSoFar
    <2>3. LineTaken(n)'
        BY <1>1, <1>2, <1>3, <1>5, <2>2 DEF LineTaken
    <2> QED
        BY <1>1, <1>2, <2>1, <2>3, LineRead
<1>6. CASE parsed[k].room # RoomOf(file, l)
    <2>1. PICK r : r = Report(n, "room_capacity", parsed[k].room.capacity, l.capacity)
        OBVIOUS
    <2>2. result' = [result EXCEPT !.reports = @ \cup {r}] /\ r.line = n
        BY <1>3, <1>6, <2>1 DEF SameRoom, Report
    <2>3. Adds /\ r \in result'.reports
        BY <1>4, <2>2 DEF ResultSound, Adds
    <2>4. LineTaken(n)'
        BY <2>2, <2>3 DEF LineTaken, ReportedAt
    <2> QED
        BY <1>1, <1>2, <2>3, <2>4, LineRead
<1> QED
    BY <1>5, <1>6

LEMMA TakeLineReads ==
    ASSUME LInv, TakeLine, IInv' PROVE LInv'
<1>1. PICK n, l : n = next /\ l = file.lines[n]
    OBVIOUS
<1> DEFINE row == [line |-> n, code |-> l.code, room |-> RoomOf(file, l)]
<1>2. /\ Parsing /\ next' = n + 1 /\ LineValid(file, l) /\ Earlier(l.code) = {}
      /\ parsed' = Append(parsed, row)
      /\ UNCHANGED <<rooms, work, phase, file, result, imports>>
    BY <1>1 DEF TakeLine
<1>3. /\ IInv /\ ResultSound /\ RowsDistinct /\ LinesTaken /\ RowsApplied
      /\ phase = "parsing" /\ file.required
    BY <1>2 DEF LInv, Parsing
<1>4. /\ n \in Nat \ {0} /\ n \in DOMAIN file.lines
      /\ 1..(n + 1 - 1) = (1..(n - 1)) \cup {n}
    BY <1>1, <1>2, <1>3, LineAtHand
<1>5. /\ ReadSoFar = 1..(n - 1) /\ ReadSoFar' = (1..(n - 1)) \cup {n}
    BY <1>1, <1>2, <1>3, <1>4 DEF ReadSoFar
<1> DEFINE m == Len(parsed) + 1
<1>6. /\ DOMAIN parsed' = DOMAIN parsed \cup {m} /\ m \notin DOMAIN parsed
      /\ parsed'[m] = row /\ \A k \in DOMAIN parsed : parsed'[k] = parsed[k]
    <2>1. PICK S : parsed \in Seq(S)
        BY <1>3 DEF IInv, TypeOK
    <2>2. Len(parsed) \in Nat /\ DOMAIN parsed = 1..Len(parsed)
        BY <2>1
    <2> QED
        BY <1>2, <2>1, <2>2
<1>7. row.line = n /\ row.code = l.code /\ row.room = RoomOf(file, l)
    OBVIOUS
<1> HIDE DEF row, m
<1>8. \A k \in DOMAIN parsed : parsed[k].code # l.code
    BY <1>2 DEF Earlier
<1>9. RowsDistinct'
    <2>1. ASSUME NEW j \in DOMAIN parsed', NEW k \in DOMAIN parsed',
                 parsed'[j].code = parsed'[k].code
          PROVE  j = k
        <3>1. CASE j \in DOMAIN parsed /\ k \in DOMAIN parsed
            BY <1>3, <1>6, <2>1, <3>1 DEF RowsDistinct
        <3>2. CASE j = m /\ k \in DOMAIN parsed
            BY <1>6, <1>7, <1>8, <2>1, <3>2
        <3>3. CASE j \in DOMAIN parsed /\ k = m
            BY <1>6, <1>7, <1>8, <2>1, <3>3
        <3> QED
            BY <1>6, <3>1, <3>2, <3>3
    <2>2. ASSUME NEW k \in DOMAIN parsed'
          PROVE  /\ parsed'[k].line \in ReadSoFar'
                 /\ file.lines[parsed'[k].line].code = parsed'[k].code
                 /\ RoomOf(file, file.lines[parsed'[k].line]) = parsed'[k].room
        <3>1. CASE k \in DOMAIN parsed
            BY <1>3, <1>5, <1>6, <3>1 DEF RowsDistinct
        <3>2. CASE k = m
            BY <1>1, <1>5, <1>6, <1>7, <3>2
        <3> QED
            BY <1>6, <3>1, <3>2
    <2> QED
        BY <1>2, <2>1, <2>2 DEF RowsDistinct, RoomOf, RowsOf, ColumnsOf
<1>10. LinesTaken'
    <2>1. ReadSoFar' \subseteq DOMAIN file.lines
        BY <1>3, <1>4, <1>5 DEF LinesTaken
    <2>2. LineTaken(n)'
        BY <1>1, <1>2, <1>4, <1>6, <1>7 DEF LineTaken
    <2>3. ASSUME NEW i, LineTaken(i) PROVE LineTaken(i)'
        BY <1>2, <1>6, <2>3 DEF LineTaken, ReportedAt
    <2> QED
        BY <1>2, <1>3, <1>5, <2>1, <2>2, <2>3 DEF LinesTaken
<1>11. RowsApplied' /\ ResultSound'
    BY <1>2, <1>3 DEF RowsApplied, ResultSound
<1> QED
    BY <1>9, <1>10, <1>11 DEF LInv

\* The row the service is at is applied; the others stay so.
LEMMA RowsGoOn ==
    ASSUME LInv, IInv', phase = "applying", Adds, NEW n, n = next, n \in DOMAIN parsed,
           next' = n + 1, UNCHANGED <<rooms, phase, file, parsed, imports>>,
           NEW row, row = parsed[n], RowApplied(row)',
           \A c \in DOMAIN work \ {row.code} : c \in DOMAIN work' /\ work'[c] = work[c]
    PROVE  LInv'
<1>1. IInv /\ RowsDistinct /\ LinesTaken /\ RowsApplied
    BY DEF LInv
<1>2. /\ n \in Nat /\ \A k \in DOMAIN parsed : k \in Nat
      /\ \A k \in DOMAIN parsed : k < n + 1 => k < n \/ k = n
    <2>1. n \in Nat /\ \A k \in DOMAIN parsed : k \in Nat
        BY <1>1 DEF IInv, TypeOK
    <2> QED
        BY <2>1
<1>3. ReadSoFar' = ReadSoFar
    BY DEF ReadSoFar
<1>4. RowsDistinct' /\ LinesTaken'
    BY <1>1, <1>3, RowsStayDistinct, LinesStayTaken DEF LinesTaken
<1>5. ASSUME NEW k \in DOMAIN parsed, k < n + 1 PROVE RowApplied(parsed[k])'
    <2>1. PICK r : r = parsed[k]
        OBVIOUS
    <2>2. CASE k = n
        BY <2>1, <2>2
    <2>3. CASE k # n
        <3>1. RowApplied(r) /\ r.code # row.code
            BY <1>1, <1>2, <1>5, <2>1, <2>3 DEF RowsApplied, RowsDistinct
        <3>2. r.code \in DOMAIN work' /\ work'[r.code] = work[r.code]
            BY <3>1 DEF RowApplied
        <3>3. RowApplied(r)'
            BY <3>1, <3>2, RowStaysApplied
        <3> QED
            BY <2>1, <3>3
    <2> QED
        BY <2>2, <2>3
<1>6. RowsApplied'
    BY <1>5 DEF RowsApplied
<1> QED
    BY <1>4, <1>6 DEF LInv, Adds

LEMMA ApplyingRow ==
    ASSUME IInv, next <= Len(parsed), NEW n, n = next
    PROVE  n \in DOMAIN parsed
BY DEF IInv, TypeOK

LEMMA ConfirmRoomApplies ==
    ASSUME LInv, ConfirmRoom, IInv' PROVE LInv'
<1>1. PICK n, row : n = next /\ row = parsed[n]
    OBVIOUS
<1>2. /\ phase = "applying" /\ next <= Len(parsed) /\ row.code \in DOMAIN work /\ next' = n + 1
      /\ work' = [work EXCEPT ![row.code] = Confirmed(work[row.code], row.room)]
      /\ result' = [result EXCEPT
             !.existing = @ + 1,
             !.reports = @ \cup Disagreements(work[row.code], row.room, row.line)]
      /\ UNCHANGED <<rooms, phase, file, parsed, imports>>
    BY <1>1 DEF ConfirmRoom
<1>3. IInv /\ ResultSound
    BY DEF LInv
<1>4. PICK old, more : old = work[row.code] /\ more = Disagreements(old, row.room, row.line)
    OBVIOUS
<1>5. row.room \in RoomRecord /\ WellFormedRoom(row.room)
    BY <1>1, <1>2, <1>3, RowAtHand
<1>6. old \in RoomRecord /\ WellFormedRoom(old)
    BY <1>2, <1>3, <1>4 DEF IInv, TypeOK, IsRoomTable, WellFormedTable
<1>7. Settles(row.room, Confirmed(old, row.room), more, row.line)
    BY <1>4, <1>5, <1>6, ConfirmedSettles
<1>8. Adds /\ more \subseteq result'.reports
    BY <1>2, <1>3, <1>4 DEF ResultSound, Adds
<1>9. /\ row.code \in DOMAIN work' /\ work'[row.code] = Confirmed(old, row.room)
      /\ \A c \in DOMAIN work \ {row.code} : c \in DOMAIN work' /\ work'[c] = work[c]
    BY <1>2, <1>4
<1>10. RowApplied(row)'
    BY <1>7, <1>8, <1>9 DEF RowApplied, Settles
<1> QED
    BY <1>1, <1>2, <1>3, <1>8, <1>9, <1>10, ApplyingRow, RowsGoOn

LEMMA CreateRoomApplies ==
    ASSUME LInv, CreateRoom, IInv' PROVE LInv'
<1>1. PICK n, row : n = next /\ row = parsed[n]
    OBVIOUS
<1>2. /\ phase = "applying" /\ next <= Len(parsed) /\ row.code \notin DOMAIN work
      /\ next' = n + 1
      /\ work' = [c \in DOMAIN work \cup {row.code} |->
                   IF c = row.code THEN row.room ELSE work[c]]
      /\ result' = [result EXCEPT !.created = @ + 1]
      /\ UNCHANGED <<rooms, phase, file, parsed, imports>>
    BY <1>1 DEF CreateRoom
<1>3. IInv /\ ResultSound
    BY DEF LInv
<1>4. row.room \in RoomRecord
    BY <1>1, <1>2, <1>3, RowAtHand
<1>5. Adds
    BY <1>2, <1>3 DEF ResultSound, Adds
<1>6. /\ row.code \in DOMAIN work' /\ work'[row.code] = row.room
      /\ \A c \in DOMAIN work \ {row.code} : c \in DOMAIN work' /\ work'[c] = work[c]
    BY <1>2
<1>7. PICK reports : reports = result'.reports
    OBVIOUS
<1>8. Settles(row.room, row.room, reports, row.line)
    BY <1>4, OwnRowSettles
<1>9. RowApplied(row)'
    BY <1>6, <1>7, <1>8 DEF RowApplied
<1> QED
    BY <1>1, <1>2, <1>3, <1>5, <1>6, <1>9, ApplyingRow, RowsGoOn

LEMMA CommitSettles ==
    ASSUME LInv, Commit, IInv' PROVE LInv'
<1>1. /\ phase = "applying" /\ phase' = "done" /\ next > Len(parsed) /\ rooms' = work
      /\ UNCHANGED <<work, file, next, parsed, imports>>
    BY DEF Commit
<1>2. IInv /\ ResultSound /\ RowsDistinct /\ LinesTaken /\ RowsApplied
    BY DEF LInv
<1>3. Adds
    <2>1. PICK s : result' = [result EXCEPT !.status = s]
        BY DEF Commit
    <2> QED
        BY <1>2, <2>1 DEF ResultSound, Adds
<1>4. ReadSoFar' = ReadSoFar
    BY <1>1 DEF ReadSoFar
<1>5. RowsDistinct' /\ LinesTaken'
    BY <1>1, <1>2, <1>3, <1>4, RowsStayDistinct, LinesStayTaken DEF LinesTaken
<1>6. \A k \in DOMAIN parsed : k < next
    BY <1>1, <1>2 DEF IInv, TypeOK
<1>7. ASSUME NEW k \in DOMAIN parsed PROVE RowApplied(parsed[k])'
    <2>1. PICK r : r = parsed[k]
        OBVIOUS
    <2>2. RowApplied(r)
        BY <1>1, <1>2, <1>6, <2>1 DEF RowsApplied
    <2>3. RowApplied(r)'
        BY <1>1, <1>3, <2>2, RowStaysApplied DEF RowApplied
    <2> QED
        BY <1>1, <2>1, <2>3
<1>8. RowsApplied'
    BY <1>1, <1>6, <1>7 DEF RowsApplied
<1> QED
    BY <1>3, <1>5, <1>8 DEF LInv, Adds

LEMMA EndOfFileReads ==
    ASSUME LInv, EndOfFile, IInv' PROVE LInv'
<1>1. /\ phase = "parsing" /\ phase' = "applying" /\ file.required /\ next > Len(file.lines)
      /\ next' = 1 /\ UNCHANGED <<rooms, work, file, parsed, result, imports>>
    BY DEF EndOfFile
<1>2. IInv /\ ResultSound /\ RowsDistinct /\ LinesTaken /\ RowsApplied
    BY DEF LInv
<1>3. /\ file.lines \in Seq(Line) /\ next \in Nat
    BY <1>1, <1>2, FilesAreTyped DEF FilesAssumption, IInv, TypeOK
<1>4. DOMAIN file.lines = 1..Len(file.lines) /\ Len(file.lines) \in Nat
    BY <1>3
<1>5. ReadSoFar' = DOMAIN file.lines /\ ReadSoFar = DOMAIN file.lines
    <2>1. 1..(next - 1) \subseteq DOMAIN file.lines
        BY <1>1, <1>2 DEF LinesTaken, ReadSoFar
    <2>2. DOMAIN file.lines \subseteq 1..(next - 1)
        BY <1>1, <1>3, <1>4
    <2>3. ReadSoFar = 1..(next - 1)
        BY <1>1 DEF ReadSoFar
    <2> QED
        BY <1>1, <2>1, <2>2, <2>3 DEF ReadSoFar
<1>6. Adds
    BY <1>1, <1>2 DEF Adds, ResultSound
<1>7. RowsDistinct' /\ LinesTaken'
    BY <1>1, <1>2, <1>5, <1>6, RowsStayDistinct, LinesStayTaken
<1>8. RowsApplied'
    <2>1. \A k \in DOMAIN parsed : ~(k < 1)
        BY <1>2 DEF IInv, TypeOK
    <2> QED
        BY <1>1, <2>1 DEF RowsApplied
<1> QED
    BY <1>6, <1>7, <1>8 DEF LInv, Adds

LEMMA InitLInv == Init => LInv
<1> SUFFICES ASSUME Init PROVE LInv
    OBVIOUS
<1>1. IInv /\ phase = "idle" /\ DOMAIN parsed = {} /\ result = EmptyResult
    BY InitIInv DEF Init
<1>2. ResultSound
    BY <1>1 DEF EmptyResult, ResultSound
<1> QED
    BY <1>1, <1>2 DEF LInv, RowsDistinct, LinesTaken, RowsApplied

LEMMA BeginImportStarts ==
    ASSUME LInv, BeginImport, IInv' PROVE LInv'
<1>1. /\ phase' = "parsing" /\ work' = rooms /\ rooms' = rooms /\ next' = 1 /\ parsed' = <<>>
      /\ result' = EmptyResult
    BY DEF BeginImport
<1>2. ReadSoFar' = {} /\ DOMAIN parsed' = {}
    BY <1>1 DEF ReadSoFar
<1>3. ResultSound'
    BY <1>1 DEF EmptyResult, ResultSound
<1> QED
    BY <1>1, <1>2, <1>3 DEF LInv, RowsDistinct, LinesTaken, RowsApplied

LEMMA RejectFileEnds ==
    ASSUME LInv, RejectFile, IInv' PROVE LInv'
<1>1. /\ phase = "parsing" /\ ~file.required /\ phase' = "done"
      /\ UNCHANGED <<rooms, work, file, next, parsed, imports>>
    BY DEF RejectFile
<1>2. parsed = <<>> /\ rooms = work /\ DOMAIN parsed = {}
    BY <1>1 DEF LInv, RowsApplied
<1>3. ResultSound'
    BY DEF LInv, ResultSound, RejectFile
<1> QED
    BY <1>1, <1>2, <1>3 DEF LInv, RowsDistinct, LinesTaken, RowsApplied

LEMMA AbandonEnds ==
    ASSUME LInv, Abandon, IInv' PROVE LInv'
<1>1. phase' = "idle" /\ UNCHANGED <<parsed, result>>
    BY DEF Abandon
<1> QED
    BY <1>1 DEF LInv, ResultSound, RowsDistinct, LinesTaken, RowsApplied

LEMMA StutterKeeps ==
    ASSUME LInv, UNCHANGED vars, IInv' PROVE LInv'
<1>1. UNCHANGED <<rooms, work, phase, file, next, parsed, result, imports>>
    BY DEF vars
<1>2. ReadSoFar' = ReadSoFar
    BY <1>1 DEF ReadSoFar
<1>3. ResultSound' /\ RowsDistinct' /\ LinesTaken'
    BY <1>1, <1>2 DEF LInv, ResultSound, RowsDistinct, LinesTaken, LineTaken, ReportedAt
<1>4. RowsApplied'
    BY <1>1 DEF LInv, RowsApplied, RowApplied
<1> QED
    BY <1>3, <1>4 DEF LInv

LEMMA NextKeepsLInv == LInv /\ [Next]_vars => LInv'
<1> SUFFICES ASSUME LInv, [Next]_vars PROVE LInv'
    OBVIOUS
<1>1. IInv'
    BY NextKeepsIInv DEF LInv
<1> QED
    BY <1>1, BeginImportStarts, RejectFileEnds, RejectLineReads, RepeatLineReads,
       TakeLineReads, EndOfFileReads, ConfirmRoomApplies, CreateRoomApplies, CommitSettles,
       AbandonEnds, StutterKeeps DEF Next

\* What the lines and rows have come to holds over any sequence of files and failures.
THEOREM LinesInvariantHolds == Spec => []LInv
BY InitLInv, NextKeepsLInv, PTL DEF Spec

\* Applying the same file again right away would change no room.
THEOREM OnePassIsEnough == Spec => []SecondPassChangesNothing
<1>1. LInv => SecondPassChangesNothing
    <2> SUFFICES ASSUME LInv, phase = "done", NEW k \in DOMAIN parsed
                 PROVE  /\ parsed[k].code \in DOMAIN rooms
                        /\ Confirmed(rooms[parsed[k].code], parsed[k].room)
                              = rooms[parsed[k].code]
        BY DEF SecondPassChangesNothing
    <2>1. RowApplied(parsed[k]) /\ rooms[parsed[k].code] = work[parsed[k].code]
          /\ DOMAIN rooms = DOMAIN work
        BY DEF LInv, RowsApplied
    <2> QED
        BY <2>1 DEF RowApplied, Settles
<1> QED
    BY <1>1, LinesInvariantHolds, PTL

\* A line whose facts a room covers agrees with it.
LEMMA CoveredLineAgrees ==
    ASSUME IInv, phase = "done", NEW i \in DOMAIN file.lines, NEW l, l = file.lines[i], NEW room,
           Covers(RoomOf(file, l), room)
    PROVE  Agrees(l, room)
<1>1. file \in Files \/ file = NoFile
    BY DEF IInv, TypeOK
<1>2. l.blocked # {} => l.marked
    <2>1. CASE file \in Files
        BY <2>1, FilesAreTyped DEF FilesAssumption
    <2>2. CASE file = NoFile
        BY <2>2 DEF NoFile
    <2> QED
        BY <1>1, <2>1, <2>2
<1>3. PICK rows, columns : rows = RowsOf(file, l) /\ columns = ColumnsOf(file, l)
    OBVIOUS
<1>4. rows # 0 => l.rows = rows /\ l.columns = columns
    BY <1>3 DEF RowsOf, ColumnsOf
<1>5. PICK stated : stated = RoomOf(file, l)
    OBVIOUS
<1>6. /\ stated.capacity = l.capacity /\ stated.rows = rows /\ stated.columns = columns
      /\ file.blockedColumn /\ l.marked => stated.blocked = l.blocked
    BY <1>3, <1>5 DEF RoomOf
<1>7. Covers(stated, room)
    BY <1>5
<1> QED
    BY <1>2, <1>3, <1>4, <1>6, <1>7 DEF Covers, Agrees, HasTopology, SameLayout

\* Whatever a line says about a room, the stored room says so too, or the line is
\* reported, or the line of the same content it repeats.
THEOREM DisagreementsReported == Spec => []EveryDisagreementReported
<1>1. LInv => EveryDisagreementReported
    <2> SUFFICES ASSUME LInv, phase = "done", file.required, NEW i \in DOMAIN file.lines,
                        NEW l, l = file.lines[i]
                 PROVE  \/ l.code \in DOMAIN rooms /\ Agrees(l, rooms[l.code])
                        \/ \E r \in result.reports :
                               /\ r.line \in 1..i
                               /\ file.lines[r.line].code = l.code
                               /\ RoomOf(file, file.lines[r.line]) = RoomOf(file, l)
        BY DEF EveryDisagreementReported
    <2>1. IInv /\ RowsDistinct /\ LinesTaken /\ RowsApplied /\ ReadSoFar = DOMAIN file.lines
        BY DEF LInv, ReadSoFar
    <2>2. i \in Nat \ {0} /\ \A j \in DOMAIN file.lines : j \in Nat \ {0}
        <3>1. file \in Files \/ file = NoFile
            BY <2>1 DEF IInv, TypeOK
        <3>2. file.lines \in Seq(Line)
            BY <3>1, FilesAreTyped DEF FilesAssumption, NoFile
        <3> QED
            BY <3>2
    <2>3. LineTaken(i)
        BY <2>1 DEF LinesTaken
    <2>4. CASE ReportedAt(i)
        BY <2>2, <2>4 DEF ReportedAt
    <2>5. CASE ~ReportedAt(i)
        <3>1. PICK k \in DOMAIN parsed : /\ parsed[k].line <= i /\ parsed[k].code = l.code
                                         /\ parsed[k].room = RoomOf(file, l)
            BY <2>3, <2>5 DEF LineTaken
        <3>2. PICK row : row = parsed[k]
            OBVIOUS
        <3>3. /\ row.line \in DOMAIN file.lines /\ file.lines[row.line].code = row.code
              /\ RoomOf(file, file.lines[row.line]) = row.room
            BY <2>1, <3>2 DEF RowsDistinct
        <3>4. /\ RowApplied(row) /\ rooms[row.code] = work[row.code] /\ DOMAIN rooms = DOMAIN work
            BY <2>1, <3>2 DEF RowsApplied
        <3>5. /\ row.code \in DOMAIN rooms
              /\ Covers(row.room, rooms[row.code]) \/ ReportedAt(row.line)
            BY <3>4 DEF RowApplied, Settles, ReportedAt
        <3>6. CASE Covers(row.room, rooms[row.code])
            <4>1. Covers(RoomOf(file, l), rooms[l.code])
                BY <3>1, <3>2, <3>6
            <4>2. Agrees(l, rooms[l.code])
                BY <2>1, <4>1, CoveredLineAgrees
            <4> QED
                BY <3>1, <3>2, <3>5, <4>2
        <3>7. CASE ReportedAt(row.line)
            <4>1. PICK r \in result.reports : r.line = row.line
                BY <3>7 DEF ReportedAt
            <4>2. r.line \in 1..i
                BY <2>2, <3>1, <3>2, <3>3, <4>1
            <4> QED
                BY <3>1, <3>2, <3>3, <4>1, <4>2
        <3> QED
            BY <3>5, <3>6, <3>7
    <2> QED
        BY <2>4, <2>5
<1> QED
    BY <1>1, LinesInvariantHolds, PTL
-----------------------------------------------------------------------------
\* The start of the server (module SchemaMigration).
\* The stages that run inside the INSERT's transaction.
Merging == {"drop", "exam_index", "session_index", "commit"}

\* The stages from each check or statement on.
AfterRebuild == Merging \cup {"rebuild", "copy", "up"}
AfterCreate == AfterRebuild \cup {"relax"}
AfterBlocked == AfterCreate \cup {"create"}
AfterTopology == AfterBlocked \cup {"blocked"}
AfterCheck == AfterTopology \cup {"topology"}

\* What the open transaction has changed, and nothing else.
Transaction ==
    /\ at \notin Merging => seen = disk
    /\ at \in Merging =>
          /\ {Gens, Old} \subseteq disk.tables /\ ModelTables \subseteq seen.tables
          /\ disk.nullable /\ seen.nullable
          /\ seen.columns = disk.columns /\ seen.assigned = disk.assigned
          /\ disk.rows[Gens] = {} /\ seen.rows[Gens] = disk.rows[Old]
          /\ seen.rows[Old] = IF at = "drop" THEN disk.rows[Old] ELSE {}
          /\ at # "drop" => Old \notin seen.tables

\* Where the generations are.
Kept ==
    /\ stored = disk.rows[Gens] \cup disk.rows[Old]
    /\ disk.rows[Gens] \cap disk.rows[Old] = {}
    /\ \A t \in {Gens, Old} : t \notin disk.tables => disk.rows[t] = {}
    /\ \A g \in disk.rows[Old] : g.past
    /\ ~disk.nullable =>
          /\ \A g \in disk.rows[Gens] : g.past
          /\ Old \in disk.tables => Gens \notin disk.tables

\* What a start has reached.
Reached ==
    /\ at \in AfterCheck /\ "exams" \in disk.tables => ExamColumns \subseteq disk.columns
    /\ at \in AfterTopology => HasLayout(disk)
    /\ at \in AfterBlocked /\ "rooms" \in disk.tables => RoomColumns \subseteq disk.columns
    /\ at \in AfterCreate => ModelTables \ {Gens} \subseteq disk.tables
    /\ at \in AfterCreate \ {"rebuild"} => Gens \in disk.tables
    /\ at = "rebuild" => Old \in disk.tables /\ Gens \notin disk.tables
    /\ at = "copy" => Old \in disk.tables /\ disk.rows[Gens] = {}
    /\ at \in {"copy", "up"} => disk.nullable
    /\ at # "create" => pending = {}
    /\ \A i \in pending : Owner(i) \in disk.tables /\ (Owner(i) = Gens => disk.nullable)

\* Where an index is as long as no start was cut short.
IndexPlace(i) ==
    IF \/ Owner(i) \notin disk.tables
       \/ i \in pending
       \/ i = SessionIndex /\ ~disk.nullable
    THEN "none" ELSE Owner(i)

\* What only a start cut short can break.
Undisturbed ==
    /\ ~HalfBuilt =>
          /\ Old \notin disk.tables
          /\ \A i \in Index : disk.indexes[i] = IndexPlace(i)
    /\ HalfBuilt => seen.indexes[CodeIndex] = "rooms"
    /\ at \in {"session_index", "commit"} => seen.indexes[ExamIndex] = Gens
    /\ at = "commit" => seen.indexes[SessionIndex] = Gens
    /\ \A g, h \in stored : g.id = h.id => g = h

\* The inductive invariant.
MigrationInv ==
    /\ MigrationTypeOK
    /\ Transaction
    /\ Kept
    /\ Reached
    /\ disk.assigned \subseteq stored
    /\ ~cut => Undisturbed

\* The names of tables and indexes differ.
LEMMA Names ==
    /\ ModelTables = {"examination_sessions", "rooms", "exams", Gens, "seat_assignments"}
    /\ Old \notin ModelTables /\ Gens # Old /\ Gens # "rooms" /\ Gens # "exams"
    /\ Index = {CodeIndex, ExamIndex, SessionIndex}
    /\ CodeIndex # ExamIndex /\ CodeIndex # SessionIndex /\ ExamIndex # SessionIndex
    /\ \A i \in Index : Owner(i) \in {"rooms", Gens} /\ (Owner(i) = "rooms" <=> i = CodeIndex)
<1>1. ModelTables = {"examination_sessions", "rooms", "exams", Gens, "seat_assignments"}
    BY DEF ModelTables, TableOrder
<1> QED
    BY <1>1 DEF Gens, Old, Index, CodeIndex, ExamIndex, SessionIndex, Owner

-----------------------------------------------------------------------------
USE DEF Merging, AfterRebuild, AfterCreate, AfterBlocked, AfterTopology, AfterCheck

\* Every past file satisfies the invariant.
LEMMA MigrationInitially == MigrationInit => MigrationInv
<1> SUFFICES ASSUME MigrationInit PROVE MigrationInv
    OBVIOUS
<1>1. /\ disk \in Database /\ Complete(disk)
      /\ \A g \in disk.rows[Gens] : g.past
    BY PastDatabasesAreComplete DEF PastAssumption, MigrationInit
<1>2. MigrationTypeOK
    <2>1. disk.rows[Gens] \subseteq Generation
        BY <1>1 DEF Database
    <2>2. stops \in 0..MaxStops
        BY BoundsAreNatural DEF MigrationInit
    <2> QED
        BY <1>1, <2>1, <2>2 DEF MigrationInit, MigrationTypeOK, Stages
<1> QED
    BY <1>1, <1>2, Names
    DEF MigrationInit, MigrationInv, Transaction, Kept, Reached, Undisturbed,
        IndexPlace, HalfBuilt, Complete, Database, Generation

\* Steps that only go on to the next check.
LEMMA StartKeeps == MigrationInv /\ Start => MigrationInv'
    BY Names
    DEF MigrationInv, MigrationTypeOK, Stages, Transaction, Kept, Reached,
        Undisturbed, IndexPlace, HalfBuilt, HasLayout, Start, Goto

LEMMA CheckSchemaKeeps == MigrationInv /\ CheckSchema => MigrationInv'
    BY Names
    DEF MigrationInv, MigrationTypeOK, Stages, Transaction, Kept, Reached,
        Undisturbed, IndexPlace, HalfBuilt, HasLayout, CheckSchema, Goto,
        Incompatible

\* Adding a column changes nothing else.
LEMMA ColumnKept ==
    ASSUME NEW d \in Database, NEW c \in RoomColumns
    PROVE  /\ WithColumn(d, c) \in Database
           /\ WithColumn(d, c).columns = d.columns \cup {c}
           /\ WithColumn(d, c).tables = d.tables
           /\ WithColumn(d, c).nullable = d.nullable
           /\ WithColumn(d, c).rows = d.rows
           /\ WithColumn(d, c).indexes = d.indexes
           /\ WithColumn(d, c).assigned = d.assigned
    BY DEF WithColumn, Database

LEMMA AddRowsKeeps == MigrationInv /\ AddRows => MigrationInv'
<1> SUFFICES ASSUME MigrationInv, AddRows PROVE MigrationInv'
    OBVIOUS
<1>1. seen = disk /\ disk \in Database /\ "rows" \in RoomColumns
    BY DEF MigrationInv, MigrationTypeOK, Transaction, AddRows, RoomColumns
<1>2. /\ disk' = WithColumn(disk, "rows") /\ seen' = disk' /\ at = "topology"
      /\ UNCHANGED <<at, pending, stops, stored, cut>>
    BY <1>1 DEF AddRows, Autocommit
<1> QED
    BY <1>1, <1>2, ColumnKept, Names
    DEF MigrationInv, MigrationTypeOK, Stages, Transaction, Kept, Reached,
        Undisturbed, IndexPlace, HalfBuilt, HasLayout

LEMMA AddColumnsKeeps == MigrationInv /\ AddColumns => MigrationInv'
<1> SUFFICES ASSUME MigrationInv, AddColumns PROVE MigrationInv'
    OBVIOUS
<1>1. seen = disk /\ disk \in Database /\ "columns" \in RoomColumns
    BY DEF MigrationInv, MigrationTypeOK, Transaction, AddColumns, RoomColumns
<1>2. /\ disk' = WithColumn(disk, "columns") /\ seen' = disk' /\ at = "topology"
      /\ UNCHANGED <<at, pending, stops, stored, cut>>
    BY <1>1 DEF AddColumns, Autocommit
<1> QED
    BY <1>1, <1>2, ColumnKept, Names
    DEF MigrationInv, MigrationTypeOK, Stages, Transaction, Kept, Reached,
        Undisturbed, IndexPlace, HalfBuilt, HasLayout

LEMMA TopologyDoneKeeps == MigrationInv /\ TopologyDone => MigrationInv'
    BY Names
    DEF MigrationInv, MigrationTypeOK, Stages, Transaction, Kept, Reached,
        Undisturbed, IndexPlace, HalfBuilt, HasLayout, TopologyDone, Goto

LEMMA AddBlockedSeatsKeeps == MigrationInv /\ AddBlockedSeats => MigrationInv'
<1> SUFFICES ASSUME MigrationInv, AddBlockedSeats PROVE MigrationInv'
    OBVIOUS
<1> DEFINE c == "blocked_seat_numbers"
<1>1. /\ seen = disk /\ disk \in Database /\ c \in RoomColumns /\ HasLayout(disk)
      /\ at = "blocked" /\ at' = "create" /\ UNCHANGED <<pending, stops, stored, cut>>
    BY DEF MigrationInv, MigrationTypeOK, Transaction, Reached, AddBlockedSeats,
        Goto, RoomColumns
<1>2. CASE "rooms" \in disk.tables /\ c \notin disk.columns
    <2>1. disk' = WithColumn(disk, c) /\ seen' = disk'
        BY <1>1, <1>2 DEF AddBlockedSeats, Autocommit
    <2>2. RoomColumns \subseteq disk'.columns
        BY <1>1, <1>2, <2>1, ColumnKept DEF HasLayout, RoomColumns
    <2> QED
        BY <1>1, <2>1, <2>2, ColumnKept, Names
        DEF MigrationInv, MigrationTypeOK, Stages, Transaction, Kept, Reached,
            Undisturbed, IndexPlace, HalfBuilt, HasLayout
<1>3. CASE ~("rooms" \in disk.tables /\ c \notin disk.columns)
    <2>1. disk' = disk /\ seen' = seen
        BY <1>1, <1>3 DEF AddBlockedSeats
    <2>2. "rooms" \in disk.tables => RoomColumns \subseteq disk.columns
        BY <1>1, <1>3 DEF HasLayout, RoomColumns
    <2> QED
        BY <1>1, <2>1, <2>2, Names
        DEF MigrationInv, MigrationTypeOK, Stages, Transaction, Kept, Reached,
            Undisturbed, IndexPlace, HalfBuilt, HasLayout
<1> QED
    BY <1>2, <1>3

LEMMA TablesCreatedKeeps == MigrationInv /\ TablesCreated => MigrationInv'
    BY Names
    DEF MigrationInv, MigrationTypeOK, Stages, Transaction, Kept, Reached,
        Undisturbed, IndexPlace, HalfBuilt, HasLayout, TablesCreated, Goto

LEMMA SkipRebuildKeeps == MigrationInv /\ SkipRebuild => MigrationInv'
    BY Names
    DEF MigrationInv, MigrationTypeOK, Stages, Transaction, Kept, Reached,
        Undisturbed, IndexPlace, HalfBuilt, HasLayout, SkipRebuild, Goto

\* A start that trips over an index name is cut, so nothing is left to show of the
\* indexes.
LEMMA IndexNameTakenKeeps == MigrationInv /\ IndexNameTaken => MigrationInv'
    BY Names
    DEF MigrationInv, MigrationTypeOK, Stages, Transaction, Kept, Reached,
        Undisturbed, IndexPlace, HalfBuilt, HasLayout, IndexNameTaken

\* A stop rolls back the transaction, and counts as a cut between the statements
\* that build one table.
LEMMA StopKeeps == MigrationInv /\ Stop => MigrationInv'
<1> SUFFICES ASSUME MigrationInv, Stop PROVE MigrationInv'
    OBVIOUS
<1>1. MigrationTypeOK'
    <2>1. stops' \in 0..MaxStops
        BY BoundsAreNatural DEF MigrationInv, MigrationTypeOK, Stop
    <2> QED
        BY <2>1 DEF MigrationInv, MigrationTypeOK, Stages, Stop, HalfBuilt
<1>2. Transaction' /\ Kept' /\ Reached' /\ disk'.assigned \subseteq stored'
    BY DEF MigrationInv, MigrationTypeOK, Transaction, Kept, Reached, HasLayout, Stop
<1>3. ASSUME ~cut' PROVE Undisturbed'
    BY <1>3 DEF MigrationInv, Stop, Transaction, Reached, Undisturbed, IndexPlace,
        HalfBuilt
<1> QED
    BY <1>1, <1>2, <1>3 DEF MigrationInv

\* The index goes where it belongs.
LEMMA CreateIndexKeeps == MigrationInv /\ CreateIndex => MigrationInv'
    BY Names
    DEF MigrationInv, MigrationTypeOK, Stages, Transaction, Kept, Reached,
        Undisturbed, IndexPlace, HalfBuilt, HasLayout, CreateIndex, Autocommit,
        IndexOn, Database

\* The copy becomes the table: what was in the renamed table is now all there is.
LEMMA CommitRebuildKeeps == MigrationInv /\ CommitRebuild => MigrationInv'
    BY Names
    DEF MigrationInv, MigrationTypeOK, Stages, Transaction, Kept, Reached,
        Undisturbed, IndexPlace, HalfBuilt, HasLayout, CommitRebuild, Goto

\* Indexes inside the transaction leave the file alone.
LEMMA RebuildExamIndexKeeps == MigrationInv /\ RebuildExamIndex => MigrationInv'
    BY Names
    DEF MigrationInv, MigrationTypeOK, Stages, Transaction, Kept, Reached,
        Undisturbed, IndexPlace, HalfBuilt, HasLayout, RebuildExamIndex, Goto,
        InTransaction, IndexOn, Database

LEMMA RebuildSessionIndexKeeps == MigrationInv /\ RebuildSessionIndex => MigrationInv'
    BY Names
    DEF MigrationInv, MigrationTypeOK, Stages, Transaction, Kept, Reached,
        Undisturbed, IndexPlace, HalfBuilt, HasLayout, RebuildSessionIndex, Goto,
        InTransaction, IndexOn, Database

\* The new table is empty, because there was none of its name.
LEMMA CreateRelaxedTableKeeps == MigrationInv /\ CreateRelaxedTable => MigrationInv'
<1> SUFFICES ASSUME MigrationInv, CreateRelaxedTable PROVE MigrationInv'
    OBVIOUS
<1> DEFINE d == [seen EXCEPT !.tables = @ \cup {Gens}, !.nullable = TRUE]
<1>1. seen = disk /\ disk' = d /\ seen' = d /\ at = "rebuild" /\ at' = "copy"
    BY DEF CreateRelaxedTable, Autocommit, Goto, MigrationInv, Transaction
<1>2. disk \in Database /\ Gens \in ModelTables
    BY Names DEF MigrationInv, MigrationTypeOK
<1>3. /\ d \in Database
      /\ d.tables = disk.tables \cup {Gens} /\ d.nullable
      /\ d.columns = disk.columns /\ d.rows = disk.rows
      /\ d.indexes = disk.indexes /\ d.assigned = disk.assigned
    BY <1>1, <1>2 DEF Database
<1> HIDE DEF d
<1>4. MigrationTypeOK'
    BY <1>1, <1>3 DEF MigrationInv, MigrationTypeOK, Stages, CreateRelaxedTable, Goto
<1>5. Transaction' /\ Kept' /\ Reached' /\ disk'.assigned \subseteq stored'
    <2>1. /\ stored' = stored /\ pending' = pending /\ pending = {}
          /\ Old \in disk.tables /\ Gens \notin disk.tables /\ disk.rows[Gens] = {}
        BY <1>1 DEF MigrationInv, Kept, Reached, CreateRelaxedTable, Goto
    <2>2. Transaction' /\ disk'.assigned \subseteq stored'
        BY <1>1, <1>3, <2>1 DEF MigrationInv, Transaction
    <2>3. Kept'
        BY <1>1, <1>3, <2>1 DEF MigrationInv, Kept
    <2>4. Reached'
        <3>1. /\ ExamColumns \cup RoomColumns \subseteq disk.columns /\ HasLayout(disk)
              /\ ModelTables \subseteq d.tables
            BY <1>1, <1>3, <2>1, Names DEF MigrationInv, Reached
        <3>2. HasLayout(d)
            BY <3>1, <1>3, <2>1, Names DEF HasLayout
        <3> QED
            BY <1>1, <1>3, <2>1, <3>1, <3>2, Names DEF Reached
    <2> QED
        BY <2>2, <2>3, <2>4
<1>6. ASSUME ~cut' PROVE Undisturbed'
    BY <1>1, <1>3, <1>6, Names
    DEF MigrationInv, Undisturbed, HalfBuilt, CreateRelaxedTable, Goto
<1> QED
    BY <1>4, <1>5, <1>6, <1>1, <1>3 DEF MigrationInv

\* The copy is in the transaction only; in the file the rows are still in one place.
LEMMA CopyRowsKeeps == MigrationInv /\ CopyRows => MigrationInv'
    BY Names
    DEF MigrationInv, MigrationTypeOK, Stages, Transaction, Kept, Reached,
        Undisturbed, IndexPlace, HalfBuilt, HasLayout, CopyRows, Goto,
        InTransaction, Copied, Contents, Database

\* The renamed table is dropped in the transaction only.
LEMMA DropOldTableKeeps == MigrationInv /\ DropOldTable => MigrationInv'
<1> SUFFICES ASSUME MigrationInv, DropOldTable PROVE MigrationInv'
    OBVIOUS
<1> DEFINE d == [seen EXCEPT !.tables = @ \ {Old},
                             !.rows = Contents(seen.rows[Gens], {}),
                             !.indexes = Moved(@, Old, "none")]
<1>1. seen' = d /\ disk' = disk /\ at = "drop" /\ at' = "exam_index"
    BY DEF DropOldTable, InTransaction, Goto
<1>2. seen \in Database /\ disk \in Database
    BY DEF MigrationInv, MigrationTypeOK
<1>3. /\ Contents(seen.rows[Gens], {}) \in [{Gens, Old} -> SUBSET Generation]
      /\ Contents(seen.rows[Gens], {})[Gens] = seen.rows[Gens]
      /\ Contents(seen.rows[Gens], {})[Old] = {}
    BY <1>2, Names DEF Contents, Database
<1>4. /\ Moved(seen.indexes, Old, "none") \in [Index -> ModelTables \cup {Old, "none"}]
      /\ seen.indexes[CodeIndex] = "rooms" =>
             Moved(seen.indexes, Old, "none")[CodeIndex] = "rooms"
    BY <1>2, Names DEF Moved, Database
<1>5. /\ d \in Database
      /\ d.tables = seen.tables \ {Old} /\ d.nullable = seen.nullable
      /\ d.columns = seen.columns /\ d.assigned = seen.assigned
      /\ d.rows[Gens] = seen.rows[Gens] /\ d.rows[Old] = {}
      /\ seen.indexes[CodeIndex] = "rooms" => d.indexes[CodeIndex] = "rooms"
    BY <1>2, <1>3, <1>4 DEF Database
<1> HIDE DEF d
<1>6. MigrationTypeOK'
    BY <1>1, <1>2, <1>5 DEF MigrationInv, MigrationTypeOK, Stages, DropOldTable, Goto
<1>7. Transaction' /\ Kept' /\ Reached' /\ disk'.assigned \subseteq stored'
    BY <1>1, <1>5, Names
    DEF MigrationInv, Transaction, Kept, Reached, HasLayout, DropOldTable, Goto
<1>8. ASSUME ~cut' PROVE Undisturbed'
    BY <1>1, <1>5, <1>8, Names DEF MigrationInv, Undisturbed, HalfBuilt,
        DropOldTable, Goto
<1> QED
    BY <1>6, <1>7, <1>8 DEF MigrationInv

\* All rows move to the renamed table, which did not exist.
LEMMA RenameTableKeeps == MigrationInv /\ RenameTable => MigrationInv'
<1> SUFFICES ASSUME MigrationInv, RenameTable PROVE MigrationInv'
    OBVIOUS
<1> DEFINE d == [seen EXCEPT !.tables = (@ \ {Gens}) \cup {Old},
                             !.rows = Contents({}, seen.rows[Gens]),
                             !.indexes = Moved(@, Gens, Old)]
<1>1. /\ seen = disk /\ disk' = d /\ seen' = d
      /\ at = "relax" /\ at' = "rebuild" /\ ~disk.nullable /\ Old \notin disk.tables
    BY DEF RenameTable, Autocommit, Goto, MigrationInv, Transaction
<1>2. disk \in Database
    BY DEF MigrationInv, MigrationTypeOK
<1>3. /\ Contents({}, disk.rows[Gens]) \in [{Gens, Old} -> SUBSET Generation]
      /\ Contents({}, disk.rows[Gens])[Gens] = {}
      /\ Contents({}, disk.rows[Gens])[Old] = disk.rows[Gens]
    BY <1>2, Names DEF Contents, Database
<1>4. /\ Moved(disk.indexes, Gens, Old) \in [Index -> ModelTables \cup {Old, "none"}]
      /\ disk.indexes[CodeIndex] = "rooms" =>
             Moved(disk.indexes, Gens, Old)[CodeIndex] = "rooms"
    BY <1>2, Names DEF Moved, Database, Gens
<1>5. /\ d \in Database
      /\ d.tables = (disk.tables \ {Gens}) \cup {Old} /\ d.nullable = disk.nullable
      /\ d.columns = disk.columns /\ d.assigned = disk.assigned
      /\ d.rows[Gens] = {} /\ d.rows[Old] = disk.rows[Gens]
      /\ disk.indexes[CodeIndex] = "rooms" => d.indexes[CodeIndex] = "rooms"
    BY <1>1, <1>2, <1>3, <1>4 DEF Database
<1> HIDE DEF d
<1>6. MigrationTypeOK'
    BY <1>1, <1>5 DEF MigrationInv, MigrationTypeOK, Stages, RenameTable, Goto
<1>7. Transaction' /\ Kept' /\ Reached' /\ disk'.assigned \subseteq stored'
    <2>1. disk.rows[Old] = {} /\ stored = disk.rows[Gens] /\ \A g \in disk.rows[Gens] : g.past
        BY <1>1, Names DEF MigrationInv, Kept
    <2> QED
        BY <1>1, <1>5, <2>1, Names
        DEF MigrationInv, Transaction, Kept, Reached, HasLayout, RenameTable, Goto
<1>8. ASSUME ~cut' PROVE Undisturbed'
    <2>1. ~cut /\ stored' = stored /\ pending = {}
        BY <1>1, <1>8 DEF MigrationInv, Reached, RenameTable, Goto
    <2>2. disk.indexes[CodeIndex] = "rooms"
        BY <1>1, <2>1, Names
        DEF MigrationInv, Undisturbed, IndexPlace, Reached, HalfBuilt, Gens
    <2> QED
        BY <1>1, <1>5, <2>1, <2>2 DEF MigrationInv, Undisturbed, HalfBuilt
<1> QED
    BY <1>6, <1>7, <1>8 DEF MigrationInv


\* A table create_all() makes is empty and of the current schema.
LEMMA CreateTableKeeps == MigrationInv /\ CreateTable => MigrationInv'
<1> SUFFICES ASSUME MigrationInv, CreateTable PROVE MigrationInv'
    OBVIOUS
<1>1. PICK t \in ModelTables :
          /\ t \notin seen.tables
          /\ Autocommit([seen EXCEPT !.tables = @ \cup {t},
                                     !.columns = @ \cup ColumnsIn(t),
                                     !.nullable = @ \/ t = Gens])
          /\ pending' = IndexesOf(t)
    BY DEF CreateTable, ModelTables
<1> DEFINE d == [seen EXCEPT !.tables = @ \cup {t},
                             !.columns = @ \cup ColumnsIn(t),
                             !.nullable = @ \/ t = Gens]
<1>2. /\ seen = disk /\ disk' = d /\ seen' = d /\ at = "create" /\ at' = at
      /\ pending = {} /\ stored' = stored /\ cut' = cut /\ stops' = stops
      /\ pending' = IndexesOf(t) /\ t \notin disk.tables
    BY <1>1 DEF CreateTable, Autocommit, MigrationInv, Transaction
<1>3. disk \in Database
    BY DEF MigrationInv, MigrationTypeOK
<1>4. /\ ColumnsIn(t) \subseteq ExamColumns \cup RoomColumns
      /\ t = "exams" => ColumnsIn(t) = ExamColumns
      /\ t = "rooms" => ColumnsIn(t) = RoomColumns
    BY DEF ColumnsIn
<1>5. /\ d \in Database
      /\ d.tables = disk.tables \cup {t} /\ d.nullable = (disk.nullable \/ t = Gens)
      /\ d.columns = disk.columns \cup ColumnsIn(t) /\ d.rows = disk.rows
      /\ d.indexes = disk.indexes /\ d.assigned = disk.assigned
    BY <1>2, <1>3, <1>4 DEF Database
<1> HIDE DEF d
<1>6. MigrationTypeOK'
    BY <1>2, <1>5 DEF MigrationInv, MigrationTypeOK, IndexesOf
<1>7. Transaction' /\ Kept' /\ disk'.assigned \subseteq stored'
    BY <1>2, <1>5, Names DEF MigrationInv, Transaction, Kept
<1>8. Reached'
    BY <1>2, <1>4, <1>5, Names DEF MigrationInv, Reached, HasLayout, IndexesOf,
        RoomColumns
<1>9. ASSUME ~cut' PROVE Undisturbed'
    BY <1>2, <1>5, <1>9, Names
    DEF MigrationInv, Undisturbed, IndexPlace, HalfBuilt, IndexesOf
<1> QED
    BY <1>6, <1>7, <1>8, <1>9 DEF MigrationInv

\* A new generation is in the table only, and when nothing is hidden its key is
\* new.
LEMMA StoreGenerationKeeps == MigrationInv /\ StoreGeneration => MigrationInv'
<1> SUFFICES ASSUME MigrationInv, StoreGeneration PROVE MigrationInv'
    OBVIOUS
<1>1. PICK g \in NextGeneration(seen) :
          /\ Autocommit([seen EXCEPT !.rows = Contents(@[Gens] \cup {g}, @[Old]),
                                     !.assigned = @ \cup {g}])
          /\ stored' = stored \cup {g}
    BY DEF StoreGeneration
<1> DEFINE rows == Contents(disk.rows[Gens] \cup {g}, disk.rows[Old])
           d == [disk EXCEPT !.rows = rows, !.assigned = @ \cup {g}]
<1>2. /\ seen = disk /\ disk' = d /\ seen' = d /\ at = "up" /\ at' = at
      /\ pending' = pending /\ cut' = cut /\ stops' = stops
      /\ stored' = stored \cup {g}
    BY <1>1 DEF StoreGeneration, Autocommit, MigrationInv, Transaction
<1>3. /\ disk \in Database
      /\ g \in Generation /\ ~g.past /\ \A h \in disk.rows[Gens] : h.id < g.id
    BY <1>1, <1>2 DEF MigrationInv, MigrationTypeOK, NextGeneration
<1>4. /\ rows \in [{Gens, Old} -> SUBSET Generation]
      /\ rows[Gens] = disk.rows[Gens] \cup {g} /\ rows[Old] = disk.rows[Old]
    BY <1>3, Names DEF Contents, Database
<1> HIDE DEF rows
<1>5. /\ d \in Database
      /\ d.tables = disk.tables /\ d.nullable = disk.nullable /\ d.columns = disk.columns
      /\ d.rows = rows /\ d.indexes = disk.indexes
      /\ d.assigned = disk.assigned \cup {g}
    BY <1>3, <1>4 DEF Database
<1> HIDE DEF d
<1>6. MigrationTypeOK'
    BY <1>2, <1>3, <1>5 DEF MigrationInv, MigrationTypeOK
<1>7. Transaction' /\ Kept' /\ Reached' /\ disk'.assigned \subseteq stored'
    BY <1>2, <1>3, <1>4, <1>5, Names DEF MigrationInv, Transaction, Kept, Reached,
        HasLayout
<1>8. ASSUME ~cut' PROVE Undisturbed'
    <2>1. Undisturbed /\ Old \notin disk.tables
        BY <1>2, <1>8 DEF MigrationInv, Undisturbed, HalfBuilt
    <2>2. stored = disk.rows[Gens]
        BY <2>1 DEF MigrationInv, Kept
    <2>3. \A h \in stored : h.id # g.id
        BY <1>3, <2>2 DEF MigrationInv, MigrationTypeOK, Generation
    <2> QED
        BY <1>2, <1>5, <2>1, <2>3 DEF Undisturbed, IndexPlace, HalfBuilt
<1> QED
    BY <1>6, <1>7, <1>8 DEF MigrationInv

\* Every step keeps the invariant.
LEMMA MigrationKept == MigrationInv /\ [MigrationNext]_migrationVars => MigrationInv'
<1> SUFFICES ASSUME MigrationInv, [MigrationNext]_migrationVars PROVE MigrationInv'
    OBVIOUS
<1>1. CASE UNCHANGED migrationVars
    BY <1>1 DEF migrationVars, MigrationInv, MigrationTypeOK, Transaction, Kept,
        Reached, Undisturbed, IndexPlace, HalfBuilt, HasLayout
<1>2. CASE Start
    BY <1>2, StartKeeps
<1>3. CASE InitDb
    BY <1>3, CheckSchemaKeeps, AddRowsKeeps, AddColumnsKeeps, TopologyDoneKeeps,
        AddBlockedSeatsKeeps, CreateTableKeeps, CreateIndexKeeps, IndexNameTakenKeeps,
        TablesCreatedKeeps, SkipRebuildKeeps, RenameTableKeeps, CreateRelaxedTableKeeps,
        CopyRowsKeeps, DropOldTableKeeps, RebuildExamIndexKeeps,
        RebuildSessionIndexKeeps, CommitRebuildKeeps
    DEF InitDb
<1>4. CASE StoreGeneration
    BY <1>4, StoreGenerationKeeps
<1>5. CASE Stop
    BY <1>5, StopKeeps
<1> QED
    BY <1>1, <1>2, <1>3, <1>4, <1>5 DEF MigrationNext

-----------------------------------------------------------------------------
\* The invariant holds in every state, for every set of past files, any number of
\* stops and of generations.
THEOREM MigrationInvariantHolds == MigrationSpec => []MigrationInv
<1> QED
    BY MigrationInitially, MigrationKept, PTL DEF MigrationSpec

\* The state of the migration is well typed.
THEOREM MigrationTypeCorrect == MigrationSpec => []MigrationTypeOK
<1>1. MigrationInv => MigrationTypeOK
    BY DEF MigrationInv
<1> QED
    BY <1>1, MigrationInvariantHolds, PTL

\* However often a start is cut short, between whichever statements of init_db, no
\* generation ever leaves the file or is in it twice.
THEOREM NothingIsForgotten == MigrationSpec => []NothingForgotten
<1>1. MigrationInv => NothingForgotten
    BY DEF MigrationInv, Kept, NothingForgotten
<1> QED
    BY <1>1, MigrationInvariantHolds, PTL

\* A server that init_db() let start has every table and column of the models.
THEOREM ServedSchemaIsCurrent == MigrationSpec => []ServedSchemaCurrent
<1>1. MigrationInv => ServedSchemaCurrent
    BY Names DEF MigrationInv, Reached, HasLayout, ServedSchemaCurrent
<1> QED
    BY <1>1, MigrationInvariantHolds, PTL

\* Without a stop between the statements that build one table, nothing stored is
\* out of sight, every index is in place and no key is handed out twice.
THEOREM OnlyInterruptionHides == MigrationSpec => []HiddenOnlyByInterruption
<1>1. MigrationInv => HiddenOnlyByInterruption
    <2> SUFFICES ASSUME MigrationInv, at = "up", ~cut
                 PROVE  /\ stored = disk.rows[Gens] /\ Old \notin disk.tables
                        /\ \A i \in Index : disk.indexes[i] = Owner(i)
                        /\ \A g, h \in disk.assigned : g.id = h.id => g = h
        BY DEF HiddenOnlyByInterruption
    <2>1. Undisturbed /\ Old \notin disk.tables
        BY DEF MigrationInv, Undisturbed, HalfBuilt
    <2>2. \A i \in Index : IndexPlace(i) = Owner(i)
        BY Names DEF MigrationInv, Reached, IndexPlace
    <2> QED
        BY <2>1, <2>2 DEF MigrationInv, Kept, Undisturbed, HalfBuilt
<1> QED
    BY <1>1, MigrationInvariantHolds, PTL
=============================================================================
