-------------------------- MODULE SeatingContract ---------------------------
(***************************************************************************)
(* What any SeatingStrategy promises its caller (backend/app/seating/      *)
(* strategy.py, engine.py): from a set of registered students and a pool   *)
(* of seats it builds, one student at a time, a partial matching, and then *)
(* reports an outcome that agrees with it.  SequentialSeating and          *)
(* ConstraintSeating implement this module; SeatingLifecycle builds on it. *)
(***************************************************************************)
EXTENDS Naturals, FiniteSets

CONSTANTS Student, RoomId

VARIABLES registered,  \* the students to seat
          pool,        \* the seats, records [room, seat]
          placed,      \* the assignments made, records [student, room, seat]
          outcome      \* "none" while running, then the GenerationStatus

contractVars == <<registered, pool, placed, outcome>>

Seat == [room : RoomId, seat : Nat]

Seated == {a.student : a \in placed}

Taken == {[room |-> a.room, seat |-> a.seat] : a \in placed}

Verdict(n, k) ==
    IF n = k THEN "success" ELSE IF k = 0 THEN "failed" ELSE "partial"

Init ==
    /\ registered \subseteq Student
    /\ pool \subseteq Seat
    /\ placed = {}
    /\ outcome = "none"

\* A student still standing takes a seat still free.
Place(s, q) ==
    /\ outcome = "none"
    /\ s \in registered \ Seated
    /\ q \in pool \ Taken
    /\ placed' = placed \cup {[student |-> s, room |-> q.room, seat |-> q.seat]}
    /\ UNCHANGED <<registered, pool, outcome>>

\* The strategy stops and reports.
Conclude ==
    /\ outcome = "none"
    /\ outcome' = Verdict(Cardinality(registered), Cardinality(Seated))
    /\ UNCHANGED <<registered, pool, placed>>

Next ==
    \/ \E s \in registered, q \in pool : Place(s, q)
    \/ Conclude

Spec == Init /\ [][Next]_contractVars
=============================================================================
