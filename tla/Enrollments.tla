------------------------------ MODULE Enrollments ------------------------------
(***************************************************************************)
(* Enrollment of students in classrooms of limited capacity.               *)
(*                                                                         *)
(*   api/src/enrollments/enrollments.service.ts   create, update           *)
(*   api/src/students/students.service.ts         registerFullRude, import *)
(*   api/src/classrooms/classrooms.service.ts     update of the capacity   *)
(*                                                                         *)
(* An enrollment is one transaction that locks the classroom, writes the   *)
(* student and the guardians, and inserts the enrollment.  A transaction   *)
(* holds the lock of each row it writes; what it writes becomes visible at *)
(* its commit.  A person is known by the unique hash of an identity card:  *)
(* a student without one is a student whom no other form names.  Each row  *)
(* of an Excel import is a transaction, and a form, of its own.            *)
(***************************************************************************)
EXTENDS Integers, Sequences, FiniteSets

CONSTANTS
    Classrooms,     \* ids of classrooms rows
    Students,       \* students, by identity card
    Guardians,      \* guardians, by identity card
    Years,          \* ids of academic_years rows
    Handlers,       \* concurrent requests
    Places,         \* the capacity that classrooms are created with
    Forms,          \* the enrollment forms that requests may carry
    Patches,        \* the UpdateEnrollmentDto values
    Capacities,     \* the capacities that UpdateClassroomDto values may carry
    None            \* null or undefined; no row; a free lock

People     == Students \cup Guardians
Lockable   == Classrooms \cup People
Reserving  == {"INSCRITO", "REVISION_SIE"}
Occupying  == Reserving \cup {"OBSERVADO"}
Status     == Occupying \cup {"RETIRADO", "TRASLADO", "RECHAZADO"}
Enrollment == [room: Classrooms, type: {"NUEVO", "ANTIGUO", "TRASPASO"}, status: Status]

\* The people of a form are the student and then the guardians, in order.
\* coded: it carries a RUDE code.  The year and the status matter to some.
Form  == [via: {"create", "registerFullRude", "import"}, people: Seq(People),
          room: Classrooms, year: Years, coded: BOOLEAN,
          type: {"NUEVO", "ANTIGUO", "TRASPASO"}, status: Status]
Patch == [status: Status \cup {None}, coded: BOOLEAN, room: Classrooms \cup {None},
          type: {"NUEVO", "ANTIGUO", "TRASPASO"} \cup {None}]

ASSUME EnrollmentsAssumption ==
    /\ Classrooms \cap People = {} /\ Students \cap Guardians = {}
    /\ None \notin Lockable \cup Years \cup Handlers \cup Status
    /\ None \notin Enrollment
    /\ IsFiniteSet(Students) /\ IsFiniteSet(Years)
    /\ Places \in Nat /\ Capacities \subseteq Nat
    /\ Forms \subseteq Form /\ Patches \subseteq Patch
    /\ \A f \in Forms : f.people # <<>> /\ f.people[1] \in Students

VARIABLES
    capacity,   \* of each classroom
    enrolled,   \* the enrollment of a student in a year: one, or None
    known,      \* people that have a row
    coded,      \* students that have a RUDE code
    active,     \* the ACTIVE academic year
    holder,     \* who holds the lock of a row
    req         \* state of each request

rows == <<capacity, enrolled, known, coded>>
vars == <<capacity, enrolled, known, coded, active, holder, req>>

Request == [pc: {"idle", "room", "person", "write", "year", "commit", "patch", "resize"},
            form: Forms \cup {None},
            next: Nat,                  \* the person of the form to deal with
            found: BOOLEAN,             \* that person had a row when looked for
            student: Students \cup {None}, year: Years \cup {None},
            patch: Patches \cup {None},
            room: Classrooms \cup {None}, size: Capacities \cup {None}]
Idle == [pc |-> "idle", form |-> None, next |-> 1, found |-> FALSE, student |-> None,
         year |-> None, patch |-> None, room |-> None, size |-> None]

TypeOK ==
    /\ capacity \in [Classrooms -> Nat]
    /\ enrolled \in [Students -> [Years -> Enrollment \cup {None}]]
    /\ known \in SUBSET People
    /\ coded \in SUBSET Students
    /\ active \in Years \cup {None}
    /\ holder \in [Lockable -> Handlers \cup {None}]
    /\ req \in [Handlers -> Request]

Init ==
    /\ capacity = [c \in Classrooms |-> Places]
    /\ enrolled = [s \in Students |-> [y \in Years |-> None]]
    /\ known = {}
    /\ coded = {}
    /\ active = None
    /\ holder = [x \in Lockable |-> None]
    /\ req = [h \in Handlers |-> Idle]

IsEnrolled(s, y) == enrolled[s][y] # None
\* The students that hold a seat of a classroom, with one of these statuses.
Seated(c, statuses) ==
    {p \in Students \X Years :
        /\ IsEnrolled(p[1], p[2])
        /\ enrolled[p[1]][p[2]].room = c
        /\ enrolled[p[1]][p[2]].status \in statuses}

Released(h) == [x \in Lockable |-> IF holder[x] = h THEN None ELSE holder[x]]

\* The transaction fails: its locks are free and its writes are gone.
Fails(h) ==
    /\ holder' = Released(h)
    /\ req' = [req EXCEPT ![h] = Idle]
Takes(h, x) == holder' = [holder EXCEPT ![x] = h]
Goes(h, r)  == req' = [req EXCEPT ![h] = r]

-----------------------------------------------------------------------------
(***************************************************************************)
(* create, registerFullRude and the rows of importStudentsFromExcel        *)
(***************************************************************************)
Submit(h) ==
    /\ req[h].pc = "idle"
    /\ \E f \in Forms :
          Goes(h, [Idle EXCEPT !.pc = IF f.via = "import" THEN "person" ELSE "room",
                               !.form = f, !.student = f.people[1],
                               !.year = IF f.via = "create" THEN None ELSE f.year])
    /\ UNCHANGED <<rows, active, holder>>

\* SELECT ... FOR UPDATE waits for the classroom; then the seats are counted.
RoomFree_NotLocked(c) == TRUE
RoomFree(c) == holder[c] = None

CountedBy(via) == IF via = "create" THEN Reserving ELSE Occupying
HasSeat_AtLimit(f) ==
    Cardinality(Seated(f.room, CountedBy(f.via))) <= capacity[f.room]
HasSeat(f) ==
    Cardinality(Seated(f.room, CountedBy(f.via))) < capacity[f.room]

\* An import has dealt with its people before it locks the classroom.
TakeRoom(h) ==
    LET r == req[h]
        f == r.form
    IN  /\ r.pc = "room"
        /\ RoomFree(f.room)
        /\ \/ /\ ~HasSeat(f) \/ (f.via = "import" /\ IsEnrolled(r.student, r.year))
              /\ Fails(h)
           \/ /\ HasSeat(f)
              /\ ~(f.via = "import" /\ IsEnrolled(r.student, r.year))
              /\ Takes(h, f.room)
              /\ Goes(h, [r EXCEPT !.pc = IF f.via = "import" THEN "commit" ELSE "person"])
        /\ UNCHANGED <<rows, active>>

\* What follows when person number i has been dealt with.
After(r, i) ==
    [r EXCEPT !.next = i + 1,
              !.pc = IF i < Len(r.form.people) THEN "person"
                     ELSE CASE r.form.via = "create"           -> "year"
                            [] r.form.via = "registerFullRude" -> "commit"
                            [] r.form.via = "import"           -> "room"]
\* registerFullRude refuses a student who is enrolled in that year already.
RefusedAfter(r, i) ==
    r.form.via = "registerFullRude" /\ i = 1 /\ IsEnrolled(r.student, r.year)
PersonDone(h, p, written) ==
    LET r == req[h] IN
    IF RefusedAfter(r, r.next) THEN Fails(h)
    ELSE /\ IF written THEN Takes(h, p) ELSE UNCHANGED holder
         /\ Goes(h, After(r, r.next))

\* create upserts each person; the others look a person up, and write one
\* who is not found (or a student for whom the import brings a RUDE code).
SeesRow(r, p) == p \in known \/ \E i \in 1..(r.next - 1) : r.form.people[i] = p
FindPerson(h) ==
    LET r == req[h]
        p == r.form.people[r.next]
        writes == \/ r.form.via = "create"
                  \/ ~SeesRow(r, p)
                  \/ r.form.via = "import" /\ r.form.coded /\ p \in Students
    IN  /\ r.pc = "person"
        /\ IF writes
           THEN /\ Goes(h, [r EXCEPT !.pc = "write", !.found = SeesRow(r, p)])
                /\ UNCHANGED holder
           ELSE PersonDone(h, p, FALSE)
        /\ UNCHANGED <<rows, active>>

\* A row that the transaction has written before is its own; a write on another
\* connection, past the transaction (this.prisma instead of tx), would wait for it.
RowFree_OutsideTransaction(h, p) == holder[p] = None
RowFree(h, p) == holder[p] \in {None, h}

\* The write waits for another transaction that has written the same person;
\* an insert that finds the row there by now breaks the unique index.
WritePerson(h) ==
    LET r == req[h]
        p == r.form.people[r.next]
    IN  /\ r.pc = "write"
        /\ RowFree(h, p)
        /\ IF r.form.via # "create" /\ ~r.found /\ p \in known
           THEN Fails(h)
           ELSE PersonDone(h, p, TRUE)
        /\ UNCHANGED <<rows, active>>

\* create takes the year that is active; no year is, no enrollment.
ReadYear(h) ==
    /\ req[h].pc = "year"
    /\ IF active = None THEN Fails(h)
       ELSE /\ Goes(h, [req[h] EXCEPT !.pc = "commit", !.year = active])
            /\ UNCHANGED holder
    /\ UNCHANGED <<rows, active>>

\* An imported student without a RUDE code stays in REVISION_SIE.
NewStatus_AsAsked(f) == IF f.via = "import" THEN f.status ELSE "REVISION_SIE"
NewStatus(f) == IF f.via = "import" /\ f.coded THEN f.status ELSE "REVISION_SIE"

\* The enrollment and its RUDE record are inserted; a second enrollment of
\* the student in the year breaks the unique index and fails.
Commit(h) ==
    LET r == req[h]
        f == r.form
        s == r.student
    IN  /\ r.pc = "commit"
        /\ IF IsEnrolled(s, r.year) THEN UNCHANGED rows
           ELSE /\ enrolled' = [enrolled EXCEPT ![s][r.year] =
                      [room |-> f.room, type |-> f.type, status |-> NewStatus(f)]]
                /\ known' = known \cup {f.people[i] : i \in DOMAIN f.people}
                /\ coded' = IF f.coded /\ (f.via = "import" \/ s \notin known)
                            THEN coded \cup {s} ELSE coded
                /\ UNCHANGED capacity
        /\ holder' = Released(h)
        /\ Goes(h, Idle)
        /\ UNCHANGED active

-----------------------------------------------------------------------------
(***************************************************************************)
(* EnrollmentsService.update                                               *)
(***************************************************************************)
MayEnroll_AnyType(e, s, patch) == TRUE
MayEnroll(e, s, patch) == e.type = "ANTIGUO" \/ patch.coded \/ s \in coded

PatchRead(h) ==
    /\ req[h].pc = "idle"
    /\ \E s \in Students, y \in Years, p \in Patches :
          /\ IsEnrolled(s, y)
          /\ p.status = "INSCRITO" => MayEnroll(enrolled[s][y], s, p)
          /\ Goes(h, [Idle EXCEPT !.pc = "patch", !.student = s, !.year = y, !.patch = p])
    /\ UNCHANGED <<rows, active, holder>>

\* The fields of the DTO replace those of the row.
Patched_UndefinedOverwrites(row, patch) == [f \in DOMAIN row |-> patch[f]]
Patched(row, patch) ==
    [f \in DOMAIN row |-> IF patch[f] = None THEN row[f] ELSE patch[f]]

\* A RUDE code goes to the student, whose row has to be free.
PatchCommit(h) ==
    LET r == req[h] IN
    /\ r.pc = "patch"
    /\ r.patch.coded => holder[r.student] = None
    /\ enrolled' = [enrolled EXCEPT ![r.student][r.year] =
          Patched(@, r.patch)]
    /\ coded' = IF r.patch.coded THEN coded \cup {r.student} ELSE coded
    /\ Goes(h, Idle)
    /\ UNCHANGED <<capacity, known, active, holder>>

(***************************************************************************)
(* ClassroomsService.update, of the capacity: count, then write            *)
(***************************************************************************)
ResizeCheck(h) ==
    /\ req[h].pc = "idle"
    /\ \E c \in Classrooms, n \in Capacities :
          /\ n >= Cardinality(Seated(c, Occupying))
          /\ Goes(h, [Idle EXCEPT !.pc = "resize", !.room = c, !.size = n])
    /\ UNCHANGED <<rows, active, holder>>

ResizeWrite(h) ==
    /\ req[h].pc = "resize"
    /\ RoomFree(req[h].room)
    /\ capacity' = [capacity EXCEPT ![req[h].room] = req[h].size]
    /\ Goes(h, Idle)
    /\ UNCHANGED <<enrolled, known, coded, active, holder>>

-----------------------------------------------------------------------------
(***************************************************************************)
(* Failures and the rest of the API                                        *)
(***************************************************************************)
WaitsFor(h, g) ==
    LET r == req[h] IN
    \/ r.pc = "room" /\ holder[r.form.room] = g
    \/ r.pc = "write" /\ g # h /\ holder[r.form.people[r.next]] = g
\* PostgreSQL finds the cycle of those who wait for each other, and aborts one.
Deadlocked(h) ==
    \E cycle \in SUBSET Handlers :
        /\ h \in cycle
        /\ \A k \in cycle : /\ \E g \in cycle : WaitsFor(k, g)
                            /\ \E g \in cycle : WaitsFor(g, k)
DeadlockAbort(h) ==
    /\ Deadlocked(h)
    /\ Fails(h)
    /\ UNCHANGED <<rows, active>>

\* A transaction that expires or loses its connection, a process that stops.
Abort(h) ==
    /\ req[h].pc # "idle"
    /\ Fails(h)
    /\ UNCHANGED <<rows, active>>

\* AcademicYearsService: a year becomes active, or the active one is closed.
ChangeYear ==
    /\ active' \in (Years \cup {None}) \ {active}
    /\ UNCHANGED <<rows, holder, req>>

Step(h) == \/ TakeRoom(h) \/ FindPerson(h) \/ WritePerson(h) \/ ReadYear(h)
           \/ Commit(h) \/ PatchCommit(h) \/ ResizeWrite(h) \/ DeadlockAbort(h)

Next ==
    \/ \E h \in Handlers : \/ Submit(h) \/ PatchRead(h) \/ ResizeCheck(h)
                           \/ Step(h) \/ Abort(h)
    \/ ChangeYear

Spec == Init /\ [][Next]_vars

\* A request that has started goes on, and PostgreSQL serves those who wait
\* for a lock in order: strong fairness, since others may take it in between.
FairSpec == Spec /\ \A h \in Handlers : SF_vars(Step(h))

-----------------------------------------------------------------------------
(***************************************************************************)
(* Properties                                                              *)
(***************************************************************************)

\* No classroom has more students INSCRITO or in REVISION_SIE than seats, however
\* concurrent enrollments of its last seat interleave.  (Only as long as the
\* secretary takes seats away but gives none back by update, which checks none.)
SeatsWithinCapacity ==
    \A c \in Classrooms : Cardinality(Seated(c, Reserving)) <= capacity[c]

\* The seats that the database shows are booked one by one, as Seats has it: the
\* lock, the count, the people and the insert of a form amount to one step.
Bookings == INSTANCE Seats WITH
    Rooms <- Classrooms, Pupils <- Students \X Years,
    InitialCapacity <- Places, Nobody <- None,
    seat <- [p \in Students \X Years |->
                IF IsEnrolled(p[1], p[2]) /\ enrolled[p[1]][p[2]].status \in Reserving
                THEN enrolled[p[1]][p[2]].room ELSE None]
BooksSeats == Bookings!Spec

\* "Evitar la sobreventa de cupos": the same for every active status, which is
\* what registerFullRude, the import and the classroom service count.
NoOverselling ==
    \A c \in Classrooms : Cardinality(Seated(c, Occupying)) <= capacity[c]

\* Whoever is INSCRITO and not ANTIGUO has a RUDE code, by whichever way in: the
\* import's status, the secretary's approval or a code that came before.  (As
\* long as no update turns an ANTIGUO enrollment into another type: none is
\* checked for that.)
EnrolledHaveCode ==
    \A s \in Students, y \in Years :
        IsEnrolled(s, y) /\ enrolled[s][y].status = "INSCRITO"
            /\ enrolled[s][y].type # "ANTIGUO" => s \in coded

\* No request waits for ever: create locks the classroom and then the people,
\* an import the people and then the classroom, so two of them may deadlock.
EveryRequestEnds ==
    \A h \in Handlers : req[h].pc # "idle" ~> req[h].pc = "idle"
=============================================================================
