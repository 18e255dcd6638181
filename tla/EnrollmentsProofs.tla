--------------------------- MODULE EnrollmentsProofs ---------------------------
(***************************************************************************)
(* Theorems about Enrollments, for any classrooms, people, forms, updates  *)
(* and requests.                                                           *)
(***************************************************************************)
EXTENDS Enrollments, FiniteSetTheorems, TLAPS

-----------------------------------------------------------------------------
(***************************************************************************)
(* The invariant of types                                                  *)
(***************************************************************************)
Transaction == {"room", "person", "write", "year", "commit"}

\* A request that carries a form has the person, the year and the place in the
\* form that its next statement needs; an update has its row, a resize its room.
RequestOK(r) ==
    /\ r.pc \in Transaction =>
          /\ r.form \in Forms
          /\ r.student = r.form.people[1]
          /\ r.pc = "commit" \/ r.form.via # "create" => r.year \in Years
    /\ r.pc = "room" /\ r.form.via # "import" => r.next = 1
    /\ r.pc \in {"person", "write"} => r.next \in 1..Len(r.form.people)
    /\ r.pc = "year" => r.form.via = "create"
    /\ r.pc = "patch" => r.student \in Students /\ r.year \in Years /\ r.patch \in Patches
    /\ r.pc = "resize" => r.room \in Classrooms /\ r.size \in Capacities

Requests == \A h \in Handlers : RequestOK(req[h])

\* An update has found an enrollment, and enrollments are never deleted.
PatchesFound ==
    \A h \in Handlers : req[h].pc = "patch" => IsEnrolled(req[h].student, req[h].year)

TypeInv == TypeOK /\ Requests /\ PatchesFound

\* A form is complete: its student is a student, its people are people.
LEMMA FormFacts ==
    ASSUME NEW f \in Forms
    PROVE  /\ f.people \in Seq(People) /\ Len(f.people) \in Nat \ {0}
           /\ f.people[1] \in Students
           /\ f.room \in Classrooms /\ f.year \in Years /\ f.coded \in BOOLEAN
           /\ f.via \in {"create", "registerFullRude", "import"}
           /\ f.type \in {"NUEVO", "ANTIGUO", "TRASPASO"} /\ f.status \in Status
           /\ \A i \in 1..Len(f.people) : f.people[i] \in People
  <1>1. f \in Form /\ f.people # <<>> /\ f.people[1] \in Students
    BY EnrollmentsAssumption
  <1>2. f.people \in Seq(People)
    BY <1>1 DEF Form
  <1> QED BY <1>1, <1>2 DEF Form

LEMMA NullFacts ==
    /\ None \notin Classrooms /\ None \notin People /\ None \notin Students
    /\ None \notin Handlers /\ None \notin Enrollment /\ None \notin Status
    /\ Classrooms \cap People = {}
  BY EnrollmentsAssumption DEF Lockable, People

-----------------------------------------------------------------------------
(***************************************************************************)
(* Requests                                                                *)
(***************************************************************************)
LEMMA IdleRequest == Idle \in Request /\ RequestOK(Idle) /\ Idle.pc = "idle"
  BY DEF Idle, Request, RequestOK, Transaction

\* A request that goes on to a record in order leaves all of them in order.
LEMMA RequestGoes ==
    ASSUME TypeInv, NEW h \in Handlers, NEW r \in Request, RequestOK(r), Goes(h, r)
    PROVE  /\ req' \in [Handlers -> Request]
           /\ Requests'
           /\ \A g \in Handlers : req'[g] = IF g = h THEN r ELSE req[g]
  <1>1. req' = [req EXCEPT ![h] = r] /\ req \in [Handlers -> Request]
    BY DEF Goes, TypeInv, TypeOK
  <1>2. \A g \in Handlers : req'[g] = IF g = h THEN r ELSE req[g]
    BY <1>1
  <1>3. Requests'
    BY <1>2 DEF TypeInv, Requests
  <1> QED BY <1>1, <1>2, <1>3

LEMMA RequestFacts ==
    ASSUME TypeInv, NEW h \in Handlers
    PROVE  req[h] \in Request /\ RequestOK(req[h])
  BY DEF TypeInv, TypeOK, Requests

LEMMA SubmitFields ==
    ASSUME NEW pc, NEW f, NEW s, NEW y, NEW r,
           r = [Idle EXCEPT !.pc = pc, !.form = f, !.student = s, !.year = y]
    PROVE  r = [pc |-> pc, form |-> f, next |-> 1, found |-> FALSE, student |-> s,
                year |-> y, patch |-> None, room |-> None, size |-> None]
  BY DEF Idle

LEMMA SubmittedRecord ==
    ASSUME NEW f \in Forms, NEW s, s = f.people[1],
           NEW pc \in {"person", "room"}, pc = "room" <=> f.via # "import",
           NEW y \in Years \cup {None}, f.via # "create" => y \in Years,
           NEW r,
           r = [pc |-> pc, form |-> f, next |-> 1, found |-> FALSE, student |-> s,
                year |-> y, patch |-> None, room |-> None, size |-> None]
    PROVE  r \in Request /\ RequestOK(r) /\ r.pc # "patch"
  <1>1. r \in Request
    BY FormFacts DEF Request
  <1>2. RequestOK(r)
    BY FormFacts DEF RequestOK, Transaction
  <1> QED BY <1>1, <1>2

LEMMA SubmitRecord ==
    ASSUME NEW f \in Forms, NEW r,
           r = [Idle EXCEPT !.pc = IF f.via = "import" THEN "person" ELSE "room",
                            !.form = f, !.student = f.people[1],
                            !.year = IF f.via = "create" THEN None ELSE f.year]
    PROVE  r \in Request /\ RequestOK(r) /\ r.pc # "patch"
  <1>1. PICK pc : pc = IF f.via = "import" THEN "person" ELSE "room"
    OBVIOUS
  <1>2. PICK year : year = IF f.via = "create" THEN None ELSE f.year
    OBVIOUS
  <1>3. PICK s : s = f.people[1]
    OBVIOUS
  <1>4. r = [pc |-> pc, form |-> f, next |-> 1, found |-> FALSE, student |-> s,
             year |-> year, patch |-> None, room |-> None, size |-> None]
    BY <1>1, <1>2, <1>3, SubmitFields
  <1>5. pc \in {"person", "room"} /\ (pc = "room" <=> f.via # "import")
    BY <1>1
  <1>6. year \in Years \cup {None} /\ (f.via # "create" => year \in Years)
    BY <1>2, FormFacts
  <1> QED BY <1>3, <1>4, <1>5, <1>6, SubmittedRecord

\* A transaction that has its classroom.
LEMMA RoomRecord ==
    ASSUME NEW r \in Request, RequestOK(r), r.pc = "room", NEW n,
           n = [r EXCEPT !.pc = IF r.form.via = "import" THEN "commit" ELSE "person"]
    PROVE  n \in Request /\ RequestOK(n) /\ n.pc # "patch"
  BY FormFacts DEF Request, RequestOK, Transaction

\* What follows when a person of the form has been dealt with.
LEMMA AfterRecord ==
    ASSUME NEW r \in Request, RequestOK(r), r.pc \in {"person", "write"},
           NEW n, n = After(r, r.next)
    PROVE  n \in Request /\ RequestOK(n) /\ n.pc # "patch"
  <1>1. PICK pc : pc = IF r.next < Len(r.form.people) THEN "person"
                       ELSE CASE r.form.via = "create"           -> "year"
                              [] r.form.via = "registerFullRude" -> "commit"
                              [] r.form.via = "import"           -> "room"
    OBVIOUS
  <1>2. r.form \in Forms /\ r.student = r.form.people[1]
        /\ (r.form.via # "create" => r.year \in Years)
        /\ r.next \in 1..Len(r.form.people)
    BY DEF RequestOK, Transaction
  <1>3. r.form.via \in {"create", "registerFullRude", "import"}
        /\ Len(r.form.people) \in Nat \ {0}
    BY <1>2, FormFacts
  <1>4. /\ r.next < Len(r.form.people) => pc = "person"
        /\ ~(r.next < Len(r.form.people)) =>
              /\ r.form.via = "create" => pc = "year"
              /\ r.form.via = "registerFullRude" => pc = "commit"
              /\ r.form.via = "import" => pc = "room"
    BY <1>1
  <1>5. PICK i : i = r.next + 1
    OBVIOUS
  <1>6. n = [r EXCEPT !.next = i, !.pc = pc]
    BY <1>1, <1>5 DEF After
  <1>7. i \in Nat /\ (r.next < Len(r.form.people) => i \in 1..Len(r.form.people))
    BY <1>2, <1>3, <1>5
  <1>8. n.pc = pc /\ n.next = i /\ n.form = r.form /\ n.student = r.student
        /\ n.year = r.year /\ n \in Request
    BY <1>3, <1>4, <1>6, <1>7 DEF Request
  <1>9. RequestOK(n) /\ n.pc # "patch"
    BY <1>2, <1>3, <1>4, <1>7, <1>8 DEF RequestOK, Transaction
  <1> QED BY <1>8, <1>9

LEMMA WriteRecord ==
    ASSUME NEW r \in Request, RequestOK(r), r.pc = "person",
           NEW found \in BOOLEAN, NEW n, n = [r EXCEPT !.pc = "write", !.found = found]
    PROVE  n \in Request /\ RequestOK(n) /\ n.pc # "patch"
  BY DEF Request, RequestOK, Transaction

LEMMA YearRecord ==
    ASSUME NEW r \in Request, RequestOK(r), r.pc = "year", NEW y \in Years,
           NEW n, n = [r EXCEPT !.pc = "commit", !.year = y]
    PROVE  n \in Request /\ RequestOK(n) /\ n.pc # "patch"
  BY DEF Request, RequestOK, Transaction

LEMMA PatchRecord ==
    ASSUME NEW s \in Students, NEW y \in Years, NEW p \in Patches, NEW n,
           n = [pc |-> "patch", form |-> None, next |-> 1, found |-> FALSE, student |-> s,
                year |-> y, patch |-> p, room |-> None, size |-> None]
    PROVE  n \in Request /\ RequestOK(n) /\ n.student = s /\ n.year = y /\ n.patch = p
  <1>1. n = [pc |-> "patch", form |-> None, next |-> 1, found |-> FALSE, student |-> s,
             year |-> y, patch |-> p, room |-> None, size |-> None]
    OBVIOUS
  <1>2. n \in Request
    BY ONLY <1>1 DEF Request
  <1>3. RequestOK(n)
    BY ONLY <1>1 DEF RequestOK, Transaction
  <1> QED BY <1>1, <1>2, <1>3

LEMMA ResizeRecord ==
    ASSUME NEW c \in Classrooms, NEW k \in Capacities, NEW n,
           n = [Idle EXCEPT !.pc = "resize", !.room = c, !.size = k]
    PROVE  n \in Request /\ RequestOK(n) /\ n.pc # "patch"
  <1>1. n = [pc |-> "resize", form |-> None, next |-> 1, found |-> FALSE, student |-> None,
             year |-> None, patch |-> None, room |-> c, size |-> k]
    BY DEF Idle
  <1>2. n \in Request
    BY ONLY <1>1 DEF Request
  <1>3. RequestOK(n)
    BY ONLY <1>1 DEF RequestOK, Transaction
  <1> QED BY <1>1, <1>2, <1>3

-----------------------------------------------------------------------------
(***************************************************************************)
(* Steps                                                                   *)
(***************************************************************************)
LEMMA LocksTyped ==
    ASSUME TypeOK, NEW h \in Handlers
    PROVE  /\ Released(h) \in [Lockable -> Handlers \cup {None}]
           /\ \A x \in Lockable :
                 [holder EXCEPT ![x] = h] \in [Lockable -> Handlers \cup {None}]
  BY DEF Released, TypeOK

\* A step that changes only the locks and the request that takes it.
LEMMA QuietStep ==
    ASSUME TypeInv, NEW h \in Handlers, NEW r \in Request, RequestOK(r), Goes(h, r),
           r.pc = "patch" => IsEnrolled(r.student, r.year),
           UNCHANGED <<rows, active>>, holder' \in [Lockable -> Handlers \cup {None}]
    PROVE  TypeInv'
  <1>1. req' \in [Handlers -> Request] /\ Requests'
        /\ \A g \in Handlers : req'[g] = IF g = h THEN r ELSE req[g]
    BY RequestGoes
  <1>2. TypeOK'
    BY <1>1 DEF TypeInv, TypeOK, rows
  <1>3. PatchesFound'
    BY <1>1 DEF TypeInv, PatchesFound, IsEnrolled, rows
  <1> QED BY <1>1, <1>2, <1>3 DEF TypeInv

LEMMA FailsStep ==
    ASSUME TypeInv, NEW h \in Handlers, Fails(h), UNCHANGED <<rows, active>>
    PROVE  TypeInv'
  BY QuietStep, IdleRequest, LocksTyped DEF Fails, Goes, TypeInv

LEMMA SubmitStep ==
    ASSUME TypeInv, NEW h \in Handlers, Submit(h)
    PROVE  TypeInv'
  <1>1. PICK f \in Forms :
           Goes(h, [Idle EXCEPT !.pc = IF f.via = "import" THEN "person" ELSE "room",
                                !.form = f, !.student = f.people[1],
                                !.year = IF f.via = "create" THEN None ELSE f.year])
    BY DEF Submit
  <1>2. PICK r : r = [Idle EXCEPT !.pc = IF f.via = "import" THEN "person" ELSE "room",
                                !.form = f, !.student = f.people[1],
                                !.year = IF f.via = "create" THEN None ELSE f.year]
    OBVIOUS
  <1>3. Goes(h, r)
    BY <1>1, <1>2
  <1>4. r \in Request /\ RequestOK(r) /\ r.pc # "patch"
    BY <1>2, SubmitRecord
  <1>5. UNCHANGED <<rows, active, holder>>
    BY DEF Submit
  <1> QED BY <1>3, <1>4, <1>5, QuietStep DEF TypeInv, TypeOK

LEMMA TakeRoomStep ==
    ASSUME TypeInv, NEW h \in Handlers, TakeRoom(h)
    PROVE  TypeInv'
  <1>1. CASE Fails(h)
    BY <1>1, FailsStep DEF TakeRoom
  <1>2. CASE ~Fails(h)
    <2>1. PICK n : n = [req[h] EXCEPT !.pc = IF req[h].form.via = "import" THEN "commit"
                                             ELSE "person"]
      OBVIOUS
    <2>2. /\ req[h].pc = "room" /\ Takes(h, req[h].form.room) /\ Goes(h, n)
          /\ UNCHANGED <<rows, active>>
      BY <1>2, <2>1 DEF TakeRoom
    <2>3. req[h] \in Request /\ RequestOK(req[h])
      BY RequestFacts
    <2>4. n \in Request /\ RequestOK(n) /\ n.pc # "patch"
      BY <2>1, <2>2, <2>3, RoomRecord
    <2>5. req[h].form.room \in Lockable
      BY <2>2, <2>3, FormFacts DEF RequestOK, Transaction, Lockable
    <2>6. holder' \in [Lockable -> Handlers \cup {None}]
      BY <2>2, <2>5, LocksTyped DEF Takes, TypeInv
    <2> QED BY <2>2, <2>4, <2>6, QuietStep
  <1> QED BY <1>1, <1>2

\* The person that a request has come to.
LEMMA PersonFacts ==
    ASSUME TypeInv, NEW h \in Handlers, req[h].pc \in {"person", "write"}
    PROVE  /\ req[h] \in Request /\ RequestOK(req[h]) /\ req[h].form \in Forms
           /\ req[h].form.people[req[h].next] \in People
  <1>1. req[h] \in Request /\ RequestOK(req[h])
    BY RequestFacts
  <1>2. req[h].form \in Forms /\ req[h].next \in 1..Len(req[h].form.people)
    BY <1>1 DEF RequestOK, Transaction
  <1> QED BY <1>1, <1>2, FormFacts

LEMMA PersonDoneStep ==
    ASSUME TypeInv, NEW h \in Handlers, req[h].pc \in {"person", "write"},
           NEW p \in People, NEW written \in BOOLEAN, PersonDone(h, p, written),
           UNCHANGED <<rows, active>>
    PROVE  TypeInv'
  <1>1. CASE Fails(h)
    BY <1>1, FailsStep
  <1>2. CASE ~Fails(h)
    <2>1. PICK n : n = After(req[h], req[h].next)
      OBVIOUS
    <2>2. Goes(h, n) /\ IF written THEN Takes(h, p) ELSE UNCHANGED holder
      BY <1>2, <2>1 DEF PersonDone
    <2>3. n \in Request /\ RequestOK(n) /\ n.pc # "patch"
      BY <2>1, PersonFacts, AfterRecord
    <2>4. p \in Lockable
      BY DEF Lockable
    <2>5. holder' \in [Lockable -> Handlers \cup {None}]
      BY <2>2, <2>4, LocksTyped DEF Takes, TypeInv, TypeOK
    <2> QED BY <2>2, <2>3, <2>5, QuietStep
  <1> QED BY <1>1, <1>2

LEMMA FindPersonStep ==
    ASSUME TypeInv, NEW h \in Handlers, FindPerson(h)
    PROVE  TypeInv'
  <1> DEFINE p == req[h].form.people[req[h].next]
  <1>1. req[h].pc = "person" /\ UNCHANGED <<rows, active>>
    BY DEF FindPerson
  <1>2. req[h] \in Request /\ RequestOK(req[h]) /\ p \in People
    BY <1>1, PersonFacts
  <1>3. CASE PersonDone(h, p, FALSE)
    <2> HIDE DEF p
    <2> QED BY <1>1, <1>2, <1>3, PersonDoneStep
  <1>4. CASE ~PersonDone(h, p, FALSE)
    <2>1. PICK n : n = [req[h] EXCEPT !.pc = "write", !.found = SeesRow(req[h], p)]
      OBVIOUS
    <2>2. Goes(h, n) /\ UNCHANGED holder
      BY <1>4, <2>1 DEF FindPerson
    <2>3. PICK found \in BOOLEAN : found = SeesRow(req[h], p)
      BY DEF SeesRow
    <2>4. n \in Request /\ RequestOK(n) /\ n.pc # "patch"
      BY <1>1, <1>2, <2>1, <2>3, WriteRecord
    <2> QED BY <1>1, <2>2, <2>4, QuietStep DEF TypeInv, TypeOK
  <1> QED BY <1>3, <1>4

LEMMA WritePersonStep ==
    ASSUME TypeInv, NEW h \in Handlers, WritePerson(h)
    PROVE  TypeInv'
  <1> DEFINE p == req[h].form.people[req[h].next]
  <1>1. req[h].pc = "write" /\ UNCHANGED <<rows, active>>
        /\ (Fails(h) \/ PersonDone(h, p, TRUE))
    BY DEF WritePerson
  <1>2. p \in People
    BY <1>1, PersonFacts
  <1> HIDE DEF p
  <1> QED BY <1>1, <1>2, FailsStep, PersonDoneStep

LEMMA ReadYearStep ==
    ASSUME TypeInv, NEW h \in Handlers, ReadYear(h)
    PROVE  TypeInv'
  <1>1. CASE active = None
    BY <1>1, FailsStep DEF ReadYear
  <1>2. CASE active # None
    <2>1. PICK n : n = [req[h] EXCEPT !.pc = "commit", !.year = active]
      OBVIOUS
    <2>2. Goes(h, n) /\ req[h].pc = "year" /\ UNCHANGED <<rows, active, holder>>
      BY <1>2, <2>1 DEF ReadYear
    <2>3. active \in Years
      BY <1>2 DEF TypeInv, TypeOK
    <2>4. n \in Request /\ RequestOK(n) /\ n.pc # "patch"
      BY <2>1, <2>2, <2>3, RequestFacts, YearRecord
    <2> QED BY <2>2, <2>4, QuietStep DEF TypeInv, TypeOK
  <1> QED BY <1>1, <1>2

LEMMA PatchReadStep ==
    ASSUME TypeInv, NEW h \in Handlers, PatchRead(h)
    PROVE  TypeInv'
  <1>1. PICK s \in Students, y \in Years, p \in Patches :
           /\ IsEnrolled(s, y)
           /\ Goes(h, [Idle EXCEPT !.pc = "patch", !.student = s, !.year = y, !.patch = p])
    BY DEF PatchRead
  <1>2. PICK n : n = [Idle EXCEPT !.pc = "patch", !.student = s, !.year = y, !.patch = p]
    OBVIOUS
  <1>3. n \in Request /\ RequestOK(n) /\ n.student = s /\ n.year = y
    <2>1. n = [pc |-> "patch", form |-> None, next |-> 1, found |-> FALSE, student |-> s,
               year |-> y, patch |-> p, room |-> None, size |-> None]
      BY <1>2 DEF Idle
    <2> QED BY <2>1, PatchRecord
  <1>4. Goes(h, n) /\ UNCHANGED <<rows, active, holder>>
    BY <1>1, <1>2 DEF PatchRead
  <1> QED BY <1>1, <1>3, <1>4, QuietStep DEF TypeInv, TypeOK

LEMMA ResizeCheckStep ==
    ASSUME TypeInv, NEW h \in Handlers, ResizeCheck(h)
    PROVE  TypeInv'
  <1>1. PICK c \in Classrooms, k \in Capacities :
           Goes(h, [Idle EXCEPT !.pc = "resize", !.room = c, !.size = k])
    BY DEF ResizeCheck
  <1>2. PICK n : n = [Idle EXCEPT !.pc = "resize", !.room = c, !.size = k]
    OBVIOUS
  <1>3. n \in Request /\ RequestOK(n) /\ n.pc # "patch"
    BY <1>2, ResizeRecord
  <1>4. Goes(h, n) /\ UNCHANGED <<rows, active, holder>>
    BY <1>1, <1>2 DEF ResizeCheck
  <1> QED BY <1>3, <1>4, QuietStep DEF TypeInv, TypeOK

LEMMA ResizeWriteStep ==
    ASSUME TypeInv, NEW h \in Handlers, ResizeWrite(h)
    PROVE  TypeInv'
  <1>1. req[h].pc = "resize" /\ Goes(h, Idle)
        /\ capacity' = [capacity EXCEPT ![req[h].room] = req[h].size]
        /\ UNCHANGED <<enrolled, known, coded, active, holder>>
    BY DEF ResizeWrite
  <1>2. req[h].room \in Classrooms /\ req[h].size \in Nat
    BY <1>1, RequestFacts, EnrollmentsAssumption DEF RequestOK
  <1>3. req' \in [Handlers -> Request] /\ Requests'
        /\ \A g \in Handlers : req'[g] = IF g = h THEN Idle ELSE req[g]
    BY <1>1, IdleRequest, RequestGoes
  <1>4. TypeOK'
    BY <1>1, <1>2, <1>3 DEF TypeInv, TypeOK
  <1>5. PatchesFound'
    BY <1>1, <1>3, IdleRequest DEF TypeInv, PatchesFound, IsEnrolled
  <1> QED BY <1>3, <1>4, <1>5 DEF TypeInv

\* What a form is stored as.
Stored(f) == [room |-> f.room, type |-> f.type, status |-> NewStatus(f)]

LEMMA StoredRow ==
    ASSUME NEW f \in Forms
    PROVE  /\ Stored(f) \in Enrollment /\ Stored(f) # None
           /\ Stored(f).room = f.room /\ Stored(f).type = f.type
           /\ Stored(f).status = NewStatus(f)
  <1>1. NewStatus(f) \in Status
    BY FormFacts DEF NewStatus, Status, Occupying, Reserving
  <1>2. Stored(f) \in Enrollment
    BY <1>1, FormFacts DEF Stored, Enrollment
  <1> QED BY <1>2, NullFacts DEF Stored

\* The rows after a commit that stores an enrollment.
LEMMA CommitRows ==
    ASSUME TypeInv, NEW h \in Handlers, Commit(h),
           ~IsEnrolled(req[h].student, req[h].year)
    PROVE  /\ req[h].form \in Forms /\ req[h].student \in Students /\ req[h].year \in Years
           /\ \A s \in Students, y \in Years :
                 enrolled'[s][y] = IF s = req[h].student /\ y = req[h].year
                                   THEN Stored(req[h].form) ELSE enrolled[s][y]
           /\ enrolled' \in [Students -> [Years -> Enrollment \cup {None}]]
           /\ coded \subseteq coded'
  <1>1. /\ req[h].pc = "commit"
        /\ enrolled' = [enrolled EXCEPT ![req[h].student][req[h].year] = Stored(req[h].form)]
        /\ coded' = IF req[h].form.coded /\ (req[h].form.via = "import" \/ req[h].student \notin known)
                    THEN coded \cup {req[h].student} ELSE coded
    BY DEF Commit, Stored
  <1>2. req[h].form \in Forms /\ req[h].student = req[h].form.people[1] /\ req[h].year \in Years
    BY <1>1, RequestFacts DEF RequestOK, Transaction
  <1>3. req[h].student \in Students /\ Stored(req[h].form) \in Enrollment
    BY <1>2, FormFacts, StoredRow
  <1>4. enrolled \in [Students -> [Years -> Enrollment \cup {None}]]
    BY DEF TypeInv, TypeOK
  <1>5. \A s \in Students, y \in Years :
           enrolled'[s][y] = IF s = req[h].student /\ y = req[h].year
                             THEN Stored(req[h].form) ELSE enrolled[s][y]
    BY <1>1, <1>2, <1>3, <1>4
  <1>6. enrolled' \in [Students -> [Years -> Enrollment \cup {None}]]
    BY <1>1, <1>2, <1>3, <1>4
  <1>7. coded \subseteq coded'
    BY <1>1
  <1> QED BY <1>2, <1>3, <1>5, <1>6, <1>7

LEMMA CommitStep ==
    ASSUME TypeInv, NEW h \in Handlers, Commit(h)
    PROVE  TypeInv'
  <1>1. req[h].pc = "commit" /\ Goes(h, Idle) /\ holder' = Released(h) /\ UNCHANGED active
    BY DEF Commit
  <1>2. CASE IsEnrolled(req[h].student, req[h].year)
    BY <1>1, <1>2, FailsStep DEF Commit, Fails, Goes
  <1>3. CASE ~IsEnrolled(req[h].student, req[h].year)
    <2>1. /\ req[h].form \in Forms /\ req[h].student \in Students /\ req[h].year \in Years
          /\ \A s \in Students, y \in Years :
                enrolled'[s][y] = IF s = req[h].student /\ y = req[h].year
                                  THEN Stored(req[h].form) ELSE enrolled[s][y]
          /\ enrolled' \in [Students -> [Years -> Enrollment \cup {None}]]
      BY <1>3, CommitRows
    <2>2. req' \in [Handlers -> Request] /\ Requests'
          /\ \A g \in Handlers : req'[g] = IF g = h THEN Idle ELSE req[g]
      BY <1>1, IdleRequest, RequestGoes
    <2>3. known' \in SUBSET People /\ coded' \in SUBSET Students /\ UNCHANGED capacity
      <3>1. {req[h].form.people[i] : i \in DOMAIN req[h].form.people} \subseteq People
        BY <2>1, FormFacts
      <3>2. UNCHANGED capacity /\ coded' \in {coded, coded \cup {req[h].student}}
            /\ known' = known \cup {req[h].form.people[i] : i \in DOMAIN req[h].form.people}
        BY <1>3 DEF Commit
      <3> QED BY <2>1, <3>1, <3>2 DEF TypeInv, TypeOK
    <2>4. TypeOK'
      BY <1>1, <2>1, <2>2, <2>3, LocksTyped DEF TypeInv, TypeOK
    <2>5. \A s \in Students, y \in Years : IsEnrolled(s, y) => IsEnrolled(s, y)'
      BY <2>1, StoredRow DEF IsEnrolled
    <2>6. PatchesFound'
      BY <2>2, <2>5, RequestFacts, IdleRequest DEF TypeInv, PatchesFound, RequestOK
    <2> QED BY <2>2, <2>4, <2>6 DEF TypeInv
  <1> QED BY <1>2, <1>3

\* An update leaves an enrollment, with the fields that it brings.
LEMMA PatchedRow ==
    ASSUME NEW e \in Enrollment, NEW p \in Patches
    PROVE  /\ Patched(e, p) \in Enrollment /\ Patched(e, p) # None
           /\ Patched(e, p).room = IF p.room = None THEN e.room ELSE p.room
           /\ Patched(e, p).type = IF p.type = None THEN e.type ELSE p.type
           /\ Patched(e, p).status = IF p.status = None THEN e.status ELSE p.status
  <1>1. p \in Patch
    BY EnrollmentsAssumption
  <1>2. PICK n : n = Patched(e, p)
    OBVIOUS
  <1>3. DOMAIN e = {"room", "type", "status"}
    BY DEF Enrollment
  <1>4. n = [f \in {"room", "type", "status"} |-> IF p[f] = None THEN e[f] ELSE p[f]]
    BY <1>2, <1>3 DEF Patched
  <1>5. /\ n.room = IF p.room = None THEN e.room ELSE p.room
        /\ n.type = IF p.type = None THEN e.type ELSE p.type
        /\ n.status = IF p.status = None THEN e.status ELSE p.status
    BY <1>4
  <1>6. n.room \in Classrooms /\ n.type \in {"NUEVO", "ANTIGUO", "TRASPASO"}
        /\ n.status \in Status
    BY <1>1, <1>5 DEF Patch, Enrollment
  <1>7. n = [room |-> n.room, type |-> n.type, status |-> n.status]
    BY <1>4
  <1>8. n \in Enrollment
    BY <1>6, <1>7 DEF Enrollment
  <1> QED BY <1>2, <1>5, <1>8, NullFacts

LEMMA PatchRows ==
    ASSUME TypeInv, NEW h \in Handlers, PatchCommit(h)
    PROVE  LET r == req[h] IN
           /\ r.student \in Students /\ r.year \in Years /\ r.patch \in Patches
           /\ enrolled[r.student][r.year] \in Enrollment
           /\ \A s \in Students, y \in Years :
                 enrolled'[s][y] = IF s = r.student /\ y = r.year
                                   THEN Patched(enrolled[s][y], r.patch) ELSE enrolled[s][y]
           /\ enrolled' \in [Students -> [Years -> Enrollment \cup {None}]]
           /\ coded' = IF r.patch.coded THEN coded \cup {r.student} ELSE coded
  <1>1. PICK r : r = req[h]
    OBVIOUS
  <1>2. /\ r.pc = "patch"
        /\ enrolled' = [enrolled EXCEPT ![r.student][r.year] = Patched(@, r.patch)]
        /\ coded' = IF r.patch.coded THEN coded \cup {r.student} ELSE coded
    BY <1>1 DEF PatchCommit
  <1>3. r.student \in Students /\ r.year \in Years /\ r.patch \in Patches
    BY <1>1, <1>2, RequestFacts DEF RequestOK
  <1>4. enrolled \in [Students -> [Years -> Enrollment \cup {None}]]
    BY DEF TypeInv, TypeOK
  <1>5. enrolled[r.student][r.year] \in Enrollment
    BY <1>1, <1>2, <1>3, <1>4 DEF TypeInv, PatchesFound, IsEnrolled
  <1>6. Patched(enrolled[r.student][r.year], r.patch) \in Enrollment
    BY <1>3, <1>5, PatchedRow
  <1>7. PICK x \in Enrollment : x = Patched(enrolled[r.student][r.year], r.patch)
    BY <1>6
  <1>8. enrolled' = [enrolled EXCEPT ![r.student][r.year] = x]
    BY <1>2, <1>7
  <1>9. \A s \in Students, y \in Years :
           enrolled'[s][y] = IF s = r.student /\ y = r.year THEN x ELSE enrolled[s][y]
    BY <1>3, <1>4, <1>8
  <1>10. enrolled' \in [Students -> [Years -> Enrollment \cup {None}]]
    BY <1>3, <1>4, <1>8
  <1> QED BY <1>1, <1>2, <1>3, <1>5, <1>7, <1>9, <1>10

LEMMA PatchCommitStep ==
    ASSUME TypeInv, NEW h \in Handlers, PatchCommit(h)
    PROVE  TypeInv'
  <1>1. Goes(h, Idle) /\ UNCHANGED <<capacity, known, active, holder>>
    BY DEF PatchCommit
  <1>2. req' \in [Handlers -> Request] /\ Requests'
        /\ \A g \in Handlers : req'[g] = IF g = h THEN Idle ELSE req[g]
    BY <1>1, IdleRequest, RequestGoes
  <1>3. coded' \in SUBSET Students
    BY PatchRows DEF TypeInv, TypeOK
  <1>4. TypeOK'
    BY <1>1, <1>2, <1>3, PatchRows DEF TypeInv, TypeOK
  <1>5. \A s \in Students, y \in Years : IsEnrolled(s, y) => IsEnrolled(s, y)'
    BY PatchRows, PatchedRow DEF IsEnrolled
  <1>6. PatchesFound'
    BY <1>2, <1>5, RequestFacts, IdleRequest DEF TypeInv, PatchesFound, RequestOK
  <1> QED BY <1>2, <1>4, <1>6 DEF TypeInv

LEMMA ChangeYearStep ==
    ASSUME TypeInv, ChangeYear
    PROVE  TypeInv'
  BY DEF ChangeYear, TypeInv, TypeOK, Requests, PatchesFound, IsEnrolled, rows

LEMMA TypeInit == Init => TypeInv
  <1> SUFFICES ASSUME Init PROVE TypeInv
    OBVIOUS
  <1>1. \A h \in Handlers : req[h] = Idle
    BY DEF Init
  <1>2. TypeOK
    BY IdleRequest, EnrollmentsAssumption DEF Init, TypeOK
  <1>3. Requests /\ PatchesFound
    BY <1>1, IdleRequest DEF Requests, PatchesFound
  <1> QED BY <1>2, <1>3 DEF TypeInv

LEMMA TypeStep ==
    ASSUME TypeInv, [Next]_vars
    PROVE  TypeInv'
  <1>1. ASSUME NEW h \in Handlers, Submit(h) PROVE TypeInv'
    BY <1>1, SubmitStep
  <1>2. ASSUME NEW h \in Handlers, PatchRead(h) \/ PatchCommit(h) PROVE TypeInv'
    BY <1>2, PatchReadStep, PatchCommitStep
  <1>3. ASSUME NEW h \in Handlers, ResizeCheck(h) \/ ResizeWrite(h) PROVE TypeInv'
    BY <1>3, ResizeCheckStep, ResizeWriteStep
  <1>4. ASSUME NEW h \in Handlers,
               TakeRoom(h) \/ FindPerson(h) \/ WritePerson(h) \/ ReadYear(h) \/ Commit(h)
        PROVE  TypeInv'
    BY <1>4, TakeRoomStep, FindPersonStep, WritePersonStep, ReadYearStep, CommitStep
  <1>5. ASSUME NEW h \in Handlers, DeadlockAbort(h) \/ Abort(h) PROVE TypeInv'
    BY <1>5, FailsStep DEF DeadlockAbort, Abort
  <1>6. CASE ChangeYear
    BY <1>6, ChangeYearStep
  <1>7. CASE UNCHANGED vars
    BY <1>7 DEF vars, TypeInv, TypeOK, Requests, PatchesFound, IsEnrolled
  <1> QED BY <1>1, <1>2, <1>3, <1>4, <1>5, <1>6, <1>7 DEF Next, Step

\* Every variable keeps to its type, whatever requests run together: the person
\* that a transaction has come to is a person of its form, the enrollment that an
\* update writes exists, and no lock belongs to a stranger.
THEOREM TypeCorrect == Spec => []TypeOK
  <1>1. Init => TypeInv
    BY TypeInit
  <1>2. TypeInv /\ [Next]_vars => TypeInv'
    BY TypeStep
  <1>3. TypeInv => TypeOK
    BY DEF TypeInv
  <1> QED BY <1>1, <1>2, <1>3, PTL DEF Spec

-----------------------------------------------------------------------------
(***************************************************************************)
(* Seats                                                                   *)
(***************************************************************************)
\* What the code leaves to the secretary: no update gives a seat to an enrollment
\* that has none, or moves one (approving whoever has a seat is fine), and the
\* count that a resize relies on still holds when the capacity is written.
GivesNoSeat ==
    \A s \in Students, y \in Years :
        IsEnrolled(s, y) /\ enrolled'[s][y].status \in Reserving =>
            /\ enrolled[s][y].status \in Reserving
            /\ enrolled'[s][y].room = enrolled[s][y].room
Fits == \A c \in Classrooms :
    capacity'[c] # capacity[c] => capacity'[c] >= Cardinality(Seated(c, Reserving))
SecretaryCounts == GivesNoSeat /\ Fits

\* A request that has counted the seats of its classroom, and found one.
Claims(r) ==
    /\ r.pc \in {"person", "write", "year", "commit"}
    /\ r.form.via # "import" \/ r.pc = "commit"

\* The seat that it found is there until it commits, since it holds the lock.
ClaimsKept ==
    \A h \in Handlers, c \in Classrooms : Claims(req[h]) /\ req[h].form.room = c =>
        holder[c] = h /\ Cardinality(Seated(c, Reserving)) < capacity[c]

SeatInv == TypeInv /\ ClaimsKept /\ SeatsWithinCapacity

LEMMA SeatedFacts ==
    ASSUME TypeOK, NEW c \in Classrooms, NEW S, NEW T, S \subseteq T
    PROVE  /\ IsFiniteSet(Seated(c, T)) /\ Cardinality(Seated(c, T)) \in Nat
           /\ Seated(c, S) \subseteq Seated(c, T)
           /\ Cardinality(Seated(c, S)) \in Nat
           /\ Cardinality(Seated(c, S)) <= Cardinality(Seated(c, T))
  <1>1. IsFiniteSet(Students \X Years)
    BY EnrollmentsAssumption, FS_Product
  <1>2. Seated(c, T) \subseteq Students \X Years /\ Seated(c, S) \subseteq Seated(c, T)
    BY DEF Seated
  <1>3. IsFiniteSet(Seated(c, T))
    BY <1>1, <1>2, FS_Subset
  <1> QED BY <1>2, <1>3, FS_Subset, FS_CardinalityType

\* Seats that are given up, or not touched.
LEMMA SeatsGiven ==
    ASSUME TypeOK, TypeOK', NEW c \in Classrooms,
           Seated(c, Reserving)' \subseteq Seated(c, Reserving)
    PROVE  Cardinality(Seated(c, Reserving)') <= Cardinality(Seated(c, Reserving))
           /\ Cardinality(Seated(c, Reserving)') \in Nat
  BY SeatedFacts, FS_Subset, FS_CardinalityType

LEMMA RoomsOfForms ==
    ASSUME TypeInv, NEW h \in Handlers, Claims(req[h])
    PROVE  req[h].form \in Forms /\ req[h].form.room \in Classrooms
  BY RequestFacts, FormFacts DEF Claims, RequestOK, Transaction

\* A step that leaves the rows alone, and no request without its classroom: the
\* one that takes it goes on to r.
LEMMA ClaimStep ==
    ASSUME SeatInv, NEW h \in Handlers, NEW r, Goes(h, r), UNCHANGED rows, TypeInv',
           \A g \in Handlers \ {h}, c \in Classrooms : holder[c] = g => holder'[c] = g,
           Claims(r) => /\ holder'[r.form.room] = h
                        /\ Cardinality(Seated(r.form.room, Reserving)) < capacity[r.form.room]
    PROVE  SeatInv'
  <1>1. \A g \in Handlers : req'[g] = IF g = h THEN r ELSE req[g]
    BY DEF Goes, SeatInv, TypeInv, TypeOK
  <1>2. \A c : Seated(c, Reserving)' = Seated(c, Reserving)
    BY DEF Seated, IsEnrolled, rows
  <1>3. ClaimsKept'
    <2> SUFFICES ASSUME NEW g \in Handlers, NEW c \in Classrooms,
                        Claims(req'[g]), req'[g].form.room = c
                 PROVE  holder'[c] = g /\ Cardinality(Seated(c, Reserving)) < capacity[c]
      BY <1>2 DEF ClaimsKept, Claims, rows
    <2>1. CASE g = h
      BY <1>1, <2>1
    <2>2. CASE g # h
      BY <1>1, <2>2 DEF SeatInv, ClaimsKept
    <2> QED BY <2>1, <2>2
  <1>4. SeatsWithinCapacity'
    BY <1>2 DEF SeatInv, SeatsWithinCapacity, rows
  <1> QED BY <1>3, <1>4 DEF SeatInv

\* Locks of people are none of classrooms.
LEMMA LocksKept ==
    ASSUME TypeOK, NEW h \in Handlers
    PROVE  /\ \A g \in Handlers \ {h}, c \in Classrooms :
                 holder[c] = g => Released(h)[c] = g
           /\ \A p \in People, c \in Classrooms :
                 [holder EXCEPT ![p] = h][c] = holder[c]
           /\ \A d \in Classrooms, c \in Classrooms :
                 [holder EXCEPT ![d] = h][c] = IF c = d THEN h ELSE holder[c]
  BY NullFacts DEF TypeOK, Released, Lockable

LEMMA NoClaim == ~Claims(Idle)
  BY DEF Claims, Idle

LEMMA FailsSeats ==
    ASSUME SeatInv, NEW h \in Handlers, Fails(h), UNCHANGED rows, TypeInv'
    PROVE  SeatInv'
  <1>1. Goes(h, Idle) /\ holder' = Released(h)
    BY DEF Fails, Goes
  <1> QED BY <1>1, ClaimStep, NoClaim, LocksKept DEF SeatInv, TypeInv

\* The requests that do not reach for a classroom.
LEMMA StartSeats ==
    ASSUME SeatInv, NEW h \in Handlers, Submit(h) \/ PatchRead(h) \/ ResizeCheck(h), TypeInv'
    PROVE  SeatInv'
  <1>1. UNCHANGED rows /\ UNCHANGED holder
    BY DEF Submit, PatchRead, ResizeCheck
  <1>2. PICK r : Goes(h, r) /\ ~Claims(r)
    <2>1. CASE Submit(h)
      <3>1. PICK f \in Forms :
               Goes(h, [Idle EXCEPT !.pc = IF f.via = "import" THEN "person" ELSE "room",
                                    !.form = f, !.student = f.people[1],
                                    !.year = IF f.via = "create" THEN None ELSE f.year])
        BY <2>1 DEF Submit
      <3>2. PICK r : r = [Idle EXCEPT !.pc = IF f.via = "import" THEN "person" ELSE "room",
                                    !.form = f, !.student = f.people[1],
                                    !.year = IF f.via = "create" THEN None ELSE f.year]
        OBVIOUS
      <3>3. r.form = f /\ r.pc = IF f.via = "import" THEN "person" ELSE "room"
        BY <3>2 DEF Idle
      <3>4. ~Claims(r)
        BY <3>3 DEF Claims
      <3> QED BY <3>1, <3>2, <3>4
    <2>2. CASE PatchRead(h)
      <3>1. PICK s \in Students, y \in Years, p \in Patches :
               Goes(h, [Idle EXCEPT !.pc = "patch", !.student = s, !.year = y, !.patch = p])
        BY <2>2 DEF PatchRead
      <3>2. PICK r : r = [Idle EXCEPT !.pc = "patch", !.student = s, !.year = y, !.patch = p]
        OBVIOUS
      <3>3. r.pc = "patch"
        BY <3>2 DEF Idle
      <3> QED BY <3>1, <3>2, <3>3 DEF Claims
    <2>3. CASE ResizeCheck(h)
      <3>1. PICK c \in Classrooms, k \in Capacities :
               Goes(h, [Idle EXCEPT !.pc = "resize", !.room = c, !.size = k])
        BY <2>3 DEF ResizeCheck
      <3>2. PICK r : r = [Idle EXCEPT !.pc = "resize", !.room = c, !.size = k]
        OBVIOUS
      <3>3. r.pc = "resize"
        BY <3>2 DEF Idle
      <3> QED BY <3>1, <3>2, <3>3 DEF Claims
    <2> QED BY <2>1, <2>2, <2>3
  <1> QED BY <1>1, <1>2, ClaimStep

LEMMA TakeRoomSeats ==
    ASSUME SeatInv, NEW h \in Handlers, TakeRoom(h), TypeInv'
    PROVE  SeatInv'
  <1>1. CASE Fails(h)
    BY <1>1, FailsSeats DEF TakeRoom
  <1>2. CASE ~Fails(h)
    <2> DEFINE f == req[h].form
    <2>1. PICK n : n = [req[h] EXCEPT !.pc = IF f.via = "import" THEN "commit" ELSE "person"]
      OBVIOUS
    <2>2. /\ req[h].pc = "room" /\ RoomFree(f.room) /\ HasSeat(f)
          /\ Takes(h, f.room) /\ Goes(h, n) /\ UNCHANGED <<rows, active>>
      BY <1>2, <2>1 DEF TakeRoom
    <2>3. req[h] \in Request /\ f \in Forms /\ f.room \in Classrooms
      BY <2>2, RequestFacts, FormFacts DEF RequestOK, Transaction, SeatInv
    <2>4. n.form = f
      BY <2>1, <2>3 DEF Request
    <2>5. Cardinality(Seated(f.room, Reserving)) < capacity[f.room]
      <3>1. Reserving \subseteq CountedBy(f.via)
        BY DEF CountedBy, Occupying
      <3>2. /\ Cardinality(Seated(f.room, Reserving)) \in Nat
            /\ Cardinality(Seated(f.room, CountedBy(f.via))) \in Nat
            /\ Cardinality(Seated(f.room, Reserving)) <= Cardinality(Seated(f.room, CountedBy(f.via)))
        BY <2>3, <3>1, SeatedFacts DEF SeatInv, TypeInv
      <3>3. Cardinality(Seated(f.room, CountedBy(f.via))) < capacity[f.room]
            /\ capacity[f.room] \in Nat
        BY <2>2, <2>3 DEF HasSeat, SeatInv, TypeInv, TypeOK
      <3> QED BY <3>2, <3>3
    <2>6. holder'[f.room] = h /\ \A c \in Classrooms : c # f.room => holder'[c] = holder[c]
      BY <2>2, <2>3, LocksKept DEF Takes, SeatInv, TypeInv
    <2>7. \A g \in Handlers \ {h}, c \in Classrooms : holder[c] = g => holder'[c] = g
      BY <2>2, <2>6, NullFacts DEF RoomFree
    <2> HIDE DEF f
    <2> QED BY <2>2, <2>4, <2>5, <2>6, <2>7, ClaimStep
  <1> QED BY <1>1, <1>2

\* A request that keeps its classroom, or had none.
LEMMA KeepsRoom ==
    ASSUME SeatInv, NEW h \in Handlers, NEW n, Goes(h, n), UNCHANGED rows, TypeInv',
           n.form = req[h].form, Claims(n) => Claims(req[h]),
           \A c \in Classrooms : holder'[c] = holder[c]
    PROVE  SeatInv'
  <1>1. Claims(n) => /\ n.form.room \in Classrooms
                     /\ holder[n.form.room] = h
                     /\ Cardinality(Seated(n.form.room, Reserving)) < capacity[n.form.room]
    BY RoomsOfForms DEF SeatInv, ClaimsKept
  <1> QED BY <1>1, ClaimStep

LEMMA AfterForm ==
    ASSUME NEW r \in Request, r.pc \in {"person", "write"}, r.form \in Forms,
           NEW n, n = After(r, r.next)
    PROVE  n.form = r.form /\ (Claims(n) => Claims(r))
  <1>1. PICK pc : pc = IF r.next < Len(r.form.people) THEN "person"
                       ELSE CASE r.form.via = "create"           -> "year"
                              [] r.form.via = "registerFullRude" -> "commit"
                              [] r.form.via = "import"           -> "room"
    OBVIOUS
  <1>2. PICK i : i = r.next + 1
    OBVIOUS
  <1>3. n = [r EXCEPT !.next = i, !.pc = pc]
    BY <1>1, <1>2 DEF After
  <1>4. n.form = r.form /\ n.pc = pc
    BY <1>3 DEF Request
  <1>5. r.form.via = "import" => pc # "commit"
    BY <1>1
  <1> QED BY <1>4, <1>5 DEF Claims

LEMMA PersonSeats ==
    ASSUME SeatInv, NEW h \in Handlers, req[h].pc \in {"person", "write"},
           NEW p \in People, NEW written \in BOOLEAN, PersonDone(h, p, written),
           UNCHANGED rows, TypeInv'
    PROVE  SeatInv'
  <1>1. CASE Fails(h)
    BY <1>1, FailsSeats
  <1>2. CASE ~Fails(h)
    <2>1. PICK n : n = After(req[h], req[h].next)
      OBVIOUS
    <2>2. Goes(h, n) /\ IF written THEN Takes(h, p) ELSE UNCHANGED holder
      BY <1>2, <2>1 DEF PersonDone
    <2>3. n.form = req[h].form /\ (Claims(n) => Claims(req[h]))
      BY <2>1, PersonFacts, AfterForm DEF SeatInv
    <2>4. Goes(h, n) /\ (Takes(h, p) \/ UNCHANGED holder)
      BY <2>2
    <2>5. \A c \in Classrooms : holder'[c] = holder[c]
      <3>1. CASE Takes(h, p)
        BY <3>1, LocksKept DEF Takes, SeatInv, TypeInv
      <3>2. CASE UNCHANGED holder
        BY <3>2
      <3> QED BY <2>4, <3>1, <3>2
    <2> QED BY <2>3, <2>4, <2>5, KeepsRoom
  <1> QED BY <1>1, <1>2

LEMMA FindPersonSeats ==
    ASSUME SeatInv, NEW h \in Handlers, FindPerson(h), TypeInv'
    PROVE  SeatInv'
  <1> DEFINE p == req[h].form.people[req[h].next]
  <1>1. req[h].pc = "person" /\ UNCHANGED rows
    BY DEF FindPerson
  <1>2. req[h] \in Request /\ p \in People
    BY <1>1, PersonFacts DEF SeatInv
  <1>3. CASE PersonDone(h, p, FALSE)
    <2> HIDE DEF p
    <2> QED BY <1>1, <1>2, <1>3, PersonSeats
  <1>4. CASE ~PersonDone(h, p, FALSE)
    <2>1. PICK n : n = [req[h] EXCEPT !.pc = "write", !.found = SeesRow(req[h], p)]
      OBVIOUS
    <2>2. Goes(h, n) /\ UNCHANGED holder
      BY <1>4, <2>1 DEF FindPerson
    <2>3. n.pc = "write" /\ n.form = req[h].form
      <3>1. PICK found : found = SeesRow(req[h], p)
        OBVIOUS
      <3>2. n = [req[h] EXCEPT !.pc = "write", !.found = found]
        BY <2>1, <3>1
      <3> QED BY <1>2, <3>2 DEF Request
    <2>4. Claims(n) => Claims(req[h])
      BY <1>1, <2>3 DEF Claims
    <2> QED BY <1>1, <2>2, <2>3, <2>4, KeepsRoom
  <1> QED BY <1>3, <1>4

LEMMA WritePersonSeats ==
    ASSUME SeatInv, NEW h \in Handlers, WritePerson(h), TypeInv'
    PROVE  SeatInv'
  <1> DEFINE p == req[h].form.people[req[h].next]
  <1>1. req[h].pc = "write" /\ UNCHANGED rows
        /\ (Fails(h) \/ PersonDone(h, p, TRUE))
    BY DEF WritePerson
  <1>2. p \in People
    BY <1>1, PersonFacts DEF SeatInv
  <1> HIDE DEF p
  <1> QED BY <1>1, <1>2, FailsSeats, PersonSeats

LEMMA ReadYearSeats ==
    ASSUME SeatInv, NEW h \in Handlers, ReadYear(h), TypeInv'
    PROVE  SeatInv'
  <1>1. CASE active = None
    BY <1>1, FailsSeats DEF ReadYear
  <1>2. CASE active # None
    <2>1. PICK n : n = [req[h] EXCEPT !.pc = "commit", !.year = active]
      OBVIOUS
    <2>2. Goes(h, n) /\ req[h].pc = "year" /\ UNCHANGED <<rows, holder>>
      BY <1>2, <2>1 DEF ReadYear
    <2>3. req[h] \in Request /\ req[h].form.via = "create"
      BY <2>2, RequestFacts DEF SeatInv, RequestOK
    <2>4. n.form = req[h].form
      BY <2>1, <2>3 DEF Request
    <2>5. Claims(req[h])
      BY <2>2, <2>3 DEF Claims
    <2> QED BY <2>2, <2>4, <2>5, KeepsRoom
  <1> QED BY <1>1, <1>2

LEMMA CommitSeats ==
    ASSUME SeatInv, NEW h \in Handlers, Commit(h), TypeInv'
    PROVE  SeatInv'
  <1>1. req[h].pc = "commit" /\ Goes(h, Idle) /\ holder' = Released(h)
    BY DEF Commit
  <1>2. CASE IsEnrolled(req[h].student, req[h].year)
    BY <1>1, <1>2, FailsSeats DEF Commit, Fails, Goes
  <1>3. CASE ~IsEnrolled(req[h].student, req[h].year)
    <2>0. PICK p, room : p = <<req[h].student, req[h].year>> /\ room = req[h].form.room
      OBVIOUS
    <2>1. /\ req[h].form \in Forms /\ req[h].student \in Students /\ req[h].year \in Years
          /\ \A s \in Students, y \in Years :
                enrolled'[s][y] = IF s = req[h].student /\ y = req[h].year
                                  THEN Stored(req[h].form) ELSE enrolled[s][y]
      BY <1>3, CommitRows DEF SeatInv
    <2>2. /\ room \in Classrooms /\ holder[room] = h
          /\ Cardinality(Seated(room, Reserving)) < capacity[room]
      BY <1>1, <2>0, RoomsOfForms DEF Claims, SeatInv, ClaimsKept
    <2>3. UNCHANGED capacity
      BY <1>3 DEF Commit
    <2>4. /\ Seated(room, Reserving)' \subseteq Seated(room, Reserving) \cup {p}
          /\ \A c \in Classrooms \ {room} :
                Seated(c, Reserving)' \subseteq Seated(c, Reserving)
      <3>1. \A c : \A x \in Seated(c, Reserving)' :
               x \in Students \X Years /\ enrolled'[x[1]][x[2]].room = c
                  /\ (x = p \/ x \in Seated(c, Reserving))
        BY <2>0, <2>1, StoredRow DEF Seated, IsEnrolled
      <3>2. enrolled'[req[h].student][req[h].year].room = room
        BY <2>0, <2>1, StoredRow
      <3> QED BY <2>0, <2>1, <3>1, <3>2
    <2>5. \A c \in Classrooms \ {room} :
             Cardinality(Seated(c, Reserving)') <= Cardinality(Seated(c, Reserving))
             /\ Cardinality(Seated(c, Reserving)') \in Nat
      BY <2>4, SeatsGiven DEF SeatInv, TypeInv
    <2>6. Cardinality(Seated(room, Reserving)') <= capacity[room]
      <3>1. IsFiniteSet(Seated(room, Reserving)) /\ Cardinality(Seated(room, Reserving)) \in Nat
        BY <2>2, SeatedFacts DEF SeatInv, TypeInv
      <3>2. /\ IsFiniteSet(Seated(room, Reserving) \cup {p})
            /\ Cardinality(Seated(room, Reserving) \cup {p}) \in Nat
            /\ Cardinality(Seated(room, Reserving) \cup {p}) <= Cardinality(Seated(room, Reserving)) + 1
        <4>1. /\ IsFiniteSet(Seated(room, Reserving) \cup {p})
              /\ Cardinality(Seated(room, Reserving) \cup {p}) =
                    IF p \in Seated(room, Reserving) THEN Cardinality(Seated(room, Reserving))
                    ELSE Cardinality(Seated(room, Reserving)) + 1
          BY <3>1, FS_AddElement
        <4> QED BY <3>1, <4>1
      <3>3. /\ Cardinality(Seated(room, Reserving)') \in Nat
            /\ Cardinality(Seated(room, Reserving)') <= Cardinality(Seated(room, Reserving) \cup {p})
        BY <2>4, <3>2, FS_Subset, FS_CardinalityType
      <3>4. capacity[room] \in Nat
        BY <2>2 DEF SeatInv, TypeInv, TypeOK
      <3> QED BY <2>2, <3>1, <3>2, <3>3, <3>4
    <2>7. SeatsWithinCapacity'
      <3> SUFFICES ASSUME NEW c \in Classrooms
                   PROVE  Cardinality(Seated(c, Reserving)') <= capacity'[c]
        BY DEF SeatsWithinCapacity
      <3>1. Cardinality(Seated(c, Reserving)) <= capacity[c] /\ capacity[c] \in Nat
            /\ Cardinality(Seated(c, Reserving)) \in Nat
        BY SeatedFacts DEF SeatInv, SeatsWithinCapacity, TypeInv, TypeOK
      <3> QED BY <2>3, <2>5, <2>6, <3>1
    <2>8. ClaimsKept'
      <3> SUFFICES ASSUME NEW g \in Handlers, NEW c \in Classrooms,
                          Claims(req'[g]), req'[g].form.room = c
                   PROVE  holder'[c] = g /\ Cardinality(Seated(c, Reserving)') < capacity'[c]
        BY DEF ClaimsKept, Claims
      <3>1. \A k \in Handlers : req'[k] = IF k = h THEN Idle ELSE req[k]
        BY <1>1 DEF Goes, SeatInv, TypeInv, TypeOK
      <3>2. g # h /\ Claims(req[g]) /\ req[g].form.room = c
        BY <3>1, NoClaim
      <3>3. holder[c] = g /\ Cardinality(Seated(c, Reserving)) < capacity[c]
        BY <3>2 DEF SeatInv, ClaimsKept
      <3>4. c # room
        BY <2>2, <3>2, <3>3
      <3>5. holder'[c] = g
        BY <1>1, <3>2, <3>3, LocksKept DEF SeatInv, TypeInv
      <3>6. Cardinality(Seated(c, Reserving)') <= Cardinality(Seated(c, Reserving))
            /\ Cardinality(Seated(c, Reserving)') \in Nat
            /\ Cardinality(Seated(c, Reserving)) \in Nat /\ capacity[c] \in Nat
        BY <2>5, <3>3, <3>4, SeatedFacts DEF SeatInv, TypeInv, TypeOK
      <3> QED BY <2>3, <3>3, <3>5, <3>6
    <2> QED BY <2>7, <2>8 DEF SeatInv
  <1> QED BY <1>2, <1>3

\* An update takes a seat away or leaves it; the claims on it are still good.
LEMMA PatchCommitSeats ==
    ASSUME GivesNoSeat, SeatInv, NEW h \in Handlers, PatchCommit(h), TypeInv'
    PROVE  /\ SeatInv'
           /\ \A c \in Classrooms : Seated(c, Reserving)' \subseteq Seated(c, Reserving)
  <1>1. Goes(h, Idle) /\ UNCHANGED <<capacity, holder>>
    BY DEF PatchCommit
  <1>2. PICK r : r = req[h]
    OBVIOUS
  <1>3. /\ r.student \in Students /\ r.year \in Years /\ r.patch \in Patches
        /\ enrolled[r.student][r.year] \in Enrollment
        /\ \A s \in Students, y \in Years :
              enrolled'[s][y] = IF s = r.student /\ y = r.year
                                THEN Patched(enrolled[s][y], r.patch) ELSE enrolled[s][y]
    BY <1>2, PatchRows DEF SeatInv
  <1>4. \A s \in Students, y \in Years : enrolled'[s][y] # None => enrolled[s][y] # None
    BY <1>3, NullFacts
  <1>5. \A s \in Students, y \in Years :
           enrolled'[s][y] # None /\ enrolled'[s][y].status \in Reserving =>
              /\ enrolled[s][y] # None
              /\ enrolled[s][y].status \in Reserving
              /\ enrolled'[s][y].room = enrolled[s][y].room
    BY <1>4 DEF GivesNoSeat, IsEnrolled
  <1>7. \A c : Seated(c, Reserving)' \subseteq Seated(c, Reserving)
    BY <1>5 DEF Seated, IsEnrolled
  <1>8. \A c \in Classrooms :
           /\ Cardinality(Seated(c, Reserving)') <= Cardinality(Seated(c, Reserving))
           /\ Cardinality(Seated(c, Reserving)') \in Nat
           /\ Cardinality(Seated(c, Reserving)) \in Nat /\ capacity[c] \in Nat
    BY <1>7, SeatsGiven, SeatedFacts DEF SeatInv, TypeInv, TypeOK
  <1>9. SeatsWithinCapacity'
    <2> SUFFICES ASSUME NEW c \in Classrooms
                 PROVE  Cardinality(Seated(c, Reserving)') <= capacity'[c]
      BY DEF SeatsWithinCapacity
    <2> QED BY <1>1, <1>8 DEF SeatInv, SeatsWithinCapacity
  <1>10. ClaimsKept'
    <2> SUFFICES ASSUME NEW g \in Handlers, NEW c \in Classrooms,
                        Claims(req'[g]), req'[g].form.room = c
                 PROVE  holder'[c] = g /\ Cardinality(Seated(c, Reserving)') < capacity'[c]
      BY DEF ClaimsKept, Claims
    <2>1. \A k \in Handlers : req'[k] = IF k = h THEN Idle ELSE req[k]
      BY <1>1 DEF Goes, SeatInv, TypeInv, TypeOK
    <2>2. Claims(req[g]) /\ req[g].form.room = c
      BY <2>1, NoClaim
    <2>3. holder[c] = g /\ Cardinality(Seated(c, Reserving)) < capacity[c]
      BY <2>2 DEF SeatInv, ClaimsKept
    <2> QED BY <1>1, <1>8, <2>3
  <1> QED BY <1>7, <1>9, <1>10 DEF SeatInv

LEMMA ResizeWriteSeats ==
    ASSUME Fits, SeatInv, NEW h \in Handlers, ResizeWrite(h), TypeInv'
    PROVE  SeatInv'
  <1>1. Goes(h, Idle) /\ UNCHANGED <<enrolled, holder>>
    BY DEF ResizeWrite
  <1>2. \A c : Seated(c, Reserving)' = Seated(c, Reserving)
    BY <1>1 DEF Seated, IsEnrolled
  <1>3. \A c \in Classrooms : /\ capacity'[c] \in Nat /\ capacity[c] \in Nat
                              /\ Cardinality(Seated(c, Reserving)) \in Nat
    BY SeatedFacts DEF SeatInv, TypeInv, TypeOK
  <1>4. SeatsWithinCapacity'
    <2> SUFFICES ASSUME NEW c \in Classrooms
                 PROVE  Cardinality(Seated(c, Reserving)') <= capacity'[c]
      BY DEF SeatsWithinCapacity
    <2> QED BY <1>2, <1>3 DEF Fits, SeatInv, SeatsWithinCapacity
  <1>5. ClaimsKept'
    <2> SUFFICES ASSUME NEW g \in Handlers, NEW c \in Classrooms,
                        Claims(req'[g]), req'[g].form.room = c
                 PROVE  holder'[c] = g /\ Cardinality(Seated(c, Reserving)') < capacity'[c]
      BY DEF ClaimsKept, Claims
    <2>1. \A k \in Handlers : req'[k] = IF k = h THEN Idle ELSE req[k]
      BY <1>1 DEF Goes, SeatInv, TypeInv, TypeOK
    <2>2. Claims(req[g]) /\ req[g].form.room = c
      BY <2>1, NoClaim
    <2>3. holder[c] = g /\ Cardinality(Seated(c, Reserving)) < capacity[c]
      BY <2>2 DEF SeatInv, ClaimsKept
    \* The classroom that is written is free, and that of g is locked.
    <2>4. c # req[h].room
      BY <2>3, NullFacts DEF ResizeWrite, RoomFree
    <2>5. capacity'[c] = capacity[c]
      BY <2>4 DEF ResizeWrite, SeatInv, TypeInv, TypeOK
    <2> QED BY <1>1, <1>2, <2>3, <2>5
  <1> QED BY <1>4, <1>5 DEF SeatInv

\* Nothing that the seats depend on.
LEMMA OtherSeats ==
    ASSUME SeatInv, UNCHANGED <<rows, holder, req>>, TypeInv'
    PROVE  SeatInv'
  <1>1. \A c : Seated(c, Reserving)' = Seated(c, Reserving)
    BY DEF Seated, IsEnrolled, rows
  <1> QED BY <1>1 DEF SeatInv, ClaimsKept, Claims, SeatsWithinCapacity, rows

LEMMA SeatInit == Init => SeatInv
  <1> SUFFICES ASSUME Init PROVE SeatInv
    OBVIOUS
  <1>1. TypeInv
    BY TypeInit
  <1>2. ClaimsKept
    BY NoClaim DEF Init, ClaimsKept
  <1>3. SeatsWithinCapacity
    <2>1. \A c \in Classrooms : Seated(c, Reserving) = {}
      BY DEF Init, Seated, IsEnrolled
    <2>2. \A c \in Classrooms : capacity[c] \in Nat
      BY <1>1 DEF TypeInv, TypeOK
    <2> QED BY <2>1, <2>2, FS_EmptySet DEF SeatsWithinCapacity
  <1> QED BY <1>1, <1>2, <1>3 DEF SeatInv

LEMMA SeatStep ==
    ASSUME SecretaryCounts, SeatInv, [Next]_vars
    PROVE  SeatInv'
  <1>0. TypeInv'
    BY TypeStep DEF SeatInv
  <1>1. ASSUME NEW h \in Handlers, Submit(h) \/ PatchRead(h) \/ ResizeCheck(h) PROVE SeatInv'
    BY <1>0, <1>1, StartSeats
  <1>2. ASSUME NEW h \in Handlers, TakeRoom(h) \/ FindPerson(h) \/ WritePerson(h) \/ ReadYear(h)
        PROVE  SeatInv'
    BY <1>0, <1>2, TakeRoomSeats, FindPersonSeats, WritePersonSeats, ReadYearSeats
  <1>3. ASSUME NEW h \in Handlers, Commit(h) PROVE SeatInv'
    BY <1>0, <1>3, CommitSeats
  <1>4. ASSUME NEW h \in Handlers, PatchCommit(h) PROVE SeatInv'
    BY <1>0, <1>4, PatchCommitSeats DEF SecretaryCounts
  <1>5. ASSUME NEW h \in Handlers, ResizeWrite(h) PROVE SeatInv'
    BY <1>0, <1>5, ResizeWriteSeats DEF SecretaryCounts
  <1>6. ASSUME NEW h \in Handlers, DeadlockAbort(h) \/ Abort(h) PROVE SeatInv'
    BY <1>0, <1>6, FailsSeats DEF DeadlockAbort, Abort
  <1>7. CASE ChangeYear
    BY <1>0, <1>7, OtherSeats DEF ChangeYear
  <1>8. CASE UNCHANGED vars
    BY <1>0, <1>8, OtherSeats DEF vars, rows
  <1> QED BY <1>1, <1>2, <1>3, <1>4, <1>5, <1>6, <1>7, <1>8 DEF Next, Step

\* A step that changes no seat is one that the secretary may take.
LEMMA Unboxed ==
    ASSUME [SecretaryCounts]_<<capacity, enrolled>> PROVE SecretaryCounts
  BY DEF SecretaryCounts, GivesNoSeat, Fits

\* The last seat of a classroom goes to one of those who ask for it, by whichever
\* of the three ways in, for any number of classrooms, students and concurrent
\* requests: as long as updates give no seat away and no resize relies on a count
\* that has changed, no classroom has more students INSCRITO or in REVISION_SIE
\* than seats.
THEOREM SeatsAreKept ==
    Spec /\ [][SecretaryCounts]_<<capacity, enrolled>> => []SeatsWithinCapacity
  <1>1. Init => SeatInv
    BY SeatInit
  <1>2. SeatInv /\ [Next]_vars /\ [SecretaryCounts]_<<capacity, enrolled>> => SeatInv'
    BY SeatStep, Unboxed
  <1>3. SeatInv => SeatsWithinCapacity
    BY DEF SeatInv
  <1> QED BY <1>1, <1>2, <1>3, PTL DEF Spec

-----------------------------------------------------------------------------
(***************************************************************************)
(* The seats as the abstract specification has them                        *)
(***************************************************************************)
SeatOf(p) ==
    IF IsEnrolled(p[1], p[2]) /\ enrolled[p[1]][p[2]].status \in Reserving
    THEN enrolled[p[1]][p[2]].room ELSE None

\* The seats that are taken there are those that are counted here.
LEMMA TakenSeats ==
    ASSUME NEW c \in Classrooms
    PROVE  Bookings!Taken(c) = Seated(c, Reserving)
  <1>1. c # None
    BY NullFacts
  <1>2. \A p \in Students \X Years :
           SeatOf(p) = c <=> /\ IsEnrolled(p[1], p[2])
                             /\ enrolled[p[1]][p[2]].room = c
                             /\ enrolled[p[1]][p[2]].status \in Reserving
    BY <1>1 DEF SeatOf
  <1>3. Bookings!Taken(c) = {p \in Students \X Years : SeatOf(p) = c}
    BY DEF Bookings!Taken, SeatOf
  <1> QED BY <1>2, <1>3 DEF Seated

LEMMA BookingsInit == Init => Bookings!Init
  BY DEF Init, Bookings!Init, IsEnrolled

SeatMap == [p \in Students \X Years |-> SeatOf(p)]

LEMMA BookingsSame ==
    ASSUME UNCHANGED capacity, SeatMap' = SeatMap
    PROVE  UNCHANGED Bookings!vars
  BY DEF Bookings!vars, SeatMap, SeatOf, IsEnrolled

LEMMA BookingsCardinality ==
    ASSUME NEW S PROVE Bookings!Cardinality(S) = Cardinality(S)
  BY DEF Bookings!Cardinality, Cardinality

LEMMA BookingsBook ==
    ASSUME NEW p \in Students \X Years, NEW c \in Classrooms, UNCHANGED capacity,
           SeatMap[p] = None, Cardinality(Bookings!Taken(c)) < capacity[c],
           SeatMap' = [SeatMap EXCEPT ![p] = c]
    PROVE  Bookings!Next
  <1>1. Bookings!Book(p, c)
    BY BookingsCardinality DEF Bookings!Book, SeatMap, SeatOf, IsEnrolled
  <1> QED BY <1>1 DEF Bookings!Next

LEMMA BookingsLeave ==
    ASSUME NEW p \in Students \X Years, UNCHANGED capacity,
           SeatMap[p] # None, SeatMap' = [SeatMap EXCEPT ![p] = None]
    PROVE  Bookings!Next
  <1>1. Bookings!Leave(p)
    BY DEF Bookings!Leave, SeatMap, SeatOf, IsEnrolled
  <1> QED BY <1>1 DEF Bookings!Next

LEMMA BookingsResize ==
    ASSUME NEW c \in Classrooms, NEW n \in Capacities, SeatMap' = SeatMap,
           n >= Cardinality(Bookings!Taken(c)), capacity' = [capacity EXCEPT ![c] = n]
    PROVE  Bookings!Next
  <1>1. Bookings!Resize(c, n)
    BY BookingsCardinality DEF Bookings!Resize, SeatMap, SeatOf, IsEnrolled
  <1> QED BY <1>1 DEF Bookings!Next

\* Steps that change neither a capacity nor who has an enrollment.
LEMMA BookingsStutter ==
    ASSUME UNCHANGED <<capacity, enrolled>>
    PROVE  UNCHANGED Bookings!vars
  BY DEF Bookings!vars, IsEnrolled

\* The insert of an enrollment books a seat, unless its status takes none.
LEMMA CommitBooks ==
    ASSUME SeatInv, NEW h \in Handlers, Commit(h)
    PROVE  [Bookings!Next]_Bookings!vars
  <1>1. CASE IsEnrolled(req[h].student, req[h].year)
    BY <1>1, BookingsStutter DEF Commit, rows
  <1>2. CASE ~IsEnrolled(req[h].student, req[h].year)
    <2>0. PICK s, y, f : s = req[h].student /\ y = req[h].year /\ f = req[h].form
      OBVIOUS
    <2>1. /\ f \in Forms /\ s \in Students /\ y \in Years
          /\ \A t \in Students, z \in Years :
                enrolled'[t][z] = IF t = s /\ z = y THEN Stored(f) ELSE enrolled[t][z]
      BY <1>2, <2>0, CommitRows DEF SeatInv
    <2>2. UNCHANGED capacity /\ enrolled[s][y] = None
      BY <1>2, <2>0 DEF Commit, IsEnrolled
    <2>3. PICK p \in Students \X Years : p = <<s, y>>
      BY <2>1
    <2>4. \A q \in Students \X Years : q # p => SeatOf(q)' = SeatOf(q)
      BY <2>1, <2>3 DEF SeatOf, IsEnrolled
    <2>5. SeatOf(p) = None
      BY <2>2, <2>3 DEF SeatOf, IsEnrolled
    <2>6. SeatOf(p)' = IF NewStatus(f) \in Reserving THEN f.room ELSE None
      BY <2>1, <2>3, StoredRow DEF SeatOf, IsEnrolled
    <2>7. CASE NewStatus(f) \notin Reserving
      <3>1. \A q \in Students \X Years : SeatOf(q)' = SeatOf(q)
        BY <2>4, <2>5, <2>6, <2>7
      <3>2. SeatMap' = SeatMap
        BY <3>1 DEF SeatMap
      <3> QED BY <2>2, <3>2, BookingsSame
    <2>8. CASE NewStatus(f) \in Reserving
      <3>1. f.room \in Classrooms
        BY <2>1, FormFacts
      <3>2. Cardinality(Seated(f.room, Reserving)) < capacity[f.room]
        <4>1. req[h].pc = "commit"
          BY DEF Commit
        <4> QED BY <2>0, <3>1, <4>1 DEF Claims, SeatInv, ClaimsKept
      <3>3. SeatMap' = [SeatMap EXCEPT ![p] = f.room]
        BY <2>4, <2>6, <2>8 DEF SeatMap
      <3>4. SeatMap[p] = None
        BY <2>5 DEF SeatMap
      <3>5. Cardinality(Bookings!Taken(f.room)) < capacity[f.room]
        BY <3>1, <3>2, TakenSeats
      <3> QED BY <2>2, <3>1, <3>3, <3>4, <3>5, BookingsBook
    <2> QED BY <2>7, <2>8
  <1> QED BY <1>1, <1>2

\* An update gives a seat up, or none changes hands.
LEMMA PatchLeaves ==
    ASSUME GivesNoSeat, SeatInv, NEW h \in Handlers, PatchCommit(h)
    PROVE  [Bookings!Next]_Bookings!vars
  <1>1. UNCHANGED capacity
    BY DEF PatchCommit
  <1>2. PICK r : r = req[h]
    OBVIOUS
  <1>3. /\ r.student \in Students /\ r.year \in Years /\ r.patch \in Patches
        /\ enrolled[r.student][r.year] \in Enrollment
        /\ \A s \in Students, y \in Years :
              enrolled'[s][y] = IF s = r.student /\ y = r.year
                                THEN Patched(enrolled[s][y], r.patch) ELSE enrolled[s][y]
    BY <1>2, PatchRows DEF SeatInv
  <1>4. PICK p \in Students \X Years : p = <<r.student, r.year>>
    BY <1>3
  <1>5. IsEnrolled(r.student, r.year)
    BY <1>3, NullFacts DEF IsEnrolled
  <1>6. \A q \in Students \X Years : q # p => SeatOf(q)' = SeatOf(q)
    BY <1>3, <1>4 DEF SeatOf, IsEnrolled
  <1>7. SeatOf(p)' \in {SeatOf(p), None}
    BY <1>3, <1>4, <1>5 DEF GivesNoSeat, SeatOf, IsEnrolled
  <1>8. CASE SeatOf(p)' = SeatOf(p)
    <2>1. SeatMap' = SeatMap
      BY <1>6, <1>8 DEF SeatMap
    <2> QED BY <1>1, <2>1, BookingsSame
  <1>9. CASE SeatOf(p)' = None /\ SeatOf(p) # None
    <2>1. SeatMap' = [SeatMap EXCEPT ![p] = None] /\ SeatMap[p] # None
      BY <1>6, <1>9 DEF SeatMap
    <2> QED BY <1>1, <2>1, BookingsLeave
  <1> QED BY <1>7, <1>8, <1>9

\* A classroom keeps at least the seats that are taken.
LEMMA ResizeResizes ==
    ASSUME Fits, SeatInv, NEW h \in Handlers, ResizeWrite(h)
    PROVE  [Bookings!Next]_Bookings!vars
  <1>1. PICK c, n : c = req[h].room /\ n = req[h].size
    OBVIOUS
  <1>2. /\ req[h].pc = "resize" /\ capacity' = [capacity EXCEPT ![c] = n]
        /\ UNCHANGED enrolled
    BY <1>1 DEF ResizeWrite
  <1>3. c \in Classrooms /\ n \in Capacities /\ n \in Nat
    BY <1>1, <1>2, RequestFacts, EnrollmentsAssumption DEF SeatInv, RequestOK
  <1>4. capacity \in [Classrooms -> Nat]
    BY DEF SeatInv, TypeInv, TypeOK
  <1>5. /\ Cardinality(Seated(c, Reserving)) <= capacity[c]
        /\ Cardinality(Seated(c, Reserving)) \in Nat
    BY <1>3, SeatedFacts DEF SeatInv, SeatsWithinCapacity, TypeInv
  <1>6. capacity'[c] = n
    BY <1>2, <1>3, <1>4
  <1>7. n >= Cardinality(Seated(c, Reserving))
    BY <1>3, <1>4, <1>5, <1>6 DEF Fits
  <1>8. SeatMap' = SeatMap
    BY <1>2 DEF SeatMap, SeatOf, IsEnrolled
  <1>9. n >= Cardinality(Bookings!Taken(c))
    BY <1>3, <1>7, TakenSeats
  <1> QED BY <1>2, <1>3, <1>8, <1>9, BookingsResize

LEMMA BookingsStep ==
    ASSUME SecretaryCounts, SeatInv, [Next]_vars
    PROVE  [Bookings!Next]_Bookings!vars
  <1>1. CASE UNCHANGED <<capacity, enrolled>>
    BY <1>1, BookingsStutter
  <1>2. ASSUME NEW h \in Handlers, Commit(h) PROVE [Bookings!Next]_Bookings!vars
    BY <1>2, CommitBooks
  <1>3. ASSUME NEW h \in Handlers, PatchCommit(h) PROVE [Bookings!Next]_Bookings!vars
    BY <1>3, PatchLeaves DEF SecretaryCounts
  <1>4. ASSUME NEW h \in Handlers, ResizeWrite(h) PROVE [Bookings!Next]_Bookings!vars
    BY <1>4, ResizeResizes DEF SecretaryCounts
  <1>5. ASSUME NEW h \in Handlers,
               \/ Submit(h) \/ PatchRead(h) \/ ResizeCheck(h) \/ Abort(h) \/ DeadlockAbort(h)
               \/ TakeRoom(h) \/ FindPerson(h) \/ WritePerson(h) \/ ReadYear(h)
        PROVE  UNCHANGED <<capacity, enrolled>>
    BY <1>5 DEF Submit, PatchRead, ResizeCheck, Abort, DeadlockAbort, TakeRoom, FindPerson,
                WritePerson, ReadYear, rows
  <1>6. CASE ChangeYear
    BY <1>1, <1>6 DEF ChangeYear, rows
  <1>7. CASE UNCHANGED vars
    BY <1>1, <1>7 DEF vars
  <1> QED BY <1>1, <1>2, <1>3, <1>4, <1>5, <1>6, <1>7 DEF Next, Step

\* What the database shows of the seats is a behaviour of Seats, where a seat is
\* booked in one step and only if one is free: the lock, the count, the people and
\* the insert of a form, which others interleave with, amount to that one step.
THEOREM SeatsAreBooked ==
    Spec /\ [][SecretaryCounts]_<<capacity, enrolled>> => BooksSeats
  <1>1. Init => SeatInv /\ Bookings!Init
    BY SeatInit, BookingsInit
  <1>2. SeatInv /\ [Next]_vars /\ [SecretaryCounts]_<<capacity, enrolled>> => SeatInv'
    BY SeatStep, Unboxed
  <1>3. SeatInv /\ [Next]_vars /\ [SecretaryCounts]_<<capacity, enrolled>>
           => [Bookings!Next]_Bookings!vars
    BY BookingsStep, Unboxed
  <1> QED BY <1>1, <1>2, <1>3, PTL DEF Spec, BooksSeats, Bookings!Spec

-----------------------------------------------------------------------------
(***************************************************************************)
(* RUDE codes                                                              *)
(***************************************************************************)
\* No update turns an enrollment that is ANTIGUO into another type: none of the
\* checks of update is made for that.
StaysAntiguo ==
    \A s \in Students, y \in Years :
        IsEnrolled(s, y) /\ enrolled[s][y].type = "ANTIGUO"
            => enrolled'[s][y].type = "ANTIGUO"

\* What an approval has checked is still so when it is written: codes are never
\* taken away.
CodesKept ==
    \A h \in Handlers, s \in Students, y \in Years :
        req[h].pc = "patch" /\ req[h].patch.status = "INSCRITO"
            /\ req[h].student = s /\ req[h].year = y
        => MayEnroll(enrolled[s][y], s, req[h].patch)

CodeInv == TypeInv /\ EnrolledHaveCode /\ CodesKept

\* Only the read of an update makes a request an update.
LEMMA PatchesStay ==
    ASSUME TypeInv, NEW h \in Handlers,
           \/ Submit(h) \/ ResizeCheck(h) \/ Abort(h) \/ Step(h)
    PROVE  \A g \in Handlers : req'[g].pc = "patch" => req'[g] = req[g]
  <1>1. ASSUME NEW n, Goes(h, n), n.pc # "patch"
        PROVE  \A g \in Handlers : req'[g].pc = "patch" => req'[g] = req[g]
    BY <1>1 DEF Goes, TypeInv, TypeOK
  <1>2. Goes(h, Idle) => \A g \in Handlers : req'[g].pc = "patch" => req'[g] = req[g]
    BY <1>1, IdleRequest
  <1>3. CASE Submit(h)
    <2>1. PICK f \in Forms :
             Goes(h, [Idle EXCEPT !.pc = IF f.via = "import" THEN "person" ELSE "room",
                                  !.form = f, !.student = f.people[1],
                                  !.year = IF f.via = "create" THEN None ELSE f.year])
      BY <1>3 DEF Submit
    <2>2. PICK n : n = [Idle EXCEPT !.pc = IF f.via = "import" THEN "person" ELSE "room",
                                    !.form = f, !.student = f.people[1],
                                    !.year = IF f.via = "create" THEN None ELSE f.year]
      OBVIOUS
    <2> QED BY <1>1, <2>1, <2>2, SubmitRecord
  <1>4. CASE ResizeCheck(h)
    <2>1. PICK c \in Classrooms, k \in Capacities :
             Goes(h, [Idle EXCEPT !.pc = "resize", !.room = c, !.size = k])
      BY <1>4 DEF ResizeCheck
    <2>2. PICK n : n = [Idle EXCEPT !.pc = "resize", !.room = c, !.size = k]
      OBVIOUS
    <2> QED BY <1>1, <2>1, <2>2, ResizeRecord
  <1>5. CASE Fails(h) \/ Commit(h) \/ PatchCommit(h) \/ ResizeWrite(h)
    BY <1>2, <1>5 DEF Fails, Goes, Commit, PatchCommit, ResizeWrite
  <1>6. CASE TakeRoom(h) /\ ~Fails(h)
    <2>1. PICK n : n = [req[h] EXCEPT !.pc = IF req[h].form.via = "import" THEN "commit"
                                             ELSE "person"]
      OBVIOUS
    <2>2. req[h].pc = "room" /\ Goes(h, n)
      BY <1>6, <2>1 DEF TakeRoom
    <2> QED BY <1>1, <2>1, <2>2, RoomRecord, RequestFacts
  <1>7. ASSUME req[h].pc \in {"person", "write"}, NEW p, NEW written, PersonDone(h, p, written),
               ~Fails(h)
        PROVE  \A g \in Handlers : req'[g].pc = "patch" => req'[g] = req[g]
    <2>1. PICK n : n = After(req[h], req[h].next)
      OBVIOUS
    <2>2. Goes(h, n)
      BY <1>7, <2>1 DEF PersonDone
    <2> QED BY <1>1, <1>7, <2>1, <2>2, PersonFacts, AfterRecord
  <1>8. CASE FindPerson(h) /\ ~Fails(h)
    <2> DEFINE p == req[h].form.people[req[h].next]
    <2>1. req[h].pc = "person"
      BY <1>8 DEF FindPerson
    <2>2. CASE PersonDone(h, p, FALSE)
      <3> HIDE DEF p
      <3> QED BY <1>7, <1>8, <2>1, <2>2
    <2>3. CASE ~PersonDone(h, p, FALSE)
      <3>1. PICK n : n = [req[h] EXCEPT !.pc = "write", !.found = SeesRow(req[h], p)]
        OBVIOUS
      <3>2. Goes(h, n)
        BY <1>8, <2>3, <3>1 DEF FindPerson
      <3>3. PICK found \in BOOLEAN : found = SeesRow(req[h], p)
        BY DEF SeesRow
      <3>4. n.pc # "patch"
        BY <2>1, <3>1, <3>3, WriteRecord, PersonFacts
      <3> QED BY <1>1, <3>2, <3>4
    <2> QED BY <2>2, <2>3
  <1>9. CASE WritePerson(h) /\ ~Fails(h)
    <2> DEFINE p == req[h].form.people[req[h].next]
    <2>1. req[h].pc = "write" /\ PersonDone(h, p, TRUE)
      BY <1>9 DEF WritePerson
    <2> HIDE DEF p
    <2> QED BY <1>7, <1>9, <2>1
  <1>10. CASE ReadYear(h) /\ ~Fails(h)
    <2>1. PICK n : n = [req[h] EXCEPT !.pc = "commit", !.year = active]
      OBVIOUS
    <2>2. Goes(h, n) /\ req[h].pc = "year" /\ active \in Years
      BY <1>10, <2>1 DEF ReadYear, TypeInv, TypeOK
    <2> QED BY <1>1, <2>1, <2>2, RequestFacts, YearRecord
  <1>11. CASE Abort(h) \/ DeadlockAbort(h)
    BY <1>5, <1>11 DEF Abort, DeadlockAbort
  <1> QED BY <1>3, <1>4, <1>5, <1>6, <1>8, <1>9, <1>10, <1>11 DEF Step

\* Steps that change no enrollment and no code.
LEMMA QuietCodes ==
    ASSUME CodeInv, UNCHANGED <<enrolled, coded>>, TypeInv',
           \A g \in Handlers : req'[g].pc = "patch" => req'[g] = req[g]
    PROVE  CodeInv'
  <1>1. EnrolledHaveCode'
    BY DEF CodeInv, EnrolledHaveCode, IsEnrolled
  <1>2. CodesKept'
    BY DEF CodeInv, CodesKept, MayEnroll
  <1> QED BY <1>1, <1>2 DEF CodeInv

LEMMA PatchReadCodes ==
    ASSUME CodeInv, NEW h \in Handlers, PatchRead(h), TypeInv'
    PROVE  CodeInv'
  <1>1. PICK s \in Students, y \in Years, p \in Patches :
           /\ p.status = "INSCRITO" => MayEnroll(enrolled[s][y], s, p)
           /\ Goes(h, [Idle EXCEPT !.pc = "patch", !.student = s, !.year = y, !.patch = p])
    BY DEF PatchRead
  <1>2. PICK n : n = [Idle EXCEPT !.pc = "patch", !.student = s, !.year = y, !.patch = p]
    OBVIOUS
  <1>3. n.student = s /\ n.year = y /\ n.patch = p
    <2>1. n = [pc |-> "patch", form |-> None, next |-> 1, found |-> FALSE, student |-> s,
               year |-> y, patch |-> p, room |-> None, size |-> None]
      BY <1>2 DEF Idle
    <2> QED BY <2>1, PatchRecord
  <1>4. /\ \A g \in Handlers : req'[g] = IF g = h THEN n ELSE req[g]
        /\ UNCHANGED <<enrolled, coded>>
    BY <1>1, <1>2 DEF PatchRead, Goes, rows, CodeInv, TypeInv, TypeOK
  <1>5. EnrolledHaveCode'
    BY <1>4 DEF CodeInv, EnrolledHaveCode, IsEnrolled
  <1>6. CodesKept'
    <2> SUFFICES ASSUME NEW g \in Handlers, NEW t \in Students, NEW z \in Years,
                        req'[g].pc = "patch", req'[g].patch.status = "INSCRITO",
                        req'[g].student = t, req'[g].year = z
                 PROVE  MayEnroll(enrolled[t][z], t, req'[g].patch)
      BY <1>4 DEF CodesKept, MayEnroll
    <2>1. CASE g = h
      BY <1>1, <1>3, <1>4, <2>1
    <2>2. CASE g # h
      BY <1>4, <2>2 DEF CodeInv, CodesKept
    <2> QED BY <2>1, <2>2
  <1> QED BY <1>5, <1>6 DEF CodeInv

LEMMA CommitCodes ==
    ASSUME CodeInv, NEW h \in Handlers, Commit(h), TypeInv'
    PROVE  CodeInv'
  <1>0. \A g \in Handlers : req'[g].pc = "patch" => req'[g] = req[g]
    BY PatchesStay DEF CodeInv, Step
  <1>1. CASE IsEnrolled(req[h].student, req[h].year)
    BY <1>0, <1>1, QuietCodes DEF Commit, rows
  <1>2. CASE ~IsEnrolled(req[h].student, req[h].year)
    <2>1. PICK s, y, f : s = req[h].student /\ y = req[h].year /\ f = req[h].form
      OBVIOUS
    <2>2. /\ f \in Forms /\ s \in Students /\ y \in Years
          /\ \A t \in Students, z \in Years :
                enrolled'[t][z] = IF t = s /\ z = y THEN Stored(f) ELSE enrolled[t][z]
          /\ coded \subseteq coded'
      BY <1>2, <2>1, CommitRows DEF CodeInv
    <2>3. NewStatus(f) = "INSCRITO" => s \in coded'
      BY <1>2, <2>1 DEF Commit, NewStatus
    <2>4. EnrolledHaveCode'
      <3> SUFFICES ASSUME NEW t \in Students, NEW z \in Years, enrolled'[t][z] # None,
                          enrolled'[t][z].status = "INSCRITO",
                          enrolled'[t][z].type # "ANTIGUO"
                   PROVE  t \in coded'
        BY DEF EnrolledHaveCode, IsEnrolled
      <3>1. CASE t = s /\ z = y
        BY <2>2, <2>3, <3>1, StoredRow
      <3>2. CASE ~(t = s /\ z = y)
        BY <2>2, <3>2 DEF CodeInv, EnrolledHaveCode, IsEnrolled
      <3> QED BY <3>1, <3>2
    <2>5. CodesKept'
      <3> SUFFICES ASSUME NEW g \in Handlers, NEW t \in Students, NEW z \in Years,
                          req'[g].pc = "patch", req'[g].patch.status = "INSCRITO",
                          req'[g].student = t, req'[g].year = z
                   PROVE  MayEnroll(enrolled[t][z], t, req[g].patch)'
        BY DEF CodesKept
      <3>1. /\ req'[g] = req[g] /\ IsEnrolled(t, z)
            /\ MayEnroll(enrolled[t][z], t, req[g].patch)
        BY <1>0 DEF CodeInv, TypeInv, PatchesFound, CodesKept
      <3>2. enrolled'[t][z] = enrolled[t][z]
        BY <1>2, <2>1, <2>2, <3>1
      <3> QED BY <2>2, <3>1, <3>2 DEF MayEnroll
    <2> QED BY <2>4, <2>5 DEF CodeInv
  <1> QED BY <1>1, <1>2

LEMMA PatchCommitCodes ==
    ASSUME StaysAntiguo, CodeInv, NEW h \in Handlers, PatchCommit(h), TypeInv'
    PROVE  CodeInv'
  <1>0. \A g \in Handlers : req'[g].pc = "patch" => req'[g] = req[g]
    BY PatchesStay DEF CodeInv, Step
  <1>1. PICK r, e : r = req[h] /\ e = enrolled[r.student][r.year]
    OBVIOUS
  <1>2. /\ r.student \in Students /\ r.year \in Years /\ r.patch \in Patches
        /\ e \in Enrollment /\ e # None
        /\ \A s \in Students, y \in Years :
              enrolled'[s][y] = IF s = r.student /\ y = r.year
                                THEN Patched(e, r.patch) ELSE enrolled[s][y]
        /\ coded' = IF r.patch.coded THEN coded \cup {r.student} ELSE coded
    BY <1>1, PatchRows, NullFacts DEF CodeInv
  <1>3. PICK n : n = Patched(e, r.patch)
    OBVIOUS
  <1>4. /\ n.status = IF r.patch.status = None THEN e.status ELSE r.patch.status
        /\ n # None
    BY <1>2, <1>3, PatchedRow
  <1>5. e.type = "ANTIGUO" => n.type = "ANTIGUO"
    BY <1>1, <1>2, <1>3 DEF StaysAntiguo, IsEnrolled
  <1>6. coded \subseteq coded' /\ (r.patch.coded => r.student \in coded')
    BY <1>2
  <1>7. r.patch.status = "INSCRITO" => MayEnroll(e, r.student, r.patch)
    BY <1>1, <1>2 DEF CodeInv, CodesKept, PatchCommit
  <1>8. n.status = "INSCRITO" /\ n.type # "ANTIGUO" => r.student \in coded'
    <2>1. CASE r.patch.status = "INSCRITO"
      BY <1>5, <1>6, <1>7, <2>1 DEF MayEnroll
    <2>2. CASE r.patch.status # "INSCRITO"
      BY <1>1, <1>2, <1>4, <1>5, <1>6, <2>2 DEF CodeInv, EnrolledHaveCode, IsEnrolled
    <2> QED BY <2>1, <2>2
  <1>9. EnrolledHaveCode'
    <2> SUFFICES ASSUME NEW t \in Students, NEW z \in Years, enrolled'[t][z] # None,
                        enrolled'[t][z].status = "INSCRITO",
                        enrolled'[t][z].type # "ANTIGUO"
                 PROVE  t \in coded'
      BY DEF EnrolledHaveCode, IsEnrolled
    <2>1. CASE t = r.student /\ z = r.year
      BY <1>2, <1>3, <1>8, <2>1
    <2>2. CASE ~(t = r.student /\ z = r.year)
      BY <1>2, <1>6, <2>2 DEF CodeInv, EnrolledHaveCode, IsEnrolled
    <2> QED BY <2>1, <2>2
  <1>10. CodesKept'
    <2> SUFFICES ASSUME NEW g \in Handlers, NEW t \in Students, NEW z \in Years,
                        req'[g].pc = "patch", req'[g].patch.status = "INSCRITO",
                        req'[g].student = t, req'[g].year = z
                 PROVE  MayEnroll(enrolled[t][z], t, req[g].patch)'
      BY DEF CodesKept
    <2>1. /\ req'[g] = req[g] /\ IsEnrolled(t, z)
          /\ MayEnroll(enrolled[t][z], t, req[g].patch)
      BY <1>0 DEF CodeInv, TypeInv, PatchesFound, CodesKept
    <2>2. enrolled[t][z].type = "ANTIGUO" => enrolled'[t][z].type = "ANTIGUO"
      BY <2>1 DEF StaysAntiguo
    <2> QED BY <1>6, <2>1, <2>2 DEF MayEnroll
  <1> QED BY <1>9, <1>10 DEF CodeInv

LEMMA CodeStep ==
    ASSUME StaysAntiguo, CodeInv, [Next]_vars
    PROVE  CodeInv'
  <1>0. TypeInv'
    BY TypeStep DEF CodeInv
  <1>1. ASSUME NEW h \in Handlers, PatchRead(h) \/ Commit(h) \/ PatchCommit(h) PROVE CodeInv'
    BY <1>0, <1>1, PatchReadCodes, CommitCodes, PatchCommitCodes
  <1>2. ASSUME NEW h \in Handlers, Submit(h) \/ ResizeCheck(h) \/ Abort(h) \/ Step(h),
               ~Commit(h), ~PatchCommit(h)
        PROVE  CodeInv'
    <2>1. UNCHANGED <<enrolled, coded>>
      BY <1>2 DEF Submit, ResizeCheck, Abort, Step, TakeRoom, FindPerson, WritePerson,
                  ReadYear, ResizeWrite, DeadlockAbort, rows
    <2>2. \A g \in Handlers : req'[g].pc = "patch" => req'[g] = req[g]
      BY <1>2, PatchesStay DEF CodeInv
    <2> QED BY <1>0, <2>1, <2>2, QuietCodes
  <1>3. CASE ChangeYear \/ UNCHANGED vars
    BY <1>0, <1>3, QuietCodes DEF ChangeYear, vars, rows
  <1> QED BY <1>1, <1>2, <1>3 DEF Next

\* By whichever way in, and with updates that race: whoever is INSCRITO and not
\* ANTIGUO has a RUDE code, as long as no update takes the type ANTIGUO away.
THEOREM CodesComeFirst ==
    Spec /\ [][StaysAntiguo]_enrolled => []EnrolledHaveCode
  <1>1. Init => CodeInv
    <2> SUFFICES ASSUME Init PROVE CodeInv
      OBVIOUS
    <2>1. \A h \in Handlers : req[h] = Idle
      BY DEF Init
    <2>2. EnrolledHaveCode /\ CodesKept
      BY <2>1, IdleRequest DEF Init, EnrolledHaveCode, IsEnrolled, CodesKept
    <2> QED BY <2>2, TypeInit DEF CodeInv
  <1>2. CodeInv /\ [Next]_vars /\ [StaysAntiguo]_enrolled => CodeInv'
    <2>1. [StaysAntiguo]_enrolled => StaysAntiguo
      BY DEF StaysAntiguo
    <2> QED BY <2>1, CodeStep
  <1>3. CodeInv => EnrolledHaveCode
    BY DEF CodeInv
  <1> QED BY <1>1, <1>2, <1>3, PTL DEF Spec
=============================================================================
