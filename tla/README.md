# U-ECG: a verification project for the school API

U-ECG is a school management system: a NestJS API over PostgreSQL (through
Prisma), Redis and BullMQ, a React administration, a Flutter application for
families and a landing page. The clients only call the API, so its services hold
the core logic: the school calendar, enrollments with limited seats, grades under
Law 070, attendance, campaigns in which families update their data, sessions and
timetables.

This directory holds TLA+ models of those services, the TLC configurations that
check them, and theorems that TLAPS proves. All source paths below are relative
to `src/api/src/` unless they start with `src/`.

## 1. The system

### How the parts interact

Every component is a NestJS service called by a controller, one asynchronous
call per HTTP request; several requests, and several API processes, run at once.
The services share the PostgreSQL tables (`src/api/prisma/schema/schema.prisma`)
and call each other little: a year creates its trimesters through the trimester
service; grades and attendance read the year, the trimester and the enrollment
they belong to; notifications, mail and reports are jobs put into BullMQ queues.
Redis caches the current year, the institution, the role permissions and
answered idempotency keys.

The hard behaviours come from that arrangement:

- **READ COMMITTED transactions.** No service raises the isolation level. Between
  a check and the write it justifies, other transactions commit. Some services
  take a lock (`pg_advisory_xact_lock`, `SELECT ... FOR UPDATE`), most do not.
- **Checks outside the transaction.** Many handlers read and check first and only
  then open the transaction, which does not look again.
- **Row locks taken by the way.** Two transactions may wait for each other;
  PostgreSQL aborts one.
- **Partial failure.** A transaction may time out, lose its connection or its
  process at any point; what follows the commit (cache invalidation, alerts) may
  then never happen.

### Inventory

| Component | State it keeps | Operations | Hard part | What makes it correct |
|---|---|---|---|---|
| Academic years and trimesters (`academic-years`, `trimesters`) | years with status and dates, three trimesters each, a Redis entry of the current year | create, update, remove a year; update a trimester; find the current year; clone a structure | deactivating the other years and activating one are two statements; trimester checks precede their transaction; cache fill races invalidation | one ACTIVE year; none lost by a failure; trimesters in order; waiting requests end |
| Grades (`grades`) | grades, grade audits, change requests | upsert, bulk update, create and resolve a change request | lost updates, repeated students in a list, resolution races, alerts | the law's arithmetic; the audit tells what is stored; approvals take effect |
| Enrollments and RUDE (`enrollments`, `students`) | students, guardians, enrollments, RUDE records | create, registerFullRude, Excel import, update | the last seat; locks taken in different orders | seats within capacity; no INSCRITO without a code; waiting requests end |
| Classrooms (`classrooms`) | classrooms with capacity, advisor, base room | create, bulk create, update, remove | capacity checked without the lock that enrollments take | capacity not below the seats taken |
| Data-update campaigns (`data-updates`) | PENDING / APPROVED / REJECTED proposals, the student's update count | submit, approve, reject, mark delivery | approval applies a proposal read earlier; two reviewers; brothers and sisters share tutors | a merge is whole; the limit of updates ends them; waiting approvals end |
| Attendance (`attendance`) | attendance records, justifications, holidays | bulk, scan, manual mark, justify, ranges, holidays, closing of a shift | the closing job against scans, marks and licences; several processes run it | records are kept; nobody is left unmarked; licences hold |
| Authentication (`auth`) | failed attempts and lockout, sessions with refresh tokens, recovery codes, QR challenges | login, refresh, logout, revoke, recover, authorise a QR | read-then-write counters, rotation races, at most ten sessions | attempts and lockout agree; sessions stay bounded; revoked ones stay revoked |
| Roles (`auth/services/roles.service.ts`) | role permissions and their cache | update, read | cache fill races invalidation | stale permissions go |
| Users, subjects, guardians | single rows | CRUD | little | unique keys |
| Timetables and assignments (`timetables`, `teacher-assignments`) | assignments, slots | create and remove slots, change a teacher, clone | a slot made from an assignment read earlier; a removal that counted before | no clash of teacher, classroom or room; a reassignment hands over every lesson; grades keep their assignment |
| Class periods and spaces | periods, rooms | CRUD | overlap is only read for | periods do not overlap |
| Institutions | one row and its cache | read, update | as the calendar's cache | as the calendar's cache |
| Identity cards (`identity`) | QR version of a student | issue, revoke | a scan of an old card | old versions are refused |
| Idempotency interceptor (`common/interceptors`) | Redis entries by key | one per request | get and set are two calls | one execution per key |
| Queues: reports, mail, notifications | BullMQ jobs | workers | retries | outside: BullMQ |
| Audit log, dashboard, realtime, encryption, Firebase | none of their own to protect | append, read, push, encrypt | | |

`PROJECT.json` lists each with its status, and the hazards line by line.

## 2. Plan

In order of importance; modules of a step are checked before the next begins.

1. **AcademicCalendar** (done): the calendar every other service depends on, its
   locks, deadlocks and cache, with theorems about its years and its trimesters.
2. **Grades** (done): the sheet, the audit, change requests, alerts.
3. **Enrollments** and its abstract specification **Seats** (done), whose steps are
   proved to be implemented.
4. **DataUpdates** (done): submit, approve, reject against each other, over the
   row locks of students and tutors.
5. **Attendance** (done): scans, marks, licences, the closing job; cards with it.
6. **Accounts** (done): attempts and lockout, sessions, recovery, deactivation.
7. **Timetables** (done): assignments, lessons and physical spaces.
8. **Proofs** (done): each component has a module of theorems, which state every
   action property and every invariant that a passing run checks, two of them in
   the form in which they hold for any number of editors (section 6). What is left
   is to state more of what holds under races, a licence that comes while a job
   runs first, and to prove it.

The modules are instances of one school: they interact through rows that one
writes and the other only reads. Each module therefore has an action for what the
rest of the API may do to those rows (`OtherServices`, `ChangeYear`, `Grade`)
instead of a product of all state spaces.

## 3. Modules

| Module | What it is |
|---|---|
| `AcademicCalendar` | `academic-years.service.ts` and `trimesters.service.ts` |
| `MCAcademicCalendar` | request bodies for TLC |
| `AcademicCalendarProofs`, `GradesProofs`, `EnrollmentsProofs`, `DataUpdatesProofs`, `AttendanceProofs`, `AccountsProofs`, `TimetablesProofs` | the theorems about each (section 6) |
| `Grades`, `MCGrades` | `grades.service.ts` for one sheet (teacher assignment and trimester) |
| `Enrollments`, `MCEnrollments` | enrollments, `students.service.ts` registration and import, the capacity in `classrooms.service.ts` |
| `Seats` | what enrollments promise: a seat is booked in one step where one is free |
| `DataUpdates`, `MCDataUpdates` | `data-updates.service.ts` and `data-updates-transaction.service.ts` |
| `Attendance`, `MCAttendance` | `attendance.service.ts`, `attendance.cron.ts` and the cards of `identity.service.ts`, for one shift on one day |
| `Accounts`, `MCAccounts` | `auth.service.ts`, the token, password and recovery services, and the parts of `users.service.ts` that end sessions |
| `Timetables`, `MCTimetables` | `timetables.service.ts`, `teacher-assignments.service.ts`, `physical-spaces.service.ts`, `classrooms.service.ts` (removal) |

### Conventions

- A request is a **handler** with a program counter. Each action is what happens
  atomically: a read with the checks made on it, a statement that waits for a
  lock, or a commit. What a handler has read it keeps in its record; the commit
  uses those values, as stale as they may be by then.
- The writes of a transaction take effect in its commit action. Locks that others
  can wait for are variables (`advisory`, `rowLock`, `holder`).
- `None` is null or undefined. Grades tells the two apart (`None`, `Absent`),
  because `null` clears a score and an absent field keeps it.
- Requests carry DTO values from constant sets that satisfy the DTO's validation
  (an assumption of the module).
- A request may fail at any step (`YearAborts`, `TrimesterAborts`, `Abort`): a
  transaction's timeout, a lost connection or a stopped process. PostgreSQL's
  deadlock detection is an action of its own (`RemoveDeadlock`, `DeadlockAbort`):
  it is one that fairness may rely on.

### AcademicCalendar

`years` and `trimesters` are the tables; `inUse` and `pendingUpdates` stand for
the counts of classrooms, enrollments and pending data updates; `advisory` is the
lock `uecg_academic_year_status_lock`; `rowLock` holds the row locks of
trimesters, the only rows that transactions of this component take in an order
that may cross; `cache` is the Redis entry.

- `create`: `CreateCheck` (number and dates), `CreateBegin` (advisory lock,
  `deactivateOtherActiveYears`), `CreateCommit` (insert with default trimesters,
  or rollback on a taken number), `YearInvalidate`.
- `update`: `UpdateRequest`, `UpdateBegin` (lock, all checks), `UpdateCommit`.
- `remove`: `RemoveRequest`, `RemoveBegin`, `RemoveRow` for each trimester row,
  `RemoveCommit`.
- `TrimestersService.update`: `TrimesterRead`, `TrimesterSiblings` (the two reads
  before the transaction), `CloseOthers`, `CloseOther` (updateMany row by row),
  `TrimesterWrite`, `TrimesterInvalidate`.
- `findCurrentActive`: `FindMiss`, `FindQuery`, `FindStore`; `CacheExpires`.

A request that is over is `idle`, or `failed` if it was cut short; a handler in
either state (`Over`) may take the next request. The two are told apart because a
request that dies after its commit leaves its invalidation undone.

### Grades

One sheet: the grades of the students of one assignment in one trimester.
`UpsertCheck`, `UpsertRead` and `EditCommit` are `upsertGrade`; `BulkCheck`,
`BulkFilter`, `BulkRead` and `EditCommit` are `updateBulkGrades`; `SendAlert` is
`safeSendGradeAlert`; `RequestCheck`, `RequestCreate` are `createChangeRequest`;
`ResolveRead`, `ResolveAlert`, `ResolveCommit` are `resolveChangeRequest`, whose
alert goes out inside the transaction, before its commit or its failure.
`CalculateGradeScores` is `calculateGradeScores` with its limits and pass mark.
Of the audit the newest row of each grade is kept.

### Enrollments and Seats

A form is one enrollment: `create`, `registerFullRude`, or one row of an import.
`TakeRoom` is `SELECT ... FOR UPDATE` with the count of seats, `FindPerson` and
`WritePerson` deal with the student and the guardians one by one, `ReadYear` reads
the active year (create only), `Commit` inserts. `PatchRead` and `PatchCommit` are
`update`; `ResizeCheck` and `ResizeWrite` are the capacity part of
`ClassroomsService.update`. The import deals with its people first and locks the
classroom last, the other two the other way round. `Seats` has three steps: book,
leave, resize; `Bookings` maps the enrollments that are INSCRITO or in
REVISION_SIE to its seats.

### DataUpdates

`request` is the table `data_update_requests`; `file` and `tutor` say which form
was merged last into the file of a student and into the row of a tutor, which is
all that its dozens of fields are needed for; `count` is `rudeUpdateCount`;
`holder` has the row locks of the transaction.

- `submitUpdate`: `SubmitCheck`, `SubmitFind` (the pending request, if any),
  `SubmitWrite` (replaces its form by id, or creates one).
- `approveUpdate`: `ApproveRead`, and in the transaction `ApproveVerify` (the
  status, without a lock), `ApproveStudent`, `ApproveTutor` for each tutor in the
  order of the form, `ApproveCommit`.
- `rejectUpdate`: `RejectRead`, `RejectWrite`; `MarkPhysicalDelivery` in one step.

### Attendance

`record` is the table of one day; `licences` are the APPROVED justifications of
ranges of days. `MarkCheck` and `MarkWrite` are `saveBulkAttendance` and
`markManualAttendance`; `ScanCheck`, `ScanCard`, `ScanEnrollment` and `ScanWrite`
are `registerScan`, with `validateQrToken` between its checks;
`JustifyAttendance` is one update; `LicenceCreate` and `LicenceExcuse` are the two
statements of `createJustificationRange`. The job `processAttendanceClosing` is
six steps, a statement each, from `CloseStart` to `CloseInsert`; each process of
the API runs one.

Days are integers. `Today` is the day in La Paz, which the job takes. Licences, lists
and holidays (`CreateHoliday`) carry dates that pass through `SafeLocalDate`: a date
without an hour is midnight in UTC, of which `getSafeLocalDate` takes the server's
day, so west of UTC (`Zone` negative) it is the day before. `Asked` and `Ranges` are
what requests carry, `Stored` and `StoredRanges` what reaches the table; a list that
is stored for another day than today changes nothing in `record`. A single mark and a
scan are of the present moment, whose day `getSafeLocalDate` gives rightly in La Paz
and, in school hours, in UTC; other zones are excluded by `AttendanceAssumption`.

### Accounts

`attempts` and `lock` are the two columns that login writes, `sessions` the
sessions of a user in the order of `lastActiveAt`. `LoginRead`, then `LoginFail` or
`LoginPass` after the comparison of hashes; `ListSessions`, `EvictSessions` and
`CreateSession` are `generateTokens` of a new session, which a login, a first
password and an authorised QR challenge end with; `FindSession`, then
`RotateSession` is a refresh and `RevokeMatched` a logout. Tokens and hashes are
left out: what decides is which row `findMatchingSession` finds.

### Timetables

`teacher` is the table `teacher_assignments` (the teacher of each assignment that
exists), `slot` is `schedule_slots`, `space` the physical spaces. An hour is a day
with a class period. `CreateRead`, `CreateCheck`, `CreateWrite` are `createSlot`;
`MoveRead`, `MoveCheck`, `MoveWrite` are `updateSlotSpace`; `ReassignRead` and
`ReassignWrite` are the update of an assignment, `RemoveCount` and `RemoveDelete`
its removal; `RemoveClassroom` is the removal of a classroom with all that goes with
it; `SpaceCheck` precedes `SpaceDeactivate` and `SpaceDelete`. `Clash` has
the three unique constraints that a commit meets.

## 4. Runs

Every run of TLC below finishes; the bounds are in the `.cfg` files and the MC
modules.

| Run | What it shows | Bounds, and why they are enough |
|---|---|---|
| `calendar_years` | one ACTIVE year; no active year lost; the cached year goes stale only by a late reader or a crash | two years, two concurrent requests, one reader; both ways to become active (create, update); two requests may carry one number, so a create fails after it has deactivated others. A second holder or a third year adds no new pair of conflicting writes. Nobody edits trimesters here: their invalidations are covered by `StaleByRaceOrCrash` only |
| `calendar_trimesters` | one open trimester, trimesters in order, every request ends | one year with its three trimesters, one editor, two year requests: waits for the advisory lock, for rows, and the deadlock of a removal with an edit. The seven days and three patches give dates that fit alone but not together |
| `calendar_finding_closing` | see section 7 | |
| `grades_sheet` | Law 070, the audit and approvals stay true under races; families are told of what is stored, or of a correction just before its commit; a closed sheet settles | one student, two requests of which one may be a list: a draft that fails, a list that names its student twice and publishes, a correction with which the total passes or fails, and its resolutions. The lemmas of section 6 are of all scores |
| `grades_finding_resolved` | see section 7 | |
| `enrollments_seats` | seats within capacity; Enrollments implements Seats | one seat, two students, two requests, every way in, students who leave, a classroom that grows. Capacity 1 stands for a classroom (10 to 50 seats) with one seat left |
| `enrollments_forms` | no INSCRITO without a code; every request ends | two classrooms, two students, two guardians whom forms name in opposite orders, approvals with and without a code |
| `enrollments_finding_oversold` | see section 7 | |
| `data_updates` | merges are whole, the limit is final, updates end, every request ends | two students of a family with two tutors, whom their forms name in opposite orders and one form twice; two requests at a time; a limit of one update (the last one of the two that the schema grants) |
| `attendance` | records are kept, nobody is left out, licences and revoked cards hold, everybody is marked | one student (students share nothing but the job's lists), two periods after a break, one closing job beside one request at a time; a server in La Paz, where dates shift by a day; lists and holidays for today and tomorrow, so that one of them lands on today; licences asked for so that what is stored covers the day, does not, or has its days reversed; delays of 5, 6 and 16 minutes, on the tolerances and past them. A second job passes the time limit: several processes are covered by the theorems, which leaves `EverybodyIsMarked` checked for one |
| `accounts` | attempts and lockout agree, sessions are bounded, none comes back | one user (users share nothing), two requests at a time, three attempts, two sessions: the evictions of both requests overlap |
| `timetables` | no double booking, reassignments hand over all lessons, grades keep their assignment | two subjects of two classrooms, one that must stay in its base room and one that moves; three teachers, so that two reassignments overlap; two hours, two lessons, two requests |

`CHECK_DEADLOCK FALSE` appears in the calendar's configurations only: ids of years
are never used again, so once all are removed nothing can be requested.

## 5. Fairness

Only liveness properties use `FairSpec`.

- *A request that has started goes on*: strong fairness of a handler's steps in
  AcademicCalendar, Enrollments and DataUpdates, where a step may be disabled while another
  transaction holds the lock. PostgreSQL serves the waiters of a lock in order, so
  one cannot be passed for ever. Weak fairness in Grades, where a handler's next
  step stays enabled. It is never assumed that a new request arrives, nor that a
  transaction fails to fail: `YearAborts`, `TrimesterAborts` and `Abort` are not
  part of a fair action.
- *Deadlock detection* is part of a handler's fair steps: PostgreSQL aborts a
  transaction of every cycle (`deadlock_timeout`). Without it `EveryRequestEnds`
  fails, in these modules.
- *The closing job runs to its end* (weak fairness of `CloseStep`): `@Cron` starts it
  in every process. It may fail at any step, and then stays failed:
  `EverybodyIsMarked` is of days on which one of the processes does not, which in the
  run with its one job are the days on which that job does not.

## 6. Theorems

`AcademicCalendarProofs`, for any sets of years, requests and request bodies that
satisfy `CalendarAssumption`:

- `TypeCorrect`: `Spec => []TypeOK`. The inductive invariant `TypeInv` adds
  `RequestsOK`: a request past its first step carries an existing year and a
  validated body. Lemmas give the type of a patched row, of the default
  trimesters (their arithmetic stays within the year) and of the rows a commit
  writes.
- `OneActiveYear`: `Spec => []AtMostOneActive`. The property is not inductive: a
  transaction that has run `deactivateOtherActiveYears` has yet to make its own
  year active. The invariant `Exclusion` adds `LockHeld` (whoever is past
  `acquireConcurrencyLock` holds the lock) and `OthersClosing` (whoever is about
  to make a year active is closing every other active one). The lock makes the
  handler unique (`LockExcludes`), and so nobody else changes the set of active
  years in between (`ExclusionStable`).
- `ActiveYearRemains`: `Spec => NoActiveYearLost`. An active year is closed in the
  commit that makes another one active; that this other one still exists at the
  commit, and that a number is created once, is the invariant `Lifecycle`: the
  year an update has read cannot be removed before, for the lock is held.
- `SecondOpensUnseen` and `OverlapUnseen`, for any number of editors of one year:
  `AtMostOneOpen` is lost only in a `TrimesterWrite(h)` with `OpenedMeanwhile(h)` (a
  trimester is open that `h` neither closes nor opens), `TrimestersOrdered` only
  in one with `MovedMeanwhile(h)` (the dates `h` writes no longer fit beside the
  neighbours there are). **The service does not exclude either** (section 7), so
  the invariants themselves are theorems of no specification of it; the run
  checks them for one editor. `TablesStay` says that nothing else disturbs
  them: creations, removals and status changes of years run beside the editors in
  any order. `WriteElsewhere` confines a write to one existing year.
- `StaleByRaceOrCrash`: `Spec => StaleOnlyByRaceOrCrash`. An entry of the cache is
  accounted for when it is what the tables say or a request is about to
  invalidate it. One lemma for requests of years and one for trimesters show that every
  commit which changes the current year is followed by its own invalidation.

`GradesProofs`, for any students, handlers, edits, lists of edits and proposals
that satisfy `GradesAssumption` (they respect the limits that the DTOs validate)
and `NullAssumption` (null is none of the rows):

- `GradedRow`, `EditedRow` and `CorrectedRow`, lemmas about the scores alone: for
  every combination of null, absent and present scores, what an edit or a
  correction makes of any row, or of none, stays within the limits and follows
  Law 070.
- `TypeCorrect`: `Spec => []TypeOK`. A correction merges a proposal with a row read
  earlier, so types depend on the requests: the inductive invariant `Inv` adds
  `RequestedAreGraded` (a request is of a student with a grade: it was checked, and
  no operation deletes a grade), `CreationOK` (the id a handler will create is
  free and only its own) and `ResolutionOK` (the request that a handler resolves
  still exists and asks for what was read; only its status may have changed).
  `QuietStep` carries the handlers that a step does not touch.
- `LawKept`: `Spec => []GradesFollowTheLaw`, and `AuditKept`: `Spec =>
  []AuditTellsTheGrade`. Both follow from `StoredRows`: a step leaves a grade with
  its audit row as they were or replaces both, by a lawful row and its audit. A
  commit of a list stores the last item of each student: `LastIndex` shows that
  there is one, by well-founded induction on its indices.
- `Approvals`: `Spec => ApprovalTakesEffect`. `CreationOK` is what rules out that
  the creation of a request overwrites one; `ResolutionOK` that the proposal
  applied is another than the one of the request approved.
- `AlertsAreTrue`: `Spec => AlertsToldOrForetold`. No step but a commit of edits adds
  an alert to those a handler has to send (`NewAlerts`), and what it adds is of the
  row it stores (`AlertOfCommit`). What else is sent is foretold by a resolution
  (`SentAlerts`), whose commit stores just that, whoever edits or resolves in
  between (`ForetoldHolds`), unless it fails.

`EnrollmentsProofs`, for any classrooms, finite sets of students and years, and any
forms and updates that satisfy `EnrollmentsAssumption`:

- `TypeCorrect`: `Spec => []TypeOK`, with the place that a transaction has come to in
  the list of its people (`Requests`) and the existence of what an update has read
  (`PatchesFound`).
- `SeatsAreKept`: `Spec /\ [][SecretaryCounts]_<<capacity, enrolled>> =>
  []SeatsWithinCapacity`. The count of a form is made long before its insert: the
  invariant `ClaimsKept` says that whoever has counted holds the lock of the
  classroom and that there still is a seat. The import is the exception: it counts
  last, when it has the lock.
- `SeatsAreBooked`: on the same condition `BooksSeats`, the refinement of Seats, one
  case for each action; only commits, withdrawals and resizes are steps of Seats.
- `CodesComeFirst`: `Spec /\ [][StaysAntiguo]_enrolled => []EnrolledHaveCode`. What
  an approval has checked holds until it writes (`CodesKept`), because codes are
  never taken away.

The conditions are of the steps that the code leaves unguarded, and of no others.
`SecretaryCounts`: no update gives a seat to an enrollment that has none or moves
one, and a new capacity is not below the seats taken when it is written. `StaysAntiguo`:
no update changes the type from ANTIGUO. `EnrollmentsService.update` and
`ClassroomsService.update` check neither, and without them the conclusions fail
(section 7). The updates and capacities of the runs meet them.

`DataUpdatesProofs`, for any families, forms, handlers and limit that satisfy
`DataUpdatesAssumption`:

- `TypeCorrect`: `Spec => []TypeOK`. The invariant adds `HandOK` (what the next statement of
  a handler needs) and `Refers`: the request that a handler has found still exists and
  is of the same student, although its form may have been replaced and its status
  changed since.
- `MergesAreKeptWhole`: `Spec => MergesAreWhole`, and `LimitStaysFinal`: `Spec =>
  LimitIsFinal`. Only `ApproveCommit` writes files and tutors; the row that it marks
  APPROVED is about the student whose file it writes by `Refers`.

`AttendanceProofs`, for any students, periods, jobs, licences and delays that satisfy
`AttendanceAssumption`:

- `TypeCorrect`: `Spec => []TypeOK`. The first period of the shift is the least
  of those that are not breaks; that there is one
  (`LeastExists`) is an induction over finite sets, carried out as the existence of a
  minimal counterexample in the well-founded order of strict subsets.
- `MachinesKeepRecords`: `Spec => RecordsAreKept`: `CloseInsert` and `ScanWrite` insert
  where there is nothing.
- `NobodyIsLeftOut`: `Spec => []NobodyLeftOut`. `Rolls` follows a job through its
  statements: whoever is on its roll is among the missing or has a record, whatever
  others insert before it does.
- `LicencesProtect`: `Spec => LicencesHold`. The property speaks of two states of a behaviour
  with any number of steps between them: `NobodyYet` holds when no job has begun, and
  from there `Protected` is stable: whose stored licence covers the day is not ABSENT by
  the system and is excused by each job about to insert. `StoredDays` says what a
  licence covers once it is stored: in UTC the days asked for, in La Paz those
  before each.
- `RevokedCardsStay`: `Spec => CardsStayRevoked`, from `CardsKnown`: no card is of a version
  that has not been, and those of the present version are active.

`AccountsProofs`, for any users, ids, finite set of requests and positive limits
(`AccountsAssumption`):

- `TypeCorrect` and `LocksTellAttempts`: `Spec => []TypeOK` and `Spec =>
  []LockTellsAttempts`. They need each other: a login carries fewer attempts than the
  limit because an account that has reached it is locked.
- `RevokedSessionsStay`: `Spec => NoSessionComesBack`; a rotation only moves a session that
  is there to the end of the list.
- `SessionsStayBounded`: `Spec => []SessionsBounded`. A bound on the sessions alone is not
  inductive, nor one on the sessions and the requests about to create: two requests
  that have listed the same sessions delete the same ones. `Budget` says it for
  every set E of requests about to evict: the sessions that are left once these have run,
  the requests about to create and E itself are at most the limit less one plus the
  number of requests. Lemmas give what the removal from a sequence (`WithoutFacts`), the oldest
  (`OldestFacts`) and the length of an injective one (`LenIsCardinality`) are.

`TimetablesProofs`, for any sets of the constants that satisfy
`TimetablesAssumption` (keys are disjoint from each other and from null):

- `TypeCorrect`: `Spec => []TypeOK`. The inductive invariant `Inv` joins `Database`
  (the tables are well typed and every lesson points at an existing assignment)
  with `Requests`: a request past its first reads still carries rows of the right
  kind, whatever became of them since.
- `NeverDoubleBooked`: `Spec => []NoDoubleBooking`. The services check overlaps and
  write in separate statements, so only the unique constraints stand between two
  requests. `RowStored` is the case of an insert or a move that the constraints
  accept; `RowsGiveWay` that of deletions and of the spaces that become null;
  `ReassignedRows` that of the `updateMany` that changes the teacher of all
  lessons of an assignment in one statement.
- `GradesKeepTheirAssignment`: `Spec => GradedStays`, and `LessonsFollow`:
  `Spec => ReassignmentMovesTheLessons`, action properties that follow from the
  same invariant, one lemma per action.

The proofs use the step relation only; fairness plays no part. The prover
leaves `SelectSeq` uninterpreted, which is why `Without` (Accounts) picks the
members of the shorter list by their ranks.

Only model-checked: the liveness properties, which are out of the prover's reach:
`EveryRequestEnds` of the calendar, of enrollments and of data updates,
`ClosedSheetSettles`, `UpdatesEnd` and `EverybodyIsMarked`. All invariants and action
properties of the passing runs are stated by a theorem, except `AtMostOneOpen` and
`TrimestersOrdered`, which hold for one editor and of which the theorems say how
several may break them; the three of the runs that show a violation are false.

## 7. Where documents and code part

Three are shown by a run that TLC refutes:

- **A year closed past its guard** (`ClosingIsGuarded`). The guard "Impide cerrar
  un año si existen trimestres abiertos o rectificaciones de notas pendientes"
  (`academic-years.service.ts:63-66`) applies to an explicit closing;
  `deactivateOtherActiveYears` closes the active year without it.
- **A change request resolved twice** (`ResolvedOnce`). 'Esta solicitud ya fue
  resuelta' (`grades.service.ts:599-600`) is checked before the transaction, which
  updates by id alone; the later of two reviewers overwrites the first.
- **The seat of an OBSERVADO student** (`NoOverselling`). `business-rules.md:35`
  promises to count in the transaction "para evitar la sobreventa de cupos";
  `create` counts INSCRITO and REVISION_SIE only, the other ways in count
  OBSERVADO too.

The others were met while modelling and are reachable in the models as they
stand, or by adding the request named; no run is spent on them. Documents are in
`src/api/docs/domain/`.

- `business-rules.md:27-29` calls the life of a year a strict state machine;
  `update` guards only the move to CLOSED, so a closed year can become ACTIVE or
  PLANNING again.
- `trimesters.service.ts:161` announces "Solo 1 trimestre abierto por gestión";
  two concurrent editors each close only the trimesters they see open.
- `trimesters.service.ts:118` and `:128`: the bounds of the year and its ACTIVE
  status are read before the transaction, and may have changed by the write.
- `workflows.md:145`: after a closing, edits checked before it are still stored
  (`ClosedSheetSettles` shows that they end), and no code sets the grades of a
  closed trimester to LOCKED (`business-rules.md:99` too).
- `business-rules.md:102`: two concurrent requests for one grade both find no
  pending one.
- `business-rules.md:57`: `upsertGrade`, unlike the bulk update, does not look at
  the status of the enrollment.
- `classrooms.service.ts:533-535`: a capacity is reduced after a count without the
  lock that enrollments take.
- `enrollments.service.ts:503-509`: the code is required when the status becomes
  INSCRITO, not when a later update changes the type from ANTIGUO.
- A bulk list that names a student twice alerts the family of the first result
  too, although the second is what is stored (`grades.service.ts:443`).
- `resolveChangeRequest` alerts the family inside the transaction, before the commit
  (`grades.service.ts:679-685`): if that fails, the family has been told of a correction
  that is not stored, and nothing takes it back.
  `AlertsToldOrForetold` says that no other alert is of a grade that is not stored,
  except the first result of the list above.
- The current year is cached by a reader that queried before a write and stores after its
  invalidation (`academic-years.service.ts:353`), and stays cached if the request dies
  between commit and invalidation (`:447`): the school then works with the old
  year until the entry's time to live ends. `StaleOnlyByRaceOrCrash` says that these are
  the only ways.
- `cloneStructure` (`academic-years.service.ts:873`) looks for an assignment by
  subject and teacher, while the unique index is of classroom and subject: if the
  target has the subject with another teacher, the whole clone fails.

Data updates:

- `data-updates-transaction.service.ts:23` calls the read of the status an
  optimistic lock; it locks nothing, and the update that follows is by id. Two
  reviewers merge one form twice and count it twice; a request that was rejected
  in between is merged and becomes APPROVED; a rejection overwrites an approval
  whose form is merged (`data-updates.service.ts:228`).
- The form merged is that of the first read (`data-updates.service.ts:191`): if
  the family sends another meanwhile, the request is APPROVED with a form that was
  never merged.
- `submitUpdate` looks for a pending request and then creates one; two submissions
  at once create two, although the limit is meant for the year
  (`src/api/docs/database/future-features.md:91`), so approvals may
  take the count past `maxRudeUpdatesPerYear`. `UpdatesEnd` is what remains true.

Attendance:

- `business-rules.md:71`: a licence that is approved between the reads and the
  insert of the closing job leaves the student ABSENT (`attendance.cron.ts:110`,
  `:145`); the update of the records in `createJustificationRange` ran before they
  were there. The licence and that update are two statements outside a
  transaction, so a crash between them leaves one without the other.
- `business-rules.md:69`: the tolerances decide the status of a scan only; a manual
  mark stores the status that it was sent.
- 'Ya Registrado en este Bloque' (`attendance.service.ts:373`) answers a scan of
  several periods of which one has a record; the others have none.
- `business-rules.md:59` lets an OBSERVADO student attend; a scan looks for INSCRITO.
- `business-rules.md:75`: generating a card again does not raise its version
  (`identity.service.ts:73`); the earlier copy stays valid until a revocation (`CardsStayRevoked`).
- `business-rules.md:68` ties the official zone, UTC-4, to `getSafeLocalDate`
  (`attendance.service.ts:45-51`). It reads a date 'YYYY-MM-DD' as midnight in UTC and
  takes the server's day: on a server in that zone the day before. Licences
  (`:596-597`), lists (`:231`) and holidays (`:676`) are then stored a day early, while the
  job looks for the day of La Paz (`attendance.cron.ts:29-38`, `:56`): a student is
  ABSENT on the last day of a licence and excused on the day before its first, a
  list for today lands on yesterday and the job finds nobody marked, and a shift is closed
  on a holiday. On a server in UTC these dates are right. `LicencesHold` holds of the
  days as they are stored. `src/api/PROJECT_STATE.md:117` calls the zone resolved.
- Scans and marks do not look at holidays; lateness is computed in the time zone of
  the server.

Authentication:

- `business-rules.md:10-11`: failures that run at once are counted once, and one
  that was under way when the account was locked clears the lockout, since both
  columns are written from the row read before (`auth.service.ts:129-159`).
- `business-rules.md:13`: a refresh token is hashed with bcrypt, which reads 72
  bytes; the tokens of a user have these in common, so any of them matches any of
  the user's sessions (`auth-token.service.ts:140`).
- `users.service.ts:369` announces the "invalidación de sesiones" of a deactivated
  user; a login that was comparing hashes creates its session afterwards, and a
  refresh does not look at the status.
- The setup token can be used again for its 15 minutes (`auth.service.ts:185`); two
  users may authorise one QR challenge; a session that has just been refreshed may
  be evicted by a list read earlier.

Timetables:

- `business-rules.md:42`: a lesson created while its assignment changes hands
  keeps the former teacher (`timetables.service.ts:184`): the index on teachers
  then guards the wrong person, and the new one may be given another lesson at
  that hour. The next reassignment repairs it (`ReassignmentMovesTheLessons`).
- `teacher-assignments.service.ts:331-338` refuses to remove an assignment with
  lessons; one that is created after the count is deleted with it.
- `timetables.service.ts:123` makes a space mandatory in the mode DYNAMIC;
  `updateSlotSpace` stores null, and the removal of a space sets it to null. A
  lesson may be put in a space that was deactivated after the check; a change of
  the base room leaves the lessons where they were.
- `classrooms.service.ts:652`: a classroom that has "alumnos, asignaciones u horarios"
  is said to stay; the keys of assignments and lessons cascade
  (`schema.prisma:341`, `:396`), so they are deleted with it, and only students and
  grades prevent that (`RemoveClassroom`).
- Two teachers who swap their lessons of one hour cannot be reassigned one after
  the other; `cloneAssignments` does not validate its teachers.
- Two overlapping class periods can be created at once
  (`class-periods.service.ts:137`), and a period with lessons can become a break.

The rest of the API, and the clients:

- The synchronisation at boot resets the permissions of the foundational roles that
  an administrator has changed (`auth/services/permissions-sync.service.ts`); two
  updates of one role at once end with the union of both sets or with an error.
- `idempotency.interceptor.ts:48`: two requests with one key both run if neither
  has stored its entry; and the lifetimes given to the cache are read as
  milliseconds, so an entry of 30 or 600 is gone almost at once.
- The phone's queue of attendance lists ("Encola un guardado masivo para
  sincronización posterior",
  `mobile/lib/features/dashboard/data/repositories/attendance_repository.dart:121`):
  `syncOfflineQueue` writes back the lists that failed of those it had read, over
  any that was queued meanwhile. A list whose answer was lost is sent again later,
  over marks that were made since.
- `setupInitialDirector` (`auth.service.ts:653`) counts users before the
  transaction: two first set-ups with different mails both succeed.

## 8. Not modelled

- AcademicCalendar: `cloneStructure`, listings, the readiness report; permissions,
  which a guard decides before the service runs. A migration declares a partial
  unique index on the status ACTIVE that `schema.prisma` does not have; it is left
  out, so that `AtMostOneActive` speaks of the advisory lock. Since it holds without
  the index, the index never refuses a commit of this service.
- Grades: listings, report cards and statistics, which only read. Row locks of
  grades: writers follow one another at their commits, a deadlock of two bulk
  lists is an `Abort`.
- Enrollments: the fields of the RUDE form; the shared locks of foreign keys;
  students without an identity card (a student no other form names); creating and
  removing classrooms and their other fields.
- DataUpdates: the fields of the forms, the snapshot for the audit, the broadcast.
  A row lock on the request or the enrollment: only the last statements of the
  transaction take it, and they are one step with the commit.
- Attendance: a record of another day is another instance. Who may mark whom is
  decided before; notifications are queued after the commit.
- Accounts: tokens, hashes, permissions; the sign-in of families, device tokens
  (a list that is read, extended and written back, `auth.service.ts:423`), the
  first director.
- Timetables: whether a teacher is ACTIVE and a DOCENTE, the status of the year, the
  shift and the activity of a period: checks of data that these modules keep
  constant. In the mode DYNAMIC only `SpacesFor` differs; the run is of FIXED_BASE.
  Reads within `reassign` and `remove` take no lock; the row locks of their updates
  are held for one step.
- Roles, the idempotency interceptor, class periods, institutions, subjects and
  users' own data: single rows written after a check, without a promise that
  survives two of them at once beyond what the schema enforces. What they do then is
  in section 7.
- Audit log, dashboard, realtime, reports, mail and notification queues: they keep
  no state that a property could be about. Redis, BullMQ and PostgreSQL themselves
  are external: what the services rely on (row locks, unique indexes, foreign keys,
  deadlock detection, expiry) is part of the actions and marked external in the map.
- Generated code (`src/api/prisma/generated`), which is most of the lines under
  `src/api`, and the clients.
