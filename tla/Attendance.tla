------------------------------ MODULE Attendance ------------------------------
(***************************************************************************)
(* The attendance of one shift on one school day.                          *)
(*                                                                         *)
(*   api/src/attendance/attendance.service.ts    scans, marks, licences    *)
(*   api/src/attendance/attendance.cron.ts       the closing job           *)
(*   api/src/identity/identity.service.ts        the cards that are scanned *)
(*                                                                         *)
(* A record is of a student and a class period; the table has a unique     *)
(* index on the two (and the day).  Teachers mark, cards are scanned, the  *)
(* secretary grants licences, and a job closes the shift: whoever has no   *)
(* record of the first period gets one.  Each request checks the state of  *)
(* the school first and writes later, in one transaction or statement.     *)
(*                                                                         *)
(* Days are written in two ways.  The job takes the calendar day of La Paz; *)
(* the service the one of its server, which for a date without an hour is  *)
(* the day before when the server is west of UTC (SafeLocalDate).          *)
(***************************************************************************)
EXTENDS Integers, FiniteSets

CONSTANTS
    Students,       \* by their enrollment in the ACTIVE year
    Periods,        \* class periods of the shift, by order: a set of integers
    Breaks,         \* the periods that are breaks
    Handlers,       \* concurrent requests to the API
    Jobs,           \* the closing job, in each process of the API
    Sheets,         \* the marks that requests carry: [some students -> Status]
    Blocks,         \* the class periods that requests are about
    Asked,          \* the dates that lists and holidays carry
    Ranges,         \* the first and last day of the licences that are asked for
    Today,          \* the day in La Paz
    Zone,           \* hours of the server's clock from UTC
    Late, Absent,   \* lateToleranceMinutes, absentToleranceMinutes
    Delays,         \* minutes after the start of a period at which cards are scanned
    MaxVersion,     \* bound on the versions of a card
    None            \* no record

Status == {"PRESENT", "LATE", "ABSENT", "EXCUSED"}
Record == [status: Status, method: {"MANUAL", "QR", "SYSTEM_AUTO"}]
Card   == Students \X (1..MaxVersion)

ASSUME AttendanceAssumption ==
    /\ Periods \subseteq Int /\ IsFiniteSet(Periods)
    /\ Breaks \subseteq Periods /\ Periods # Breaks
    /\ Blocks \subseteq (SUBSET Periods) \ {{}}
    /\ \A sheet \in Sheets : DOMAIN sheet \subseteq Students
                              /\ \A s \in DOMAIN sheet : sheet[s] \in Status
    /\ Asked \subseteq Int /\ Ranges \subseteq Int \X Int /\ Today \in Int
    /\ Zone \in -4..0  \* La Paz or UTC: its day and the job's are the same in school hours
    /\ Late \in Nat /\ Absent \in Nat /\ Delays \subseteq Int
    /\ MaxVersion \in Nat \ {0}
    /\ None \notin Record

VARIABLES
    record,     \* of a student in a period
    licences,   \* APPROVED justifications: a student and a range of days
    termOpen,   \* a trimester of the ACTIVE year is open
    holiday,    \* today is a holiday
    enrolled,   \* students INSCRITO
    version,    \* qrTokenVersion
    active,     \* students with hasActiveQr
    printed,    \* cards that exist
    hand,       \* state of each handler
    job         \* state of each closing job

cards  == <<version, active, printed>>
school == <<termOpen, holiday, enrolled>>
vars   == <<record, licences, school, cards, hand, job>>

\* getSafeLocalDate of a date 'YYYY-MM-DD': midnight in UTC, of which it takes
\* the server's day.  Of the present moment it gives Today.
SafeLocalDate(day) == IF Zone < 0 THEN day - 1 ELSE day
Stored(range) == <<SafeLocalDate(range[1]), SafeLocalDate(range[2])>>
StoredRanges  == {Stored(range) : range \in Ranges}

\* The first class period that is not a break.
Earliest(S) == CHOOSE p \in S : \A q \in S : p <= q
FirstPeriod == Earliest(Periods \ Breaks)

Handler == [pc: {"idle", "mark", "card", "enrollment", "scan", "excuse"},
            s: Students \cup {None},            \* who is scanned or licensed
            v: 0..MaxVersion,                   \* the version on the card
            block: SUBSET Periods,              \* the periods marked or scanned
            marks: Sheets \cup {<<>>},          \* what a teacher marks
            day: Int,                           \* the day it is marked for
            range: StoredRanges \cup {<<>>}]    \* the days of a licence
Idle == [pc |-> "idle", s |-> None, v |-> 0, block |-> {}, marks |-> <<>>, day |-> Today,
         range |-> <<>>]

Job == [pc: {"idle", "holiday", "roll", "records", "licences", "insert",
             "cancelled", "done", "failed"},
        roll: SUBSET Students,                  \* the students INSCRITO
        missing: SUBSET Students,               \* those of them without a record
        excused: SUBSET Students]               \* those of them with a licence
Waiting == [pc |-> "idle", roll |-> {}, missing |-> {}, excused |-> {}]

TypeOK ==
    /\ record \in [Students \X Periods -> Record \cup {None}]
    /\ licences \in SUBSET (Students \X StoredRanges)
    /\ termOpen \in BOOLEAN /\ holiday \in BOOLEAN
    /\ enrolled \in SUBSET Students
    /\ version \in [Students -> 1..MaxVersion]
    /\ active \in SUBSET Students
    /\ printed \in SUBSET Card
    /\ hand \in [Handlers -> Handler]
    /\ job \in [Jobs -> Job]

\* The day begins without records; licences were granted on the days before.
Init ==
    /\ record = [c \in Students \X Periods |-> None]
    /\ licences \in SUBSET (Students \X {r \in StoredRanges : r[1] <= r[2]})
    /\ termOpen = TRUE /\ holiday = FALSE
    /\ enrolled = Students
    /\ version = [s \in Students |-> 1]
    /\ active = {}
    /\ printed = {}
    /\ hand = [h \in Handlers |-> Idle]
    /\ job = [j \in Jobs |-> Waiting]

Goes(h, r) == hand' = [hand EXCEPT ![h] = r]
\* The records of these cells, each of a student and a period, become r.
Set(cells, r) == [c \in DOMAIN record |-> IF c \in cells THEN r ELSE record[c]]
Marked_NoMethod(status) == [status |-> status]
Marked(status) == [status |-> status, method |-> "MANUAL"]

-----------------------------------------------------------------------------
(***************************************************************************)
(* saveBulkAttendance and markManualAttendance                             *)
(***************************************************************************)
\* A list carries its date; a single mark is of the present day.
MarkCheck(h) ==
    /\ hand[h].pc = "idle"
    /\ termOpen
    /\ \E sheet \in Sheets, b \in Blocks, day \in {Today} \cup {SafeLocalDate(d) : d \in Asked} :
          Goes(h, [Idle EXCEPT !.pc = "mark", !.marks = sheet, !.block = b, !.day = day])
    /\ UNCHANGED <<record, licences, school, cards, job>>

\* One transaction of upserts: a teacher's mark replaces whatever there is.  The
\* records of other days are not modelled.
MarkWrite(h) ==
    LET r == hand[h] IN
    /\ r.pc = "mark"
    /\ record' = [c \in DOMAIN record |->
          IF r.day = Today /\ c[1] \in DOMAIN r.marks /\ c[2] \in r.block
          THEN Marked(r.marks[c[1]]) ELSE record[c]]
    /\ Goes(h, Idle)
    /\ UNCHANGED <<licences, school, cards, job>>

-----------------------------------------------------------------------------
(***************************************************************************)
(* registerScan, and the cards of the identity service                     *)
(***************************************************************************)
\* generateNewQR: the card is of the version that there is.
GenerateNewQR(s) ==
    /\ active' = active \cup {s}
    /\ printed' = printed \cup {<<s, version[s]>>}
    /\ UNCHANGED <<record, licences, school, version, hand, job>>

Revoked_SameVersion(v) == v
Revoked(v) == v + 1
RevokeQR(s) ==
    /\ version[s] < MaxVersion
    /\ version' = [version EXCEPT ![s] = Revoked(@)]
    /\ active' = active \ {s}
    /\ UNCHANGED <<record, licences, school, printed, hand, job>>

Valid(s, v) == s \in active /\ version[s] = v

ScanCheck(h) ==
    /\ hand[h].pc = "idle"
    /\ termOpen
    /\ \E c \in printed, b \in Blocks :
          Goes(h, [Idle EXCEPT !.pc = "card", !.s = c[1], !.v = c[2], !.block = b])
    /\ UNCHANGED <<record, licences, school, cards, job>>

\* validateQrToken.
ScanCard(h) ==
    /\ hand[h].pc = "card"
    /\ Goes(h, IF Valid(hand[h].s, hand[h].v) THEN [hand[h] EXCEPT !.pc = "enrollment"]
               ELSE Idle)
    /\ UNCHANGED <<record, licences, school, cards, job>>

ScanEnrollment(h) ==
    /\ hand[h].pc = "enrollment"
    /\ Goes(h, IF hand[h].s \in enrolled THEN [hand[h] EXCEPT !.pc = "scan"] ELSE Idle)
    /\ UNCHANGED <<record, licences, school, cards, job>>

CalculateAttendanceStatus(delay) ==
    CASE delay > Absent                   -> "ABSENT"
      [] delay <= Absent /\ delay > Late  -> "LATE"
      [] delay <= Absent /\ delay <= Late -> "PRESENT"

\* One transaction of inserts.  One record that is there breaks the unique index
\* and fails them all: "Ya Registrado en este Bloque".  The scanners send no
\* method, or QR.
Repeated(cells) == \E c \in cells : record[c] # None
ScanWrite(h) ==
    LET cells == {hand[h].s} \X hand[h].block IN
    /\ hand[h].pc = "scan"
    /\ \/ /\ Repeated(cells)
          /\ UNCHANGED record
       \/ /\ ~Repeated(cells)
          /\ \E d \in Delays :
                record' = Set(cells, [status |-> CalculateAttendanceStatus(d), method |-> "QR"])
    /\ Goes(h, Idle)
    /\ UNCHANGED <<licences, school, cards, job>>

-----------------------------------------------------------------------------
(***************************************************************************)
(* justifyAttendance and createJustificationRange                          *)
(***************************************************************************)
JustifyAttendance(c) ==
    /\ record[c] # None
    /\ record' = [record EXCEPT ![c] = Marked("EXCUSED")]
    /\ UNCHANGED <<licences, school, cards, hand, job>>

CoversToday_Strictly(range) == range[1] < Today /\ Today <= range[2]
CoversToday(range) == range[1] <= Today /\ Today <= range[2]

LicenceCreate(h) ==
    /\ hand[h].pc = "idle"
    /\ \E s \in Students, range \in StoredRanges :
          /\ range[1] <= range[2]
          /\ licences' = licences \cup {<<s, range>>}
          /\ Goes(h, [Idle EXCEPT !.pc = "excuse", !.s = s, !.range = range])
    /\ UNCHANGED <<record, school, cards, job>>

\* A second statement excuses every record of those days, whatever it says.
LicenceExcuse(h) ==
    LET cells == {c \in DOMAIN record : c[1] = hand[h].s /\ record[c] # None} IN
    /\ hand[h].pc = "excuse"
    /\ record' = IF CoversToday(hand[h].range) THEN Set(cells, Marked("EXCUSED")) ELSE record
    /\ Goes(h, Idle)
    /\ UNCHANGED <<licences, school, cards, job>>

-----------------------------------------------------------------------------
(***************************************************************************)
(* processAttendanceClosing                                                *)
(***************************************************************************)
CloseStart(j) ==
    /\ job[j].pc = "idle"
    /\ job' = [job EXCEPT ![j].pc = IF termOpen THEN "holiday" ELSE "cancelled"]
    /\ UNCHANGED <<record, licences, school, cards, hand>>

CloseHoliday(j) ==
    /\ job[j].pc = "holiday"
    /\ job' = [job EXCEPT ![j].pc = IF holiday THEN "cancelled" ELSE "roll"]
    /\ UNCHANGED <<record, licences, school, cards, hand>>

\* The licensed students are dealt with as well.
Roll_Unlicensed == {s \in enrolled : \A range \in StoredRanges : <<s, range>> \notin licences}
Roll == enrolled
CloseRoll(j) ==
    /\ job[j].pc = "roll"
    /\ job' = [job EXCEPT ![j] = [Waiting EXCEPT !.roll = Roll,
                                      !.pc = IF Roll = {} THEN "done" ELSE "records"]]
    /\ UNCHANGED <<record, licences, school, cards, hand>>

\* The students that have a record of the first period need none.
HasRecord_OfAnyPeriod(s) == \E p \in Periods : record[<<s, p>>] # None
HasRecord(s) == record[<<s, FirstPeriod>>] # None
CloseRecords(j) ==
    LET missing == {s \in job[j].roll : ~HasRecord(s)} IN
    /\ job[j].pc = "records"
    /\ job' = [job EXCEPT ![j].pc = IF missing = {} THEN "done" ELSE "licences",
                          ![j].missing = missing]
    /\ UNCHANGED <<record, licences, school, cards, hand>>

CloseLicences(j) ==
    /\ job[j].pc = "licences"
    /\ job' = [job EXCEPT ![j].pc = "insert",
                          ![j].excused = {s \in job[j].missing : \E range \in StoredRanges :
                              <<s, range>> \in licences /\ CoversToday(range)}]
    /\ UNCHANGED <<record, licences, school, cards, hand>>

\* createMany skips the duplicates: records that have come since.
Inserted_OrUpdated(j) == job[j].missing
Inserted(j) == {s \in job[j].missing : record[<<s, FirstPeriod>>] = None}
CloseInsert(j) ==
    /\ job[j].pc = "insert"
    /\ record' = [c \in DOMAIN record |->
          IF c[1] \in Inserted(j) /\ c[2] = FirstPeriod
          THEN [status |-> IF c[1] \in job[j].excused THEN "EXCUSED" ELSE "ABSENT",
                method |-> "SYSTEM_AUTO"]
          ELSE record[c]]
    /\ job' = [job EXCEPT ![j] = [Waiting EXCEPT !.pc = "done", !.roll = job[j].roll]]
    /\ UNCHANGED <<licences, school, cards, hand>>

CloseFail(j) ==
    /\ job[j].pc \notin {"cancelled", "done", "failed"}
    /\ job' = [job EXCEPT ![j] = [Waiting EXCEPT !.pc = "failed"]]
    /\ UNCHANGED <<record, licences, school, cards, hand>>

CloseStep(j) == \/ CloseStart(j) \/ CloseHoliday(j) \/ CloseRoll(j) \/ CloseRecords(j)
                \/ CloseLicences(j) \/ CloseInsert(j)

-----------------------------------------------------------------------------
(***************************************************************************)
(* Failures and the rest of the API                                        *)
(***************************************************************************)
\* A connection or a process that is lost; a reader without access.
Abort(h) ==
    /\ hand[h].pc # "idle"
    /\ Goes(h, Idle)
    /\ UNCHANGED <<record, licences, school, cards, job>>

CreateHoliday ==
    /\ \E day \in Asked : holiday' = (holiday \/ SafeLocalDate(day) = Today)
    /\ UNCHANGED <<record, licences, termOpen, enrolled, cards, hand, job>>

\* Trimesters open and close, students leave and come back.
OtherServices ==
    /\ \/ termOpen' = ~termOpen /\ UNCHANGED enrolled
       \/ enrolled' \in (SUBSET Students) \ {enrolled} /\ UNCHANGED termOpen
    /\ UNCHANGED <<record, licences, holiday, cards, hand, job>>

Next ==
    \/ \E h \in Handlers : \/ MarkCheck(h) \/ MarkWrite(h)
                           \/ ScanCheck(h) \/ ScanCard(h) \/ ScanEnrollment(h) \/ ScanWrite(h)
                           \/ LicenceCreate(h) \/ LicenceExcuse(h) \/ Abort(h)
    \/ \E s \in Students : GenerateNewQR(s) \/ RevokeQR(s)
    \/ \E c \in DOMAIN record : JustifyAttendance(c)
    \/ \E j \in Jobs : CloseStep(j) \/ CloseFail(j)
    \/ CreateHoliday \/ OtherServices

Spec == Init /\ [][Next]_vars

\* The scheduler starts the job in every process, and a job goes on to its end.
FairSpec == Spec /\ \A j \in Jobs : WF_vars(CloseStep(j))

-----------------------------------------------------------------------------
(***************************************************************************)
(* Properties                                                              *)
(***************************************************************************)

\* What is recorded is kept from machines: the closing job, which inserts from
\* what it read before, and the scanner never replace a record that has come in
\* the meantime.  A person may.
RecordsAreKept ==
    [][\A c \in DOMAIN record :
          record[c] # None /\ record'[c] # record[c] => record'[c].method = "MANUAL"]_vars

\* A job that has run to its end leaves no student of its roll without a record
\* of the first period, though some were marked or scanned while it ran, or for
\* other periods only.
NobodyLeftOut ==
    \A j \in Jobs : job[j].pc = "done" =>
        \A s \in job[j].roll : record[<<s, FirstPeriod>>] # None

\* On an ordinary day every student ends up with a record, whatever is marked,
\* scanned or excused while the job runs, as long as a job does not fail.
EverybodyIsMarked ==
    \A s \in Students :
        /\ [](termOpen /\ ~holiday /\ s \in enrolled)
        /\ \E j \in Jobs : [](job[j].pc # "failed")
        => <>(record[<<s, FirstPeriod>>] # None)

IsLicensed(s) == \E range \in StoredRanges :
    <<s, range>> \in licences /\ range[1] <= Today /\ Today <= range[2]
MarkedAbsent(s) == record[<<s, FirstPeriod>>] = [status |-> "ABSENT", method |-> "SYSTEM_AUTO"]

\* Whose stored licence covers the day before any job begins is never ABSENT by
\* one, the first and the last of the stored days included.  Those are the days
\* that were asked for where the server keeps UTC.  On a server in La Paz each is
\* a day earlier: on the last day asked for the job finds no licence.
LicencesHold ==
    \A s \in Students :
        []((\A j \in Jobs : job[j].pc = "idle") /\ IsLicensed(s) => []~MarkedAbsent(s))

\* A card that has been revoked stays so, whatever is generated after: the one
\* that was lost does not come back with the next.
CardsStayRevoked ==
    [][\A c \in printed : ~Valid(c[1], c[2]) => ~Valid(c[1], c[2])']_vars
=============================================================================
