---------------------------- MODULE AttendanceProofs ----------------------------
(***************************************************************************)
(* Theorems about Attendance, for any students, periods, requests, closing *)
(* jobs and licences.                                                      *)
(***************************************************************************)
EXTENDS Attendance, FiniteSetTheorems, TLAPS

-----------------------------------------------------------------------------
(***************************************************************************)
(* The first period                                                        *)
(***************************************************************************)
\* A finite set of integers has a least element: of the non-empty sets without
\* one, a smallest would have one.
LEMMA LeastExists ==
    ASSUME NEW S, IsFiniteSet(S), S \subseteq Int, S # {}
    PROVE  \E p \in S : \A q \in S : p <= q
  <1> DEFINE Least(U) == \E p \in U : \A q \in U : p <= q
             Bad == {U \in SUBSET S : U # {} /\ ~Least(U)}
  <1>1. IsWellFoundedOn(StrictSubsetOrdering(S), SUBSET S)
    BY FS_StrictSubsetOrderingWellFounded, FS_FiniteSubsetsOfFinite
  <1>2. SUFFICES ASSUME Bad # {} PROVE FALSE
    OBVIOUS
  <1>3. PICK U \in Bad : \A V \in Bad : <<V, U>> \notin StrictSubsetOrdering(S)
    <2>1. Bad \subseteq SUBSET S
      OBVIOUS
    <2> HIDE DEF Bad
    <2> QED BY <1>1, <1>2, <2>1, WFMin
  <1>4. PICK x \in U : TRUE
    OBVIOUS
  <1>5. U \ {x} \notin Bad
    BY <1>3, <1>4 DEF StrictSubsetOrdering
  <1>6. CASE U \ {x} = {}
    <2>1. \A q \in U : x <= q
      BY <1>4, <1>6
    <2> QED BY <1>3, <1>4, <2>1
  <1>7. CASE Least(U \ {x})
    <2>1. PICK p \in U \ {x} : \A q \in U \ {x} : p <= q
      BY <1>7
    <2>2. x \in Int /\ p \in Int /\ U \subseteq Int
      BY <1>3, <1>4, <2>1
    <2>3. CASE x <= p
      <3>1. \A q \in U : x <= q
        BY <2>1, <2>2, <2>3
      <3> QED BY <1>3, <1>4, <3>1
    <2>4. CASE ~(x <= p)
      <3>1. \A q \in U : p <= q
        BY <2>1, <2>2, <2>4
      <3> QED BY <1>3, <2>1, <3>1
    <2> QED BY <2>3, <2>4
  <1> QED BY <1>3, <1>5, <1>6, <1>7

LEMMA FirstPeriodFacts == FirstPeriod \in Periods \ Breaks
  <1>1. IsFiniteSet(Periods \ Breaks) /\ Periods \ Breaks \subseteq Int
        /\ Periods \ Breaks # {}
    BY AttendanceAssumption, FS_Subset
  <1>2. \E p \in Periods \ Breaks : \A q \in Periods \ Breaks : p <= q
    BY <1>1, LeastExists
  <1> QED BY <1>2 DEF FirstPeriod, Earliest

-----------------------------------------------------------------------------
(***************************************************************************)
(* The invariant of types                                                  *)
(***************************************************************************)
Cells == Students \X Periods

\* A request that is past its first read carries what it needs.
HandOK(r) ==
    /\ r.pc = "mark" => r.marks \in Sheets
    /\ r.pc \in {"card", "enrollment", "scan", "excuse"} => r.s \in Students

TypeInv == TypeOK /\ \A h \in Handlers : HandOK(hand[h])

LEMMA Domain == TypeOK => DOMAIN record = Cells
  BY DEF TypeOK, Cells

LEMMA IdleHand == Idle \in Handler /\ HandOK(Idle)
  BY AttendanceAssumption DEF Idle, Handler, HandOK

\* A request that goes on to a record in order leaves all of them in order.
LEMMA HandGoes ==
    ASSUME TypeInv, NEW h \in Handlers, NEW r \in Handler, HandOK(r), Goes(h, r)
    PROVE  hand' \in [Handlers -> Handler] /\ \A g \in Handlers : HandOK(hand'[g])
  <1>1. hand' = [hand EXCEPT ![h] = r] /\ hand \in [Handlers -> Handler]
    BY DEF Goes, TypeInv, TypeOK
  <1>2. \A g \in Handlers : hand'[g] = IF g = h THEN r ELSE hand[g]
    BY <1>1
  <1> QED BY <1>1, <1>2 DEF TypeInv

\* A step of a request that changes nothing else, or the record and the licences.
LEMMA HandStep ==
    ASSUME TypeInv, NEW h \in Handlers, NEW r \in Handler, HandOK(r), Goes(h, r),
           UNCHANGED <<school, cards, job>>,
           record' \in [Cells -> Record \cup {None}],
           licences' \in SUBSET (Students \X StoredRanges)
    PROVE  TypeInv'
  <1>1. hand' \in [Handlers -> Handler] /\ \A g \in Handlers : HandOK(hand'[g])
    BY HandGoes
  <1> QED BY <1>1 DEF TypeInv, TypeOK, school, cards, Cells

\* The dates of lists are dates when they are stored.
LEMMA SafeDay ==
    ASSUME NEW day \in Int
    PROVE  SafeLocalDate(day) \in Int
  BY AttendanceAssumption DEF SafeLocalDate

LEMMA MarkHand ==
    ASSUME NEW sheet \in Sheets, NEW b \in Blocks, NEW day \in Int, NEW r,
           r = [Idle EXCEPT !.pc = "mark", !.marks = sheet, !.block = b, !.day = day]
    PROVE  r \in Handler /\ HandOK(r)
  <1>1. r = [pc |-> "mark", s |-> None, v |-> 0, block |-> b, marks |-> sheet, day |-> day,
          range |-> <<>>]
    BY DEF Idle
  <1> QED BY <1>1, AttendanceAssumption DEF Handler, HandOK

LEMMA CardHand ==
    ASSUME NEW s \in Students, NEW v \in 1..MaxVersion, NEW b \in Blocks, NEW r,
           r = [Idle EXCEPT !.pc = "card", !.s = s, !.v = v, !.block = b]
    PROVE  r \in Handler /\ HandOK(r)
  <1>1. r = [pc |-> "card", s |-> s, v |-> v, block |-> b, marks |-> <<>>, day |-> Today,
          range |-> <<>>]
    BY DEF Idle
  <1> QED BY <1>1, AttendanceAssumption DEF Handler, HandOK

LEMMA ExcuseHand ==
    ASSUME NEW s \in Students, NEW range \in StoredRanges, NEW r,
           r = [Idle EXCEPT !.pc = "excuse", !.s = s, !.range = range]
    PROVE  r \in Handler /\ HandOK(r)
  <1>1. r = [pc |-> "excuse", s |-> s, v |-> 0, block |-> {}, marks |-> <<>>, day |-> Today,
          range |-> range]
    BY DEF Idle
  <1> QED BY <1>1, AttendanceAssumption DEF Handler, HandOK

\* A scan that has passed a check.
LEMMA ScanHand ==
    ASSUME NEW q \in Handler, HandOK(q), q.pc \in {"card", "enrollment"},
           NEW pc \in {"enrollment", "scan"}, NEW r, r = [q EXCEPT !.pc = pc]
    PROVE  r \in Handler /\ HandOK(r)
  BY DEF Handler, HandOK

-----------------------------------------------------------------------------
(***************************************************************************)
(* What the steps write                                                    *)
(***************************************************************************)
\* A cell keeps what it has, or gets a record: from a person, or where there
\* was none.  Of the system are only the records that the closing job inserts.
Written(c) ==
    \/ record'[c] = record[c]
    \/ /\ record'[c] \in Record
       /\ record[c] # None => record'[c].method = "MANUAL"
       /\ record'[c].method # "SYSTEM_AUTO"

LEMMA MarkedRecord ==
    ASSUME NEW status \in Status
    PROVE  Marked(status) \in Record /\ Marked(status).method = "MANUAL"
  BY DEF Marked, Record

LEMMA MarkWriteRows ==
    ASSUME TypeInv, NEW h \in Handlers, MarkWrite(h)
    PROVE  /\ record' \in [Cells -> Record \cup {None}]
           /\ \A c \in Cells : Written(c)
  <1>1. PICK r : r = hand[h]
    OBVIOUS
  <1>2. r.marks \in Sheets
    BY <1>1 DEF MarkWrite, TypeInv, HandOK
  <1>3. \A s \in DOMAIN r.marks : r.marks[s] \in Status
    BY <1>2, AttendanceAssumption
  <1>4. record' = [c \in Cells |->
           IF r.day = Today /\ c[1] \in DOMAIN r.marks /\ c[2] \in r.block
           THEN Marked(r.marks[c[1]]) ELSE record[c]]
    BY <1>1, Domain DEF MarkWrite, TypeInv
  <1>5. \A c \in Cells : record[c] \in Record \cup {None}
    BY DEF TypeInv, TypeOK, Cells
  <1>6. \A c \in Cells :
           \/ record'[c] = record[c]
           \/ record'[c] \in Record /\ record'[c].method = "MANUAL"
    BY <1>3, <1>4, MarkedRecord
  <1>7. \A c \in Cells : record'[c] \in Record \cup {None}
    BY <1>5, <1>6
  <1> QED BY <1>4, <1>6, <1>7 DEF Written

LEMMA SetRows ==
    ASSUME TypeInv, NEW cells, NEW r \in Record, record' = Set(cells, r),
           r.method # "SYSTEM_AUTO",
           r.method = "MANUAL" \/ \A c \in cells : record[c] = None
    PROVE  /\ record' \in [Cells -> Record \cup {None}]
           /\ \A c \in Cells : Written(c)
  <1>1. record' = [c \in Cells |-> IF c \in cells THEN r ELSE record[c]]
    BY Domain DEF Set, TypeInv
  <1>2. \A c \in Cells : record[c] \in Record \cup {None}
    BY DEF TypeInv, TypeOK, Cells
  <1>3. \A c \in Cells : record'[c] \in Record \cup {None}
    BY <1>1, <1>2
  <1> QED BY <1>1, <1>3 DEF Written

LEMMA ScanWriteRows ==
    ASSUME TypeInv, NEW h \in Handlers, ScanWrite(h)
    PROVE  /\ record' \in [Cells -> Record \cup {None}]
           /\ \A c \in Cells : Written(c)
  <1>1. PICK cells : cells = {hand[h].s} \X hand[h].block
    OBVIOUS
  <1>2. CASE UNCHANGED record
    BY <1>2 DEF Written, TypeInv, TypeOK, Cells
  <1>3. CASE ~UNCHANGED record
    <2>1. PICK d \in Delays :
             record' = Set(cells, [status |-> CalculateAttendanceStatus(d), method |-> "QR"])
      BY <1>1, <1>3 DEF ScanWrite
    <2>2. \A c \in cells : record[c] = None
      BY <1>1, <1>3 DEF ScanWrite, Repeated
    <2>3. CalculateAttendanceStatus(d) \in Status
      <3>1. d \in Int /\ Late \in Int /\ Absent \in Int
        BY AttendanceAssumption
      <3> QED BY <3>1 DEF CalculateAttendanceStatus, Status
    <2>4. PICK r : r = [status |-> CalculateAttendanceStatus(d), method |-> "QR"]
      OBVIOUS
    <2>5. r \in Record /\ r.method = "QR"
      BY <2>3, <2>4 DEF Record
    <2> QED BY <2>1, <2>2, <2>4, <2>5, SetRows
  <1> QED BY <1>2, <1>3

LEMMA JustifyRows ==
    ASSUME TypeInv, NEW x \in Cells, JustifyAttendance(x)
    PROVE  /\ record' \in [Cells -> Record \cup {None}]
           /\ \A c \in Cells : Written(c)
  <1>1. PICK r : r = Marked("EXCUSED")
    OBVIOUS
  <1>2. r \in Record /\ r.method = "MANUAL"
    BY <1>1, MarkedRecord DEF Status
  <1>3. record' = [record EXCEPT ![x] = r] /\ record \in [Cells -> Record \cup {None}]
    BY <1>1 DEF JustifyAttendance, TypeInv, TypeOK, Cells
  <1>4. \A c \in Cells : record'[c] = record[c] \/ record'[c] = r
    BY <1>3
  <1> QED BY <1>2, <1>3, <1>4 DEF Written

LEMMA LicenceExcuseRows ==
    ASSUME TypeInv, NEW h \in Handlers, LicenceExcuse(h)
    PROVE  /\ record' \in [Cells -> Record \cup {None}]
           /\ \A c \in Cells : Written(c)
  <1>1. CASE UNCHANGED record
    BY <1>1 DEF Written, TypeInv, TypeOK, Cells
  <1>2. CASE ~UNCHANGED record
    <2>1. PICK r : r = Marked("EXCUSED")
      OBVIOUS
    <2>2. r \in Record /\ r.method = "MANUAL"
      BY <2>1, MarkedRecord DEF Status
    <2>3. PICK cells : record' = Set(cells, r)
      BY <1>2, <2>1 DEF LicenceExcuse
    <2> QED BY <2>2, <2>3, SetRows
  <1> QED BY <1>1, <1>2

\* What the closing job inserts, into empty cells of the first period.
AutoRecord(j, s) ==
    [status |-> IF s \in job[j].excused THEN "EXCUSED" ELSE "ABSENT", method |-> "SYSTEM_AUTO"]

LEMMA CloseInsertRows ==
    ASSUME TypeInv, NEW j \in Jobs, CloseInsert(j)
    PROVE  /\ record' \in [Cells -> Record \cup {None}]
           /\ \A c \in Cells :
                 record'[c] = IF c[2] = FirstPeriod /\ c[1] \in job[j].missing /\ record[c] = None
                              THEN AutoRecord(j, c[1]) ELSE record[c]
           /\ \A s : AutoRecord(j, s) \in Record /\ AutoRecord(j, s) # None
  <1>1. \A s : AutoRecord(j, s) \in Record
    BY DEF AutoRecord, Record, Status
  <1>2. \A s : AutoRecord(j, s) # None
    BY <1>1, AttendanceAssumption
  <1>3. record' = [c \in Cells |-> IF c[1] \in Inserted(j) /\ c[2] = FirstPeriod
                                   THEN AutoRecord(j, c[1]) ELSE record[c]]
    BY Domain DEF CloseInsert, AutoRecord, TypeInv
  <1>4. \A c \in Cells : record[c] \in Record \cup {None} /\ c = <<c[1], c[2]>>
    BY DEF TypeInv, TypeOK, Cells
  <1>5. \A c \in Cells :
           record'[c] = IF c[2] = FirstPeriod /\ c[1] \in job[j].missing /\ record[c] = None
                        THEN AutoRecord(j, c[1]) ELSE record[c]
    BY <1>3, <1>4 DEF Inserted
  <1>6. \A c \in Cells : record'[c] \in Record \cup {None}
    BY <1>1, <1>4, <1>5
  <1> QED BY <1>1, <1>2, <1>3, <1>5, <1>6

-----------------------------------------------------------------------------
(***************************************************************************)
(* The closing job                                                         *)
(***************************************************************************)
Pcs == {"idle", "holiday", "roll", "records", "licences", "insert",
        "cancelled", "done", "failed"}

\* A job goes on to a state; the other jobs stay where they are.
JobGoes(j, x) == job' \in [Jobs -> Job] /\ job'[j] = x
                    /\ \A i \in Jobs \ {j} : job'[i] = job[i]

LEMMA JobSet ==
    ASSUME TypeOK, NEW j \in Jobs, NEW x \in Job, job' = [job EXCEPT ![j] = x]
    PROVE  JobGoes(j, x)
  BY DEF TypeOK, JobGoes

LEMMA WaitingJob ==
    ASSUME NEW pc \in Pcs, NEW roll \in SUBSET Students, NEW x,
           x = [pc |-> pc, roll |-> roll, missing |-> {}, excused |-> {}]
    PROVE  x \in Job /\ x.pc = pc /\ x.roll = roll
  BY DEF Job, Pcs

\* Each step of a job: where it goes on to.
LEMMA EarlyStep ==
    ASSUME TypeOK, NEW j \in Jobs, CloseStart(j) \/ CloseHoliday(j)
    PROVE  /\ \E x : JobGoes(j, x) /\ x.pc \in {"holiday", "roll", "cancelled"}
           /\ UNCHANGED <<record, licences, school, cards, hand>>
  <1>1. PICK pc \in {"holiday", "roll", "cancelled"} : job' = [job EXCEPT ![j].pc = pc]
    BY DEF CloseStart, CloseHoliday
  <1>2. PICK x : x = [job[j] EXCEPT !.pc = pc]
    OBVIOUS
  <1>3. job[j] \in Job
    BY DEF TypeOK
  <1>4. x \in Job /\ x.pc = pc
    BY <1>2, <1>3 DEF Job
  <1>5. job' = [job EXCEPT ![j] = x]
    BY <1>1, <1>2
  <1> QED BY <1>4, <1>5, JobSet DEF CloseStart, CloseHoliday

LEMMA RollStep ==
    ASSUME TypeOK, NEW j \in Jobs, CloseRoll(j)
    PROVE  /\ \E x : JobGoes(j, x) /\ \/ x.pc = "records"
                                      \/ x.pc = "done" /\ x.roll = {}
           /\ UNCHANGED <<record, licences, school, cards, hand>>
  <1>1. PICK pc \in {"done", "records"} :
           /\ job' = [job EXCEPT ![j] = [Waiting EXCEPT !.roll = Roll, !.pc = pc]]
           /\ pc = "done" => Roll = {}
    <2>1. PICK pc : pc = IF Roll = {} THEN "done" ELSE "records"
      OBVIOUS
    <2> QED BY <2>1 DEF CloseRoll
  <1>2. PICK x : x = [Waiting EXCEPT !.roll = Roll, !.pc = pc]
    OBVIOUS
  <1>3. Roll \in SUBSET Students
    BY DEF Roll, TypeOK
  <1>4. x \in Job /\ x.pc = pc /\ x.roll = Roll
    <2>1. x = [pc |-> pc, roll |-> Roll, missing |-> {}, excused |-> {}]
      BY <1>2 DEF Waiting
    <2> QED BY <1>3, <2>1, WaitingJob DEF Pcs
  <1>5. job' = [job EXCEPT ![j] = x]
    BY <1>1, <1>2
  <1> QED BY <1>1, <1>4, <1>5, JobSet DEF CloseRoll

LEMMA RecordsStep ==
    ASSUME TypeOK, NEW j \in Jobs, CloseRecords(j)
    PROVE  /\ \E x : /\ JobGoes(j, x)
                     /\ x.pc = "licences" \/ (x.pc = "done" /\ x.missing = {})
                     /\ x.roll = job[j].roll
                     /\ x.missing = {s \in job[j].roll : ~HasRecord(s)}
           /\ UNCHANGED <<record, licences, school, cards, hand>>
  <1>1. PICK missing : missing = {s \in job[j].roll : ~HasRecord(s)}
    OBVIOUS
  <1>2. PICK pc \in {"done", "licences"} :
           /\ job' = [job EXCEPT ![j].pc = pc, ![j].missing = missing]
           /\ pc = "done" => missing = {}
    <2>1. PICK pc : pc = IF missing = {} THEN "done" ELSE "licences"
      OBVIOUS
    <2> QED BY <1>1, <2>1 DEF CloseRecords
  <1>3. PICK x : x = [job[j] EXCEPT !.pc = pc, !.missing = missing]
    OBVIOUS
  <1>4. job[j] \in Job
    BY DEF TypeOK
  <1>5. x \in Job /\ x.pc = pc /\ x.missing = missing /\ x.roll = job[j].roll
    BY <1>1, <1>3, <1>4 DEF Job
  <1>6. job' = [job EXCEPT ![j] = x]
    BY <1>2, <1>3
  <1>7. JobGoes(j, x)
    BY <1>5, <1>6, JobSet
  <1>8. x.pc = "licences" \/ (x.pc = "done" /\ x.missing = {})
    <2>1. pc = "done" => missing = {}
      BY <1>2
    <2> QED BY <1>5, <2>1
  <1>9. x.missing = {s \in job[j].roll : ~HasRecord(s)}
    BY <1>1, <1>5
  <1>10. UNCHANGED <<record, licences, school, cards, hand>>
    BY DEF CloseRecords
  <1> QED BY <1>5, <1>7, <1>8, <1>9, <1>10

LEMMA LicencesStep ==
    ASSUME TypeOK, NEW j \in Jobs, CloseLicences(j)
    PROVE  /\ \E x : /\ JobGoes(j, x) /\ x.pc = "insert"
                     /\ x.roll = job[j].roll /\ x.missing = job[j].missing
                     /\ x.excused = {s \in job[j].missing : \E range \in StoredRanges :
                                        <<s, range>> \in licences /\ CoversToday(range)}
           /\ UNCHANGED <<record, licences, school, cards, hand>>
  <1>1. PICK excused : excused = {s \in job[j].missing : \E range \in StoredRanges :
                                     <<s, range>> \in licences /\ CoversToday(range)}
    OBVIOUS
  <1>2. job' = [job EXCEPT ![j].pc = "insert", ![j].excused = excused]
    BY <1>1 DEF CloseLicences
  <1>3. PICK x : x = [job[j] EXCEPT !.pc = "insert", !.excused = excused]
    OBVIOUS
  <1>4. job[j] \in Job
    BY DEF TypeOK
  <1>5. /\ x \in Job /\ x.pc = "insert" /\ x.excused = excused
        /\ x.missing = job[j].missing /\ x.roll = job[j].roll
    BY <1>1, <1>3, <1>4 DEF Job
  <1>6. job' = [job EXCEPT ![j] = x]
    BY <1>2, <1>3
  <1>7. JobGoes(j, x)
    BY <1>5, <1>6, JobSet
  <1> QED BY <1>1, <1>5, <1>7 DEF CloseLicences

LEMMA InsertStep ==
    ASSUME TypeOK, NEW j \in Jobs, CloseInsert(j)
    PROVE  /\ \E x : JobGoes(j, x) /\ x.pc = "done" /\ x.roll = job[j].roll
           /\ UNCHANGED <<licences, school, cards, hand>>
  <1>1. PICK x : x = [Waiting EXCEPT !.pc = "done", !.roll = job[j].roll]
    OBVIOUS
  <1>2. job[j].roll \in SUBSET Students
    BY DEF TypeOK, Job
  <1>3. x \in Job /\ x.pc = "done" /\ x.roll = job[j].roll
    <2>1. x = [pc |-> "done", roll |-> job[j].roll, missing |-> {}, excused |-> {}]
      BY <1>1 DEF Waiting
    <2> QED BY <1>2, <2>1, WaitingJob DEF Pcs
  <1>4. job' = [job EXCEPT ![j] = x]
    BY <1>1 DEF CloseInsert
  <1> QED BY <1>3, <1>4, JobSet DEF CloseInsert

LEMMA FailStep ==
    ASSUME TypeOK, NEW j \in Jobs, CloseFail(j)
    PROVE  /\ \E x : JobGoes(j, x) /\ x.pc = "failed"
           /\ UNCHANGED <<record, licences, school, cards, hand>>
  <1>1. PICK x : x = [Waiting EXCEPT !.pc = "failed"]
    OBVIOUS
  <1>2. x = [pc |-> "failed", roll |-> {}, missing |-> {}, excused |-> {}]
    BY <1>1 DEF Waiting
  <1>3. x \in Job /\ x.pc = "failed"
    BY <1>2 DEF Job
  <1> QED BY <1>1, <1>3, JobSet DEF CloseFail

\* A step is of a request, of the cards, a correction, of a job, or of the rest.
RequestStep(h) == \/ MarkCheck(h) \/ MarkWrite(h)
                  \/ ScanCheck(h) \/ ScanCard(h) \/ ScanEnrollment(h) \/ ScanWrite(h)
                  \/ LicenceCreate(h) \/ LicenceExcuse(h) \/ Abort(h)

LEMMA JobStepTypes ==
    ASSUME TypeInv, NEW j \in Jobs, CloseStep(j) \/ CloseFail(j)
    PROVE  /\ TypeInv'
           /\ \E x : JobGoes(j, x) /\ x.pc # "idle"
           /\ UNCHANGED <<licences, school, cards, hand>>
  <1>1. /\ \E x : JobGoes(j, x) /\ x.pc # "idle"
        /\ UNCHANGED <<licences, school, cards, hand>>
    BY EarlyStep, RollStep, RecordsStep, LicencesStep, InsertStep, FailStep
       DEF CloseStep, TypeInv
  <1>2. record' \in [Cells -> Record \cup {None}]
    BY CloseInsertRows DEF CloseStep, CloseStart, CloseHoliday, CloseRoll, CloseRecords,
       CloseLicences, CloseFail, TypeInv, TypeOK, Cells
  <1> QED BY <1>1, <1>2 DEF TypeInv, TypeOK, JobGoes, school, cards, Cells

-----------------------------------------------------------------------------
(***************************************************************************)
(* Every step keeps the types                                              *)
(***************************************************************************)
LEMMA RequestStepTypes ==
    ASSUME TypeInv, NEW h \in Handlers, RequestStep(h)
    PROVE  /\ TypeInv'
           /\ \A c \in Cells : Written(c)
           /\ licences \subseteq licences'
           /\ UNCHANGED <<school, cards, job>>
  <1> DEFINE Same == /\ record' \in [Cells -> Record \cup {None}]
                     /\ licences' \in SUBSET (Students \X StoredRanges)
                     /\ \A c \in Cells : Written(c)
                     /\ licences \subseteq licences'
                     /\ UNCHANGED <<school, cards, job>>
  <1>1. UNCHANGED <<record, licences, school, cards, job>> => Same
    BY DEF TypeInv, TypeOK, Cells, Written
  <1>2. CASE Goes(h, Idle) /\ Same
    BY <1>2, IdleHand, HandStep
  <1>3. CASE MarkCheck(h)
    <2>1. PICK sheet \in Sheets, b \in Blocks, day \in {Today} \cup {SafeLocalDate(d) : d \in Asked} :
             Goes(h, [Idle EXCEPT !.pc = "mark", !.marks = sheet, !.block = b, !.day = day])
      BY <1>3 DEF MarkCheck
    <2>2. PICK r : r = [Idle EXCEPT !.pc = "mark", !.marks = sheet, !.block = b, !.day = day]
      OBVIOUS
    <2>3. day \in Int
      BY SafeDay, AttendanceAssumption
    <2>4. Same
      BY <1>1, <1>3 DEF MarkCheck
    <2> QED BY <2>1, <2>2, <2>3, <2>4, MarkHand, HandStep
  <1>4. CASE ScanCheck(h)
    <2>1. PICK c \in printed, b \in Blocks :
             Goes(h, [Idle EXCEPT !.pc = "card", !.s = c[1], !.v = c[2], !.block = b])
      BY <1>4 DEF ScanCheck
    <2>2. PICK r : r = [Idle EXCEPT !.pc = "card", !.s = c[1], !.v = c[2], !.block = b]
      OBVIOUS
    <2>3. c[1] \in Students /\ c[2] \in 1..MaxVersion
      BY DEF TypeInv, TypeOK, Card
    <2>4. r \in Handler /\ HandOK(r)
      BY <2>2, <2>3, CardHand
    <2>5. Goes(h, r) /\ Same
      BY <1>1, <1>4, <2>1, <2>2 DEF ScanCheck
    <2> QED BY <2>4, <2>5, HandStep
  <1>5. CASE LicenceCreate(h)
    <2>1. PICK s \in Students, range \in StoredRanges :
             /\ licences' = licences \cup {<<s, range>>}
             /\ Goes(h, [Idle EXCEPT !.pc = "excuse", !.s = s, !.range = range])
      BY <1>5 DEF LicenceCreate
    <2>2. PICK r : r = [Idle EXCEPT !.pc = "excuse", !.s = s, !.range = range]
      OBVIOUS
    <2>3. Same
      BY <1>5, <2>1 DEF LicenceCreate, TypeInv, TypeOK, Cells, Written
    <2> QED BY <2>1, <2>2, <2>3, ExcuseHand, HandStep
  <1>6. CASE ScanCard(h) \/ ScanEnrollment(h)
    <2>1. Same
      BY <1>1, <1>6 DEF ScanCard, ScanEnrollment
    <2>2. hand[h] \in Handler /\ HandOK(hand[h]) /\ hand[h].pc \in {"card", "enrollment"}
      BY <1>6 DEF ScanCard, ScanEnrollment, TypeInv, TypeOK
    <2>3. CASE Goes(h, Idle)
      BY <1>2, <2>1, <2>3
    <2>4. CASE ~Goes(h, Idle)
      <3>1. PICK pc \in {"enrollment", "scan"} : Goes(h, [hand[h] EXCEPT !.pc = pc])
        BY <1>6, <2>4 DEF ScanCard, ScanEnrollment
      <3>2. PICK r : r = [hand[h] EXCEPT !.pc = pc]
        OBVIOUS
      <3> QED BY <2>1, <2>2, <3>1, <3>2, ScanHand, HandStep
    <2> QED BY <2>3, <2>4
  <1>7. CASE MarkWrite(h) \/ ScanWrite(h) \/ LicenceExcuse(h)
    <2>1. record' \in [Cells -> Record \cup {None}] /\ \A c \in Cells : Written(c)
      BY <1>7, MarkWriteRows, ScanWriteRows, LicenceExcuseRows
    <2>2. Goes(h, Idle) /\ UNCHANGED <<licences, school, cards, job>>
      BY <1>7 DEF MarkWrite, ScanWrite, LicenceExcuse
    <2> QED BY <1>2, <2>1, <2>2 DEF TypeInv, TypeOK
  <1>8. CASE Abort(h)
    BY <1>1, <1>2, <1>8 DEF Abort
  <1> QED BY <1>3, <1>4, <1>5, <1>6, <1>7, <1>8 DEF RequestStep

LEMMA CardStepTypes ==
    ASSUME TypeInv, NEW s \in Students, GenerateNewQR(s) \/ RevokeQR(s)
    PROVE  TypeInv' /\ UNCHANGED <<record, licences, school, hand, job>>
  <1>1. UNCHANGED <<record, licences, school, hand, job>>
    BY DEF GenerateNewQR, RevokeQR
  <1>2. version \in [Students -> 1..MaxVersion] /\ MaxVersion \in Nat
    BY AttendanceAssumption DEF TypeInv, TypeOK
  <1>3. CASE GenerateNewQR(s)
    BY <1>1, <1>2, <1>3 DEF GenerateNewQR, TypeInv, TypeOK, school, Card
  <1>4. CASE RevokeQR(s)
    <2>1. version[s] + 1 \in 1..MaxVersion
      BY <1>2, <1>4 DEF RevokeQR
    <2>2. version' = [version EXCEPT ![s] = version[s] + 1]
      BY <1>4 DEF RevokeQR, Revoked
    <2>3. version' \in [Students -> 1..MaxVersion]
      BY <1>2, <2>1, <2>2
    <2> QED BY <1>1, <1>4, <2>3 DEF RevokeQR, TypeInv, TypeOK, school
  <1> QED BY <1>1, <1>3, <1>4

LEMMA JustifyTypes ==
    ASSUME TypeInv, NEW x \in DOMAIN record, JustifyAttendance(x)
    PROVE  /\ TypeInv'
           /\ \A c \in Cells : Written(c)
           /\ UNCHANGED <<licences, school, cards, hand, job>>
  <1>1. x \in Cells
    BY Domain DEF TypeInv
  <1>2. record' \in [Cells -> Record \cup {None}] /\ \A c \in Cells : Written(c)
    BY <1>1, JustifyRows
  <1>3. UNCHANGED <<licences, school, cards, hand, job>>
    BY DEF JustifyAttendance
  <1> QED BY <1>2, <1>3 DEF TypeInv, TypeOK, school, cards, Cells

LEMMA TypeStep ==
    ASSUME TypeInv, [Next]_vars
    PROVE  TypeInv'
  <1>1. ASSUME NEW h \in Handlers, RequestStep(h) PROVE TypeInv'
    BY <1>1, RequestStepTypes
  <1>2. ASSUME NEW s \in Students, GenerateNewQR(s) \/ RevokeQR(s) PROVE TypeInv'
    BY <1>2, CardStepTypes
  <1>3. ASSUME NEW x \in DOMAIN record, JustifyAttendance(x) PROVE TypeInv'
    BY <1>3, JustifyTypes
  <1>4. ASSUME NEW j \in Jobs, CloseStep(j) \/ CloseFail(j) PROVE TypeInv'
    BY <1>4, JobStepTypes
  <1>5. CASE CreateHoliday \/ OtherServices
    BY <1>5 DEF CreateHoliday, OtherServices, TypeInv, TypeOK, cards
  <1>6. CASE UNCHANGED vars
    BY <1>6 DEF vars, school, cards, TypeInv, TypeOK
  <1> QED BY <1>1, <1>2, <1>3, <1>4, <1>5, <1>6 DEF Next, RequestStep

LEMMA TypeInit == Init => TypeInv
  <1> SUFFICES ASSUME Init PROVE TypeInv
    OBVIOUS
  <1>1. Waiting \in Job
    BY DEF Waiting, Job
  <1>2. 1 \in 1..MaxVersion
    BY AttendanceAssumption
  <1>3. version \in [Students -> 1..MaxVersion]
    BY <1>2 DEF Init
  <1>4. TypeOK
    BY <1>1, <1>3, IdleHand DEF Init, TypeOK
  <1> QED BY <1>4, IdleHand DEF Init, TypeInv

\* Every variable keeps to its type, whatever requests and jobs run together: a
\* mark, a scan and a job write records into cells of the table, and only those.
THEOREM TypeCorrect == Spec => []TypeOK
  <1>1. Init => TypeInv
    BY TypeInit
  <1>2. TypeInv /\ [Next]_vars => TypeInv'
    BY TypeStep
  <1>3. TypeInv => TypeOK
    BY DEF TypeInv
  <1> QED BY <1>1, <1>2, <1>3, PTL DEF Spec

-----------------------------------------------------------------------------
(***************************************************************************)
(* Records                                                                 *)
(***************************************************************************)
\* Of all steps, only the insert of a job writes what no person has.
LEMMA StepWrites ==
    ASSUME TypeInv, [Next]_vars
    PROVE  \/ \A c \in Cells : Written(c)
           \/ \E j \in Jobs : CloseInsert(j)
  <1>1. UNCHANGED record => \A c \in Cells : Written(c)
    BY DEF Written
  <1>2. ASSUME NEW h \in Handlers, RequestStep(h) PROVE \A c \in Cells : Written(c)
    BY <1>2, RequestStepTypes
  <1>3. ASSUME NEW s \in Students, GenerateNewQR(s) \/ RevokeQR(s) PROVE UNCHANGED record
    BY <1>3 DEF GenerateNewQR, RevokeQR
  <1>4. ASSUME NEW x \in DOMAIN record, JustifyAttendance(x)
        PROVE  \A c \in Cells : Written(c)
    BY <1>4, JustifyTypes
  <1>5. ASSUME NEW j \in Jobs, CloseStep(j) \/ CloseFail(j), ~CloseInsert(j)
        PROVE  UNCHANGED record
    BY <1>5 DEF CloseStep, CloseStart, CloseHoliday, CloseRoll, CloseRecords, CloseLicences,
                CloseFail
  <1>6. CASE CreateHoliday \/ OtherServices \/ UNCHANGED vars
    BY <1>1, <1>6 DEF CreateHoliday, OtherServices, vars
  <1> QED BY <1>1, <1>2, <1>3, <1>4, <1>5, <1>6 DEF Next, RequestStep

\* A cell that has a record never loses it, and only a person changes it.
LEMMA RecordsStay ==
    ASSUME TypeInv, [Next]_vars
    PROVE  \A c \in Cells : record[c] # None =>
              /\ record'[c] # None
              /\ record'[c] # record[c] => record'[c].method = "MANUAL"
  <1>1. CASE \A c \in Cells : Written(c)
    BY <1>1, AttendanceAssumption DEF Written
  <1>2. ASSUME NEW j \in Jobs, CloseInsert(j)
        PROVE  \A c \in Cells : record[c] # None => record'[c] = record[c]
    BY <1>2, CloseInsertRows
  <1> QED BY <1>1, <1>2, StepWrites

\* No machine writes over a record: what a teacher marked, a scanner read or the
\* secretary excused while a closing job ran is still there when the job is done,
\* and two jobs or two scans never write over each other.
THEOREM MachinesKeepRecords == Spec => RecordsAreKept
  <1>1. Init => TypeInv
    BY TypeInit
  <1>2. TypeInv /\ [Next]_vars => TypeInv'
    BY TypeStep
  <1>3. TypeInv /\ [Next]_vars =>
           [\A c \in DOMAIN record : record[c] # None /\ record'[c] # record[c]
               => record'[c].method = "MANUAL"]_vars
    BY RecordsStay, Domain DEF TypeInv
  <1> QED BY <1>1, <1>2, <1>3, PTL DEF Spec, RecordsAreKept

-----------------------------------------------------------------------------
(***************************************************************************)
(* The roll of a closing job                                               *)
(***************************************************************************)
\* Once a job has looked for records, whoever is on its roll without one is
\* among the missing; records that come later are never taken away.
Rolls ==
    \A j \in Jobs :
        /\ job[j].pc \in {"licences", "insert"} =>
              \A s \in job[j].roll : s \in job[j].missing \/ HasRecord(s)
        /\ job[j].pc = "done" => \A s \in job[j].roll : HasRecord(s)

RollInv == TypeInv /\ Rolls

LEMMA FirstCell ==
    ASSUME NEW s \in Students
    PROVE  <<s, FirstPeriod>> \in Cells
  BY FirstPeriodFacts DEF Cells

LEMMA HasRecordStays ==
    ASSUME TypeInv, [Next]_vars, NEW s \in Students, HasRecord(s)
    PROVE  HasRecord(s)'
  <1>1. record[<<s, FirstPeriod>>] # None
    BY DEF HasRecord
  <1>2. record'[<<s, FirstPeriod>>] # None
    BY <1>1, FirstCell, RecordsStay
  <1> QED BY <1>2 DEF HasRecord

\* A step that leaves a job where it is leaves its part of the invariant.
LEMMA RollStays ==
    ASSUME RollInv, [Next]_vars, NEW i \in Jobs, job'[i] = job[i]
    PROVE  /\ job'[i].pc \in {"licences", "insert"} =>
                 \A s \in job'[i].roll : s \in job'[i].missing \/ HasRecord(s)'
           /\ job'[i].pc = "done" => \A s \in job'[i].roll : HasRecord(s)'
  <1>1. \A s \in job[i].roll : s \in Students
    BY DEF RollInv, TypeInv, TypeOK, Job
  <1> QED BY <1>1, HasRecordStays DEF RollInv, Rolls

LEMMA JobRolls ==
    ASSUME RollInv, [Next]_vars, NEW j \in Jobs, CloseStep(j) \/ CloseFail(j)
    PROVE  /\ job'[j].pc \in {"licences", "insert"} =>
                 \A s \in job'[j].roll : s \in job'[j].missing \/ HasRecord(s)'
           /\ job'[j].pc = "done" => \A s \in job'[j].roll : HasRecord(s)'
  <1>0. TypeInv /\ TypeOK
    BY DEF RollInv, TypeInv
  <1>1. \A s \in job[j].roll : s \in Students
    BY <1>0 DEF TypeOK, Job
  <1>2. \A s \in Students : HasRecord(s) => HasRecord(s)'
    BY <1>0, HasRecordStays
  <1>3. CASE CloseStart(j) \/ CloseHoliday(j) \/ CloseFail(j)
    BY <1>0, <1>3, EarlyStep, FailStep DEF JobGoes
  <1>4. CASE CloseRoll(j)
    BY <1>0, <1>4, RollStep DEF JobGoes
  <1>5. CASE CloseRecords(j)
    <2>1. PICK x : /\ job'[j] = x
                   /\ x.pc = "licences" \/ (x.pc = "done" /\ x.missing = {})
                   /\ x.roll = job[j].roll
                   /\ x.missing = {s \in job[j].roll : ~HasRecord(s)}
      BY <1>0, <1>5, RecordsStep DEF JobGoes
    <2> QED BY <1>1, <1>2, <2>1
  <1>6. CASE CloseLicences(j)
    <2>1. PICK x : /\ job'[j] = x /\ x.pc = "insert"
                   /\ x.roll = job[j].roll /\ x.missing = job[j].missing
      BY <1>0, <1>6, LicencesStep DEF JobGoes
    <2>2. \A s \in job[j].roll : s \in job[j].missing \/ HasRecord(s)
      BY <1>6 DEF CloseLicences, RollInv, Rolls
    <2> QED BY <1>1, <1>2, <2>1, <2>2
  <1>7. CASE CloseInsert(j)
    <2>1. job'[j].pc = "done" /\ job'[j].roll = job[j].roll
      BY <1>0, <1>7, InsertStep DEF JobGoes
    <2>2. \A s \in job[j].roll : s \in job[j].missing \/ HasRecord(s)
      BY <1>7 DEF CloseInsert, RollInv, Rolls
    <2>3. \A s \in Students : s \in job[j].missing => HasRecord(s)'
      <3> SUFFICES ASSUME NEW s \in Students, s \in job[j].missing
                   PROVE  record'[<<s, FirstPeriod>>] # None
        BY DEF HasRecord
      <3> QED BY <1>0, <1>7, FirstCell, CloseInsertRows
    <2> QED BY <1>1, <1>2, <2>1, <2>2, <2>3
  <1> QED BY <1>3, <1>4, <1>5, <1>6, <1>7 DEF CloseStep

\* Either no job moves or one does.
LEMMA OneJob ==
    ASSUME TypeInv, [Next]_vars
    PROVE  \/ UNCHANGED job
           \/ \E j \in Jobs : (CloseStep(j) \/ CloseFail(j))
                              /\ \A i \in Jobs \ {j} : job'[i] = job[i]
  <1>1. ASSUME NEW h \in Handlers, RequestStep(h) PROVE UNCHANGED job
    BY <1>1, RequestStepTypes
  <1>2. ASSUME NEW j \in Jobs, CloseStep(j) \/ CloseFail(j)
        PROVE  \A i \in Jobs \ {j} : job'[i] = job[i]
    BY <1>2, JobStepTypes DEF JobGoes
  <1> QED BY <1>1, <1>2 DEF Next, RequestStep, GenerateNewQR, RevokeQR, JustifyAttendance,
             CreateHoliday, OtherServices, vars

LEMMA RollsStep ==
    ASSUME RollInv, [Next]_vars
    PROVE  RollInv'
  <1>1. TypeInv'
    BY TypeStep DEF RollInv
  <1>2. CASE UNCHANGED job
    BY <1>1, <1>2, RollStays DEF RollInv, Rolls
  <1>3. ASSUME NEW j \in Jobs, CloseStep(j) \/ CloseFail(j),
               \A i \in Jobs \ {j} : job'[i] = job[i]
        PROVE  Rolls'
    BY <1>3, RollStays, JobRolls DEF Rolls
  <1> QED BY <1>1, <1>2, <1>3, OneJob DEF RollInv

\* A job that has come to its end leaves nobody of its roll without a record of
\* the first period, whoever was marked, scanned or inserted by another job while
\* it ran.
THEOREM NobodyIsLeftOut == Spec => []NobodyLeftOut
  <1>1. Init => RollInv
    BY TypeInit DEF Init, RollInv, Rolls, Waiting
  <1>2. RollInv /\ [Next]_vars => RollInv'
    BY RollsStep
  <1>3. RollInv => NobodyLeftOut
    BY DEF RollInv, Rolls, NobodyLeftOut, HasRecord
  <1> QED BY <1>1, <1>2, <1>3, PTL DEF Spec

-----------------------------------------------------------------------------
(***************************************************************************)
(* Licences                                                                *)
(***************************************************************************)
\* What a licence that was asked for covers once it is stored: on a server in UTC
\* its days, on one in La Paz the days before each of them.
LEMMA StoredDays ==
    ASSUME NEW range \in Ranges
    PROVE  LET day == IF Zone < 0 THEN Today + 1 ELSE Today
           IN  CoversToday(Stored(range)) <=> range[1] <= day /\ day <= range[2]
  <1>1. /\ range[1] \in Int /\ range[2] \in Int /\ Today \in Int
        /\ Stored(range)[1] = SafeLocalDate(range[1]) /\ Stored(range)[2] = SafeLocalDate(range[2])
    BY AttendanceAssumption DEF Stored
  <1> QED BY <1>1 DEF CoversToday, SafeLocalDate

AllIdle == \A j \in Jobs : job[j].pc = "idle"

\* Only a job that has begun marks a student ABSENT by the system.
NobodyYet == AllIdle => \A s \in Students : ~MarkedAbsent(s)

LicenceInv == TypeInv /\ NobodyYet

\* A student whom no job can mark ABSENT any more: licensed, not marked, and
\* excused by each job that is about to insert.
Protected(s) ==
    /\ IsLicensed(s)
    /\ ~MarkedAbsent(s)
    /\ \A j \in Jobs : job[j].pc = "insert" /\ s \in job[j].missing => s \in job[j].excused

LEMMA WrittenAbsent ==
    ASSUME TypeInv, NEW s \in Students, Written(<<s, FirstPeriod>>), MarkedAbsent(s)'
    PROVE  MarkedAbsent(s)
  BY DEF Written, MarkedAbsent

LEMMA NobodyYetStep ==
    ASSUME LicenceInv, [Next]_vars
    PROVE  LicenceInv'
  <1>1. TypeInv'
    BY TypeStep DEF LicenceInv
  <1>2. SUFFICES ASSUME AllIdle', NEW s \in Students, MarkedAbsent(s)'
                 PROVE  FALSE
    BY <1>1 DEF LicenceInv, NobodyYet
  <1>3. ASSUME NEW j \in Jobs, CloseStep(j) \/ CloseFail(j) PROVE FALSE
    <2>1. job'[j].pc # "idle"
      BY <1>3, JobStepTypes DEF JobGoes, LicenceInv
    <2> QED BY <1>2, <2>1 DEF AllIdle
  <1>4. UNCHANGED job
    BY <1>3, OneJob DEF LicenceInv
  <1>5. \A c \in Cells : Written(c)
    BY <1>3, StepWrites DEF LicenceInv, CloseStep
  <1>6. MarkedAbsent(s)
    BY <1>2, <1>5, FirstCell, WrittenAbsent DEF LicenceInv
  <1>7. AllIdle
    BY <1>2, <1>4 DEF AllIdle
  <1> QED BY <1>6, <1>7 DEF LicenceInv, NobodyYet

\* Licences are never taken back.
LEMMA LicencesStay ==
    ASSUME TypeInv, [Next]_vars
    PROVE  licences \subseteq licences'
  <1>1. ASSUME NEW h \in Handlers, RequestStep(h) PROVE licences \subseteq licences'
    BY <1>1, RequestStepTypes
  <1>2. ASSUME NEW j \in Jobs, CloseStep(j) \/ CloseFail(j) PROVE licences \subseteq licences'
    BY <1>2, JobStepTypes
  <1> QED BY <1>1, <1>2 DEF Next, RequestStep, GenerateNewQR, RevokeQR, JustifyAttendance,
             CreateHoliday, OtherServices, vars

LEMMA ProtectedStep ==
    ASSUME TypeInv, NEW s \in Students, Protected(s), [Next]_vars
    PROVE  Protected(s)'
  <1>1. IsLicensed(s)'
    BY LicencesStay DEF Protected, IsLicensed
  <1>2. CASE \E j \in Jobs : CloseInsert(j)
    <2>1. PICK j \in Jobs : CloseInsert(j)
      BY <1>2
    <2>2. job'[j].pc = "done" /\ \A i \in Jobs \ {j} : job'[i] = job[i]
      BY <2>1, InsertStep DEF JobGoes, TypeInv
    <2>3. \A i \in Jobs : job'[i].pc = "insert" /\ s \in job'[i].missing => s \in job'[i].excused
      BY <2>2 DEF Protected
    <2>4. PICK c \in Cells : c = <<s, FirstPeriod>>
      BY FirstCell
    <2>5. record'[c] = record[c] => ~MarkedAbsent(s)'
      BY <2>4 DEF Protected, MarkedAbsent
    <2>6. record'[c] # record[c] => ~MarkedAbsent(s)'
      <3> SUFFICES ASSUME record'[c] # record[c] PROVE ~MarkedAbsent(s)'
        OBVIOUS
      <3>1. s \in job[j].missing /\ record'[c] = AutoRecord(j, s)
        BY <2>1, <2>4, CloseInsertRows
      <3>2. s \in job[j].excused
        BY <2>1, <3>1 DEF Protected, CloseInsert
      <3>3. record'[c].status = "EXCUSED"
        BY <3>1, <3>2 DEF AutoRecord
      <3> QED BY <2>4, <3>3 DEF MarkedAbsent
    <2> QED BY <1>1, <2>3, <2>5, <2>6 DEF Protected
  <1>3. CASE ~\E j \in Jobs : CloseInsert(j)
    <2>1. ~MarkedAbsent(s)'
      BY <1>3, StepWrites, FirstCell, WrittenAbsent DEF Protected
    <2>2. ASSUME NEW j \in Jobs, CloseStep(j) \/ CloseFail(j), job'[j].pc = "insert",
                 s \in job'[j].missing
          PROVE  s \in job'[j].excused
      <3>1. CloseLicences(j)
        BY <1>3, <2>2, EarlyStep, RollStep, RecordsStep, InsertStep, FailStep
           DEF CloseStep, JobGoes, TypeInv
      <3>2. PICK x : /\ job'[j] = x /\ x.missing = job[j].missing
                     /\ x.excused = {t \in job[j].missing : \E range \in StoredRanges :
                                        <<t, range>> \in licences /\ CoversToday(range)}
        BY <3>1, LicencesStep DEF JobGoes, TypeInv
      <3>3. \E range \in StoredRanges : <<s, range>> \in licences /\ CoversToday(range)
        BY DEF Protected, IsLicensed, CoversToday
      <3> QED BY <2>2, <3>2, <3>3
    <2>3. \A j \in Jobs : job'[j].pc = "insert" /\ s \in job'[j].missing => s \in job'[j].excused
      BY <2>2, OneJob DEF Protected
    <2> QED BY <1>1, <2>1, <2>3 DEF Protected
  <1> QED BY <1>2, <1>3

\* Whose stored licence covers the day before any job begins is never marked
\* ABSENT by one, whatever comes between the reads of the job and its insert, in
\* whichever zone the server stored it.
THEOREM LicencesProtect == Spec => LicencesHold
  <1> SUFFICES ASSUME NEW s \in Students
               PROVE  Spec => [](AllIdle /\ IsLicensed(s) => []~MarkedAbsent(s))
    BY DEF LicencesHold, AllIdle
  <1>1. Init => LicenceInv
    BY TypeInit, FirstCell, AttendanceAssumption DEF Init, LicenceInv, NobodyYet, MarkedAbsent,
       Cells, Record, Status
  <1>2. LicenceInv /\ [Next]_vars => LicenceInv'
    BY NobodyYetStep
  <1>3. LicenceInv => TypeInv
    BY DEF LicenceInv
  <1>4. LicenceInv /\ AllIdle /\ IsLicensed(s) => Protected(s)
    BY DEF LicenceInv, NobodyYet, AllIdle, Protected
  <1>5. TypeInv /\ Protected(s) /\ [Next]_vars => Protected(s)'
    BY ProtectedStep
  <1>6. Protected(s) => ~MarkedAbsent(s)
    BY DEF Protected
  <1> QED BY <1>1, <1>2, <1>3, <1>4, <1>5, <1>6, PTL DEF Spec

-----------------------------------------------------------------------------
(***************************************************************************)
(* Cards                                                                   *)
(***************************************************************************)
\* A card is of a version that there has been, and the student of a card of the
\* present version has an active one: what is printed later is of that version
\* too, and what is revoked gets a version of its own.
CardsKnown ==
    \A c \in printed :
        /\ c[2] <= version[c[1]]
        /\ c[2] = version[c[1]] => c[1] \in active

CardInv == TypeInv /\ CardsKnown

\* Cards of a student: one is generated, they are revoked, or nothing changes.
LEMMA CardSteps ==
    ASSUME TypeInv, [Next]_vars
    PROVE  \/ UNCHANGED cards
           \/ \E s \in Students : GenerateNewQR(s) \/ RevokeQR(s)
  <1>1. ASSUME NEW h \in Handlers, RequestStep(h) PROVE UNCHANGED cards
    BY <1>1, RequestStepTypes
  <1>2. ASSUME NEW j \in Jobs, CloseStep(j) \/ CloseFail(j) PROVE UNCHANGED cards
    BY <1>2, JobStepTypes
  <1> QED BY <1>1, <1>2 DEF Next, RequestStep, JustifyAttendance, CreateHoliday, OtherServices, vars

LEMMA CardFacts ==
    ASSUME TypeInv
    PROVE  /\ \A c \in printed : c[1] \in Students /\ c[2] \in Nat
           /\ version \in [Students -> Nat]
  BY AttendanceAssumption DEF TypeInv, TypeOK, Card

LEMMA RevokedVersion ==
    ASSUME TypeInv, NEW s \in Students, RevokeQR(s)
    PROVE  /\ \A t \in Students : version'[t] = IF t = s THEN version[s] + 1 ELSE version[t]
           /\ active' = active \ {s} /\ UNCHANGED printed
  BY CardFacts DEF RevokeQR, Revoked

LEMMA CardStep ==
    ASSUME CardInv, [Next]_vars
    PROVE  /\ CardInv'
           /\ \A c \in printed : ~Valid(c[1], c[2]) => ~Valid(c[1], c[2])'
  <1>0. TypeInv /\ TypeInv'
    BY TypeStep DEF CardInv
  <1>1. CASE UNCHANGED cards
    BY <1>0, <1>1 DEF CardInv, CardsKnown, Valid, cards
  <1>2. ASSUME NEW s \in Students, GenerateNewQR(s)
        PROVE  CardsKnown' /\ \A c \in printed : ~Valid(c[1], c[2]) => ~Valid(c[1], c[2])'
    <2>1. /\ active' = active \cup {s} /\ printed' = printed \cup {<<s, version[s]>>}
          /\ UNCHANGED version
      BY <1>2 DEF GenerateNewQR
    <2>2. CardsKnown'
      <3> SUFFICES ASSUME NEW c \in printed'
                   PROVE  c[2] <= version[c[1]] /\ (c[2] = version[c[1]] => c[1] \in active')
        BY <2>1 DEF CardsKnown
      <3>1. CASE c \in printed
        BY <2>1, <3>1 DEF CardInv, CardsKnown
      <3>2. CASE c = <<s, version[s]>>
        BY <1>0, <2>1, <3>2, CardFacts
      <3> QED BY <2>1, <3>1, <3>2
    <2>3. \A c \in printed : Valid(c[1], c[2])' => Valid(c[1], c[2])
      BY <2>1 DEF CardInv, CardsKnown, Valid
    <2> QED BY <2>2, <2>3
  <1>3. ASSUME NEW s \in Students, RevokeQR(s)
        PROVE  CardsKnown' /\ \A c \in printed : ~Valid(c[1], c[2]) => ~Valid(c[1], c[2])'
    <2>1. /\ \A t \in Students : version'[t] = IF t = s THEN version[s] + 1 ELSE version[t]
          /\ active' = active \ {s} /\ UNCHANGED printed
      BY <1>0, <1>3, RevokedVersion
    <2>2. \A c \in printed : /\ c[1] \in Students /\ c[2] \in Nat /\ version[c[1]] \in Nat
                             /\ c[2] <= version[c[1]]
                             /\ c[2] = version[c[1]] => c[1] \in active
      BY <1>0, CardFacts DEF CardInv, CardsKnown
    <2>3. CardsKnown'
      BY <2>1, <2>2 DEF CardsKnown
    <2>4. \A c \in printed : Valid(c[1], c[2])' => Valid(c[1], c[2])
      BY <2>1, <2>2 DEF Valid
    <2> QED BY <2>3, <2>4
  <1> QED BY <1>0, <1>1, <1>2, <1>3, CardSteps DEF CardInv

\* A card that is revoked is never valid again, whichever cards are generated or
\* revoked after it, for any students and any number of versions.
THEOREM RevokedCardsStay == Spec => CardsStayRevoked
  <1>1. Init => CardInv
    BY TypeInit DEF Init, CardInv, CardsKnown
  <1>2. CardInv /\ [Next]_vars => CardInv'
    BY CardStep
  <1>3. CardInv /\ [Next]_vars =>
           [\A c \in printed : ~Valid(c[1], c[2]) => ~Valid(c[1], c[2])']_vars
    BY CardStep
  <1> QED BY <1>1, <1>2, <1>3, PTL DEF Spec, CardsStayRevoked
=============================================================================
