-------------------------- MODULE AcademicCalendar --------------------------
(***************************************************************************)
(* The school calendar kept by the API: academic years (gestiones), their  *)
(* three trimesters and the cache of the current active year.              *)
(*                                                                         *)
(*   api/src/academic-years/academic-years.service.ts                      *)
(*   api/src/trimesters/trimesters.service.ts                              *)
(*                                                                         *)
(* PostgreSQL runs every transaction at READ COMMITTED, so a request is a  *)
(* handler with a program counter: it reads and checks in one step, holds  *)
(* what it read, and writes in a later one.  The writes of a transaction   *)
(* become visible together, at its commit.  The academic-year service      *)
(* serialises its transactions with an advisory lock; the trimester        *)
(* service takes only the row locks of the rows it updates.                *)
(***************************************************************************)
EXTENDS Integers

CONSTANTS
    Years,              \* ids of academic_years rows (uuids: never reused)
    YearHandlers,       \* concurrent requests of the academic-years service
    TrimesterHandlers,  \* concurrent requests of TrimestersService.update
    Readers,            \* concurrent calls of findCurrentActive
    LastDay,            \* dates are the days 0..LastDay
    NewYears,           \* the CreateAcademicYearDto values requests may carry
    YearPatches,        \* the UpdateAcademicYearDto values
    TrimesterPatches,   \* the UpdateTrimesterDto values
    None                \* an undefined field, a free lock, an empty cache

Status == {"PLANNING", "ACTIVE", "CLOSED"}
Orders == 1..3
Days   == 0..LastDay

YearPatch == [status: Status \cup {None}, number: Nat \cup {None},
              start: Days \cup {None}, end: Days \cup {None}]
TrimesterPatch == [open: BOOLEAN \cup {None},
                   start: Days \cup {None}, end: Days \cup {None}]

ASSUME CalendarAssumption ==
    /\ LastDay \in Nat
    /\ None \notin Status \cup Nat \cup BOOLEAN \cup Years
                   \cup YearHandlers \cup TrimesterHandlers
    /\ YearHandlers \cap TrimesterHandlers = {}
    /\ YearPatches \subseteq YearPatch
    /\ NewYears \subseteq YearPatch
    /\ \A d \in NewYears : None \notin {d.number, d.start, d.end}
    /\ TrimesterPatches \subseteq TrimesterPatch

VARIABLES
    years,           \* rows of academic_years
    trimesters,      \* the three trimesters rows of every year
    inUse,           \* a year has classrooms or enrollments
    pendingUpdates,  \* a year has PENDING data-update requests
    advisory,        \* who holds the advisory lock uecg_academic_year_status_lock
    rowLock,         \* who holds the row lock of a trimester
    cache,           \* the entry academic-year:current-active
    yReq,            \* state of each academic-years request
    tReq,            \* state of each trimester update
    fill             \* state of each findCurrentActive call

db    == <<years, trimesters, inUse, pendingUpdates>>
locks == <<advisory, rowLock>>
vars  == <<years, trimesters, inUse, pendingUpdates, advisory, rowLock,
           cache, yReq, tReq, fill>>

(***************************************************************************)
(* Rows and requests                                                       *)
(***************************************************************************)
YearRow == [status: Status \cup {"UNCREATED", "REMOVED"}, number: Nat,
            start: Days, end: Days]
TrimesterRow == [open: BOOLEAN, start: Days, end: Days]

NoYear       == [status |-> "UNCREATED", number |-> 0, start |-> 0, end |-> 0]
NoTrimesters == [o \in Orders |-> [open |-> FALSE, start |-> 0, end |-> 0]]

YearRequest ==
    [pc: {"idle", "create", "createCommit", "update", "updateCommit",
          "remove", "removing", "invalidate", "failed"},
     year: Years \cup {None}, data: YearPatch \cup {None},
     closing: SUBSET Years]                 \* years the transaction closes
TrimesterRequest ==
    [pc: {"idle", "siblings", "closeOthers", "write", "invalidate", "failed"},
     year: Years \cup {None}, order: Orders, data: TrimesterPatch \cup {None},
     start: Days, end: Days,                \* the dates that were checked
     closing: SUBSET Orders]                \* trimesters the transaction closes
Current == [year: Years, open: SUBSET Orders]

IdleYear == [pc |-> "idle", year |-> None, data |-> None, closing |-> {}]
IdleTrimester == [pc |-> "idle", year |-> None, order |-> 1, data |-> None,
                  start |-> 0, end |-> 0, closing |-> {}]
IdleReader == [pc |-> "idle", current |-> None]
\* A request has been answered, with an error or not, and the next may come.
Over(request) == request.pc \in {"idle", "failed"}

Exists(y)   == years[y].status \in Status
ActiveYears == {y \in Years : years[y].status = "ACTIVE"}
OpenOf(y)   == {o \in Orders : trimesters[y][o].open}

Patched_UndefinedOverwrites(row, patch) ==
    [f \in DOMAIN row |-> patch[f]]
\* Fields present in a DTO replace those of the row, the others are kept.
Patched(row, patch) ==
    [f \in DOMAIN row |-> IF patch[f] = None THEN row[f] ELSE patch[f]]

\* The unique constraint on academic_years.year, and the checks before it.
NumberTaken(n, except) ==
    \E y \in Years \ {except} : Exists(y) /\ years[y].number = n

\* createDefaultTrimesters: thirds of the year's duration, all closed.  A
\* bound is truncated to the day; each later trimester starts the day after.
DefaultTrimesters(start, end) ==
    LET d == end - start
        cut == [o \in 0..3 |-> IF o = 3 THEN end ELSE start + (o * d) \div 3]
    IN  [o \in Orders |->
            [open |-> FALSE, end |-> cut[o],
             start |-> IF o = 1 THEN start ELSE cut[o - 1] + 1]]

TypeOK ==
    /\ years \in [Years -> YearRow]
    /\ trimesters \in [Years -> [Orders -> TrimesterRow]]
    /\ inUse \in [Years -> BOOLEAN]
    /\ pendingUpdates \in [Years -> BOOLEAN]
    /\ advisory \in YearHandlers \cup {None}
    /\ rowLock \in [Years -> [Orders -> YearHandlers \cup TrimesterHandlers \cup {None}]]
    /\ cache \in Current \cup {None}
    /\ yReq \in [YearHandlers -> YearRequest]
    /\ tReq \in [TrimesterHandlers -> TrimesterRequest]
    /\ fill \in [Readers -> [pc: {"idle", "query", "store"},
                            current: Current \cup {None}]]

Init ==
    /\ years = [y \in Years |-> NoYear]
    /\ trimesters = [y \in Years |-> NoTrimesters]
    /\ inUse = [y \in Years |-> FALSE]
    /\ pendingUpdates = [y \in Years |-> FALSE]
    /\ advisory = None
    /\ rowLock = [y \in Years |-> [o \in Orders |-> None]]
    /\ cache = None
    /\ yReq = [h \in YearHandlers |-> IdleYear]
    /\ tReq = [h \in TrimesterHandlers |-> IdleTrimester]
    /\ fill = [r \in Readers |-> IdleReader]

\* pg_advisory_xact_lock waits until no other transaction holds the lock.
AdvisoryFree_NotTaken == TRUE
AdvisoryFree == advisory = None
FreesAdvisory_SessionLock == UNCHANGED advisory
\* It is the transaction's, and ends with it.
FreesAdvisory == advisory' = None

\* A transaction that fails leaves the rows as they were.
RolledBack_KeepsDeactivation(h) ==
    [y \in Years |-> IF y \in yReq[h].closing
                     THEN [years[y] EXCEPT !.status = "CLOSED"] ELSE years[y]]
RolledBack(h) == years

-----------------------------------------------------------------------------
(***************************************************************************)
(* AcademicYearsService.create                                             *)
(***************************************************************************)

\* Outside the transaction: the year number is free and the dates are sane.
\* The row id is drawn among those no other request will use.
CreateCheck(h) ==
    /\ Over(yReq[h])
    /\ \E y \in Years, d \in NewYears :
          /\ years[y].status = "UNCREATED"
          /\ \A g \in YearHandlers : yReq[g].year # y
          /\ ~NumberTaken(d.number, y)
          /\ d.start < d.end
          /\ yReq' = [yReq EXCEPT ![h] =
                [pc |-> "create", year |-> y, data |-> d, closing |-> {}]]
    /\ UNCHANGED <<db, locks, cache, tReq, fill>>

\* The transaction takes the advisory lock and, to create an active year,
\* updates the active ones to CLOSED (deactivateOtherActiveYears).
CreateBegin(h) ==
    /\ yReq[h].pc = "create"
    /\ AdvisoryFree
    /\ advisory' = h
    /\ yReq' = [yReq EXCEPT ![h].pc = "createCommit", ![h].closing =
          IF yReq[h].data.status = "ACTIVE" THEN ActiveYears ELSE {}]
    /\ UNCHANGED <<db, rowLock, cache, tReq, fill>>

\* Writes of the transaction: the deactivated years, then the row itself.
Committed(h, row) ==
    [y \in Years |->
        IF y = yReq[h].year THEN row
        ELSE IF y \in yReq[h].closing THEN [years[y] EXCEPT !.status = "CLOSED"]
        ELSE years[y]]

\* Row and default trimesters are inserted; a taken number rolls back.
CreateCommit(h) ==
    LET y == yReq[h].year
        d == yReq[h].data
    IN  /\ yReq[h].pc = "createCommit"
        /\ FreesAdvisory
        /\ \/ /\ NumberTaken(d.number, y)
              /\ years' = RolledBack(h)
              /\ yReq' = [yReq EXCEPT ![h] = IdleYear]
              /\ UNCHANGED trimesters
           \/ /\ ~NumberTaken(d.number, y)
              /\ years' = Committed(h,
                    Patched([NoYear EXCEPT !.status = "PLANNING"], d))
              /\ trimesters' = [trimesters EXCEPT ![y] =
                    DefaultTrimesters(d.start, d.end)]
              /\ yReq' = [yReq EXCEPT ![h] = [IdleYear EXCEPT !.pc = "invalidate"]]
        /\ UNCHANGED <<inUse, pendingUpdates, rowLock, cache, tReq, fill>>

-----------------------------------------------------------------------------
(***************************************************************************)
(* AcademicYearsService.update: the whole body runs under the lock         *)
(***************************************************************************)
UpdateRequest(h) ==
    /\ Over(yReq[h])
    /\ \E y \in Years, d \in YearPatches :
          /\ Exists(y)
          /\ yReq' = [yReq EXCEPT ![h] =
                [pc |-> "update", year |-> y, data |-> d, closing |-> {}]]
    /\ UNCHANGED <<db, locks, cache, tReq, fill>>

\* validateCanCloseAcademicYear: trimesters exist, none is open, no data
\* update is pending.  (Every existing year has its three trimesters.)
CanClose(y) == OpenOf(y) = {} /\ ~pendingUpdates[y]

UpdateAllowed(y, d) ==
    LET new == Patched(years[y], d) IN
    /\ Exists(y)
    /\ d.status = "CLOSED" /\ years[y].status # "CLOSED" => CanClose(y)
    /\ new.start < new.end
    /\ \A o \in Orders : /\ trimesters[y][o].start >= new.start
                         /\ trimesters[y][o].end <= new.end
    /\ d.number # None => ~NumberTaken(d.number, y)

UpdateBegin(h) ==
    LET y == yReq[h].year
        d == yReq[h].data
    IN  /\ yReq[h].pc = "update"
        /\ AdvisoryFree
        /\ \/ /\ UpdateAllowed(y, d)
              /\ advisory' = h
              /\ yReq' = [yReq EXCEPT ![h].pc = "updateCommit", ![h].closing =
                    IF d.status = "ACTIVE" /\ years[y].status # "ACTIVE"
                    THEN ActiveYears \ {y} ELSE {}]
           \/ /\ ~UpdateAllowed(y, d)
              /\ yReq' = [yReq EXCEPT ![h] = IdleYear]
              /\ UNCHANGED advisory
        /\ UNCHANGED <<db, rowLock, cache, tReq, fill>>

UpdateCommit(h) ==
    /\ yReq[h].pc = "updateCommit"
    /\ years' = Committed(h, Patched(years[yReq[h].year], yReq[h].data))
    /\ FreesAdvisory
    /\ yReq' = [yReq EXCEPT ![h] = [IdleYear EXCEPT !.pc = "invalidate"]]
    /\ UNCHANGED <<trimesters, inUse, pendingUpdates, rowLock, cache, tReq, fill>>

-----------------------------------------------------------------------------
(***************************************************************************)
(* AcademicYearsService.remove                                             *)
(***************************************************************************)
RemoveRequest(h) ==
    /\ Over(yReq[h])
    /\ \E y \in Years :
          /\ Exists(y)
          /\ yReq' = [yReq EXCEPT ![h] =
                [IdleYear EXCEPT !.pc = "remove", !.year = y]]
    /\ UNCHANGED <<db, locks, cache, tReq, fill>>

\* Under the lock, a year in use is refused.
RemoveBegin(h) ==
    LET y == yReq[h].year IN
    /\ yReq[h].pc = "remove"
    /\ AdvisoryFree
    /\ \/ /\ inUse[y]
          /\ yReq' = [yReq EXCEPT ![h] = IdleYear]
          /\ UNCHANGED advisory
       \/ /\ ~inUse[y]
          /\ advisory' = h
          /\ yReq' = [yReq EXCEPT ![h].pc = "removing"]
    /\ UNCHANGED <<db, rowLock, cache, tReq, fill>>

\* Statements take their rows in the order of the trimesters: deleteMany the
\* three of the year, an update the others it closes and then its own.
Least(rows) == CHOOSE o \in rows : \A s \in rows : o <= s
Unheld(h)  == {o \in Orders : rowLock[yReq[h].year][o] # h}
NextRow(h) == Least(Unheld(h))
Wanted(h)  == LET rest == {o \in tReq[h].closing : rowLock[tReq[h].year][o] # h}
              IN  IF rest = {} THEN tReq[h].order ELSE Least(rest)

RemoveRow(h) ==
    /\ yReq[h].pc = "removing"
    /\ Unheld(h) # {}
    /\ rowLock[yReq[h].year][NextRow(h)] = None
    /\ rowLock' = [rowLock EXCEPT ![yReq[h].year][NextRow(h)] = h]
    /\ UNCHANGED <<db, advisory, cache, yReq, tReq, fill>>

\* The row locks of handler h's transaction are free again.
Released(h) ==
    [y \in Years |-> [o \in Orders |->
        IF rowLock[y][o] = h THEN None ELSE rowLock[y][o]]]

\* The year is deleted; one already deleted, or that a classroom or an
\* enrollment refers to by now, makes the delete and its transaction fail.
RemoveCommit(h) ==
    LET y == yReq[h].year IN
    /\ yReq[h].pc = "removing"
    /\ Unheld(h) = {}
    /\ FreesAdvisory
    /\ rowLock' = Released(h)
    /\ \/ /\ ~Exists(y) \/ inUse[y]
          /\ yReq' = [yReq EXCEPT ![h] = IdleYear]
          /\ UNCHANGED <<years, trimesters>>
       \/ /\ Exists(y) /\ ~inUse[y]
          /\ years' = [years EXCEPT ![y] = [NoYear EXCEPT !.status = "REMOVED"]]
          /\ trimesters' = [trimesters EXCEPT ![y] = NoTrimesters]
          /\ yReq' = [yReq EXCEPT ![h] = [IdleYear EXCEPT !.pc = "invalidate"]]
    /\ UNCHANGED <<inUse, pendingUpdates, cache, tReq, fill>>

\* PostgreSQL aborts one of the transactions that wait for each other in a
\* cycle: two of them, or three, for a year has three rows to hold.
WaitsFor(h, g) ==
    \/ /\ h \in TrimesterHandlers /\ tReq[h].pc = "write"
       /\ rowLock[tReq[h].year][Wanted(h)] = g
    \/ /\ h \in YearHandlers /\ yReq[h].pc = "removing" /\ Unheld(h) # {}
       /\ rowLock[yReq[h].year][NextRow(h)] = g
Deadlocked(h) ==
    \E g, k \in YearHandlers \cup TrimesterHandlers :
        /\ WaitsFor(h, g)
        /\ WaitsFor(g, h) \/ (WaitsFor(g, k) /\ WaitsFor(k, h))

\* A transaction that outlives its time limit, whose connection drops or whose
\* process stops is rolled back; no invalidation of the cache follows either.
YearAborts(h) ==
    /\ ~Over(yReq[h])
    /\ years' = RolledBack(h)
    /\ advisory' = IF advisory = h THEN None ELSE advisory
    /\ rowLock' = Released(h)
    /\ yReq' = [yReq EXCEPT ![h] = [IdleYear EXCEPT !.pc = "failed"]]
    /\ UNCHANGED <<trimesters, inUse, pendingUpdates, cache, tReq, fill>>

RemoveDeadlock(h) == Deadlocked(h) /\ YearAborts(h)

\* invalidateCurrentAcademicYearCache, after every commit.
YearInvalidate_KeepsEntry(h) ==
    /\ yReq[h].pc = "invalidate"
    /\ yReq' = [yReq EXCEPT ![h] = IdleYear]
    /\ UNCHANGED <<db, locks, cache, tReq, fill>>
YearInvalidate(h) ==
    /\ yReq[h].pc = "invalidate"
    /\ cache' = None
    /\ yReq' = [yReq EXCEPT ![h] = IdleYear]
    /\ UNCHANGED <<db, locks, tReq, fill>>

-----------------------------------------------------------------------------
(***************************************************************************)
(* TrimestersService.update                                                *)
(***************************************************************************)

\* First read: the trimester with its year, and the checks on the two.
TrimesterRead(h) ==
    /\ Over(tReq[h])
    /\ \E y \in Years, o \in Orders, d \in TrimesterPatches :
          LET new == Patched(trimesters[y][o], d) IN
          /\ Exists(y)
          /\ new.start < new.end
          /\ new.start >= years[y].start /\ new.end <= years[y].end
          /\ d.open = TRUE => years[y].status = "ACTIVE"
          /\ tReq' = [tReq EXCEPT ![h] =
                [pc |-> "siblings", year |-> y, order |-> o, data |-> d,
                 start |-> new.start, end |-> new.end, closing |-> {}]]
    /\ UNCHANGED <<db, locks, cache, yReq, fill>>

\* Second read: the new dates do not run into the neighbours'.
FitsBetweenSiblings_EarlierOnly(y, o, start, end) ==
    \A s \in Orders : s < o => start >= trimesters[y][s].end
FitsBetweenSiblings(y, o, start, end) ==
    Exists(y) => \A s \in Orders \ {o} :
                    /\ s < o => start >= trimesters[y][s].end
                    /\ s > o => end <= trimesters[y][s].start

TrimesterSiblings(h) ==
    LET r == tReq[h] IN
    /\ r.pc = "siblings"
    /\ tReq' = [tReq EXCEPT ![h] =
          IF ~FitsBetweenSiblings(r.year, r.order, r.start, r.end)
          THEN IdleTrimester
          ELSE [r EXCEPT !.pc = IF r.data.open = TRUE THEN "closeOthers"
                                                      ELSE "write"]]
    /\ UNCHANGED <<db, locks, cache, yReq, fill>>

\* The where clause of updateMany: the other open trimesters of the year.
OtherOpen_EarlierOnly(y, o) == {s \in OpenOf(y) : s < o}
OtherOpen(y, o) == OpenOf(y) \ {o}

\* First statement of the transaction, when the trimester is to be opened:
\* updateMany finds the other open trimesters of the year ...
CloseOthers(h) ==
    LET r == tReq[h] IN
    /\ r.pc = "closeOthers"
    /\ tReq' = [tReq EXCEPT ![h].pc = "write",
                           ![h].closing = OtherOpen(r.year, r.order)]
    /\ UNCHANGED <<db, locks, cache, yReq, fill>>

\* ... and updates them row by row, passing over those closed meanwhile.
CloseOther(h) ==
    LET r == tReq[h]
        o == Wanted(h)
    IN  /\ r.pc = "write"
        /\ o # r.order
        /\ rowLock[r.year][o] = None
        /\ \/ /\ trimesters[r.year][o].open
              /\ rowLock' = [rowLock EXCEPT ![r.year][o] = h]
              /\ UNCHANGED tReq
           \/ /\ ~trimesters[r.year][o].open
              /\ tReq' = [tReq EXCEPT ![h].closing = @ \ {o}]
              /\ UNCHANGED rowLock
        /\ UNCHANGED <<db, advisory, cache, yReq, fill>>

\* Second statement and commit; a row deleted meanwhile fails the update.
TrimesterWrite(h) ==
    LET r == tReq[h] IN
    /\ r.pc = "write"
    /\ Wanted(h) = r.order
    /\ rowLock[r.year][r.order] = None
    /\ \/ /\ Exists(r.year)
          /\ trimesters' = [trimesters EXCEPT ![r.year] = [o \in Orders |->
                CASE o = r.order     -> Patched(@[o], r.data)
                  [] o \in r.closing -> [@[o] EXCEPT !.open = FALSE]
                  [] OTHER           -> @[o]]]
          /\ tReq' = [tReq EXCEPT ![h] = [IdleTrimester EXCEPT !.pc = "invalidate"]]
       \/ /\ ~Exists(r.year)
          /\ tReq' = [tReq EXCEPT ![h] = IdleTrimester]
          /\ UNCHANGED trimesters
    /\ rowLock' = Released(h)
    /\ UNCHANGED <<years, inUse, pendingUpdates, advisory, cache, yReq, fill>>

TrimesterAborts(h) ==
    /\ ~Over(tReq[h])
    /\ rowLock' = Released(h)
    /\ tReq' = [tReq EXCEPT ![h] = [IdleTrimester EXCEPT !.pc = "failed"]]
    /\ UNCHANGED <<db, advisory, cache, yReq, fill>>

DeadlockAbort(h) == Deadlocked(h) /\ TrimesterAborts(h)

TrimesterInvalidate(h) ==
    /\ tReq[h].pc = "invalidate"
    /\ cache' = None
    /\ tReq' = [tReq EXCEPT ![h] = IdleTrimester]
    /\ UNCHANGED <<db, locks, yReq, fill>>

-----------------------------------------------------------------------------
(***************************************************************************)
(* AcademicYearsService.findCurrentActive: get, query, set                 *)
(***************************************************************************)
FindMiss(r) ==
    /\ fill[r].pc = "idle"
    /\ cache = None
    /\ fill' = [fill EXCEPT ![r].pc = "query"]
    /\ UNCHANGED <<db, locks, cache, yReq, tReq>>

FindQuery(r) ==
    /\ fill[r].pc = "query"
    /\ \/ /\ ActiveYears = {}
          /\ fill' = [fill EXCEPT ![r] = IdleReader]
       \/ \E y \in ActiveYears :
             fill' = [fill EXCEPT ![r] =
                [pc |-> "store", current |-> [year |-> y, open |-> OpenOf(y)]]]
    /\ UNCHANGED <<db, locks, cache, yReq, tReq>>

FindStore(r) ==
    /\ fill[r].pc = "store"
    /\ cache' = fill[r].current
    /\ fill' = [fill EXCEPT ![r] = IdleReader]
    /\ UNCHANGED <<db, locks, yReq, tReq>>

\* The entry is stored with a time to live.
CacheExpires ==
    /\ cache # None
    /\ cache' = None
    /\ UNCHANGED <<db, locks, yReq, tReq, fill>>

(***************************************************************************)
(* The rest of the API: classrooms and enrollments come and go, families   *)
(* submit data updates and the secretary resolves them.                    *)
(***************************************************************************)
OtherServices ==
    /\ \E y \in Years :
          /\ Exists(y)
          /\ \/ /\ ~pendingUpdates[y]
                /\ inUse' = [inUse EXCEPT ![y] = ~@]
                /\ UNCHANGED pendingUpdates
             \/ /\ inUse[y]
                /\ pendingUpdates' = [pendingUpdates EXCEPT ![y] = ~@]
                /\ UNCHANGED inUse
    /\ UNCHANGED <<years, trimesters, locks, cache, yReq, tReq, fill>>

-----------------------------------------------------------------------------
YearStep(h) == \/ CreateBegin(h) \/ CreateCommit(h)
               \/ UpdateBegin(h) \/ UpdateCommit(h)
               \/ RemoveBegin(h) \/ RemoveRow(h) \/ RemoveCommit(h)
               \/ RemoveDeadlock(h) \/ YearInvalidate(h)

TrimesterStep(h) == \/ TrimesterSiblings(h)
                    \/ CloseOthers(h) \/ CloseOther(h)
                    \/ TrimesterWrite(h) \/ DeadlockAbort(h)
                    \/ TrimesterInvalidate(h)

FindStep(r) == FindQuery(r) \/ FindStore(r)

Next ==
    \/ \E h \in YearHandlers :
          \/ CreateCheck(h) \/ UpdateRequest(h) \/ RemoveRequest(h)
          \/ YearStep(h) \/ YearAborts(h)
    \/ \E h \in TrimesterHandlers :
          TrimesterRead(h) \/ TrimesterStep(h) \/ TrimesterAborts(h)
    \/ \E r \in Readers : FindMiss(r) \/ FindStep(r)
    \/ CacheExpires
    \/ OtherServices

Spec == Init /\ [][Next]_vars

\* A request that has started goes on.  PostgreSQL serves the waiters of a
\* lock in order, hence strong fairness for the steps that wait for one.
Fairness ==
    /\ \A h \in YearHandlers : SF_vars(YearStep(h))
    /\ \A h \in TrimesterHandlers : SF_vars(TrimesterStep(h))

FairSpec == Spec /\ Fairness

-----------------------------------------------------------------------------
(***************************************************************************)
(* Properties                                                              *)
(***************************************************************************)

\* At no time are two academic years ACTIVE, however the create and update
\* requests interleave: deactivateOtherActiveYears and the write that makes a
\* year active are two statements, and only the advisory lock joins them.  A
\* migration adds a partial unique index on the status ACTIVE, which schema.prisma
\* does not declare.  It is left out, so that this speaks of the lock: the lock
\* suffices, and hence the index never refuses a commit of this service.
AtMostOneActive ==
    \A y, z \in Years :
        years[y].status = "ACTIVE" /\ years[z].status = "ACTIVE" => y = z

\* A year ceases to be ACTIVE only when another one becomes ACTIVE in the same
\* commit or a request named that very year: a create that fails on a taken
\* number must not leave the school without its current year.
NoActiveYearLost ==
    [][\A y \in ActiveYears : y \notin ActiveYears' =>
          \/ ActiveYears' # {}
          \/ \E h \in YearHandlers :
                yReq[h].year = y /\ yReq[h].pc \in {"updateCommit", "removing"}]_vars

\* Every request of the calendar ends: none is left waiting for the advisory
\* lock or for the row lock of a trimester, deadlocks of two trimester
\* updates included.
EveryRequestEnds ==
    /\ \A h \in YearHandlers : ~Over(yReq[h]) ~> Over(yReq[h])
    /\ \A h \in TrimesterHandlers : ~Over(tReq[h]) ~> Over(tReq[h])

\* What findCurrentActive serves from the cache is the database's content.
CacheIsFresh ==
    cache # None => /\ years[cache.year].status = "ACTIVE"
                    /\ cache.open = OpenOf(cache.year)

InvalidationDue == \/ \E h \in YearHandlers : yReq[h].pc = "invalidate"
                   \/ \E h \in TrimesterHandlers : tReq[h].pc = "invalidate"
EntryIsAccountedFor == CacheIsFresh \/ InvalidationDue

\* A reader stores what it read; a request dies between commit and invalidation.
EntryIsStored == \E r \in Readers : fill[r].pc = "store" /\ fill'[r].pc = "idle"
InvalidationLost ==
    \/ \E h \in YearHandlers : yReq[h].pc = "invalidate" /\ yReq'[h].pc = "failed"
    \/ \E h \in TrimesterHandlers : tReq[h].pc = "invalidate" /\ tReq'[h].pc = "failed"

\* An entry that a write of years or trimesters makes stale is always followed
\* by an invalidation, which comes after the commit and takes it away.  Only two
\* events leave a stale entry for its time to live: a slow reader stores what
\* it read before the write, or the request dies before it invalidates.
StaleOnlyByRaceOrCrash ==
    [][EntryIsAccountedFor =>
          EntryIsAccountedFor' \/ EntryIsStored \/ InvalidationLost]_vars

\* At most one trimester of a year is open.  One editor at a time keeps this;
\* two concurrent editors do not (each closes only the trimesters it sees).
AtMostOneOpen ==
    \A y \in Years : \A o, s \in OpenOf(y) : o = s

\* Trimesters follow one another: a later one never starts before the end of
\* an earlier one, whatever sequence of updates one editor makes.
TrimestersOrdered ==
    \A y \in Years : \A o, s \in Orders :
        Exists(y) /\ o < s => trimesters[y][o].end <= trimesters[y][s].start

\* "Impide cerrar un año si existen trimestres abiertos o rectificaciones
\* pendientes": a year becomes CLOSED only in a state where it can be closed.
ClosingIsGuarded ==
    [][\A y \in Years :
          years[y].status # "CLOSED" /\ years'[y].status = "CLOSED"
             /\ Exists(y) => CanClose(y)]_vars
=============================================================================
