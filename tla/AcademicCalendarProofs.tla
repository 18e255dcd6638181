----------------------- MODULE AcademicCalendarProofs -----------------------
(***************************************************************************)
(* Theorems about AcademicCalendar, for any number of years, of concurrent *)
(* requests and of days, and any request bodies.                           *)
(*                                                                         *)
(* AtMostOneActive is not inductive: between the statement that closes the *)
(* active years and the commit, only the advisory lock keeps another year  *)
(* from becoming active.  The strengthening says who holds the lock        *)
(* (LockHeld) and what its holder has already seen to (OthersClosing).     *)
(* Lifecycle says which years exist while a request is under way.          *)
(***************************************************************************)
EXTENDS AcademicCalendar, TLAPS

\* What a request carries at each point of its course.
RequestsOK ==
    /\ \A h \in YearHandlers :
          /\ yReq[h].pc \in {"create", "createCommit"} =>
                /\ yReq[h].year \in Years
                /\ yReq[h].data \in NewYears
                /\ yReq[h].data.start < yReq[h].data.end
          /\ yReq[h].pc \in {"update", "updateCommit"} =>
                /\ yReq[h].year \in Years
                /\ yReq[h].data \in YearPatches
          /\ yReq[h].pc \in {"remove", "removing"} => yReq[h].year \in Years
    /\ \A h \in TrimesterHandlers :
          tReq[h].pc \in {"siblings", "closeOthers", "write"} =>
             /\ tReq[h].year \in Years
             /\ tReq[h].data \in TrimesterPatches

\* A transaction past acquireConcurrencyLock holds the advisory lock.
LockHeld ==
    \A h \in YearHandlers :
        yReq[h].pc \in {"createCommit", "updateCommit", "removing"}
            => advisory = h

\* A transaction about to make its year active is closing all the others.
OthersClosing ==
    \A h \in YearHandlers :
        yReq[h].pc \in {"createCommit", "updateCommit"}
           /\ yReq[h].data.status = "ACTIVE"
        => ActiveYears \subseteq yReq[h].closing \cup {yReq[h].year}

TypeInv == TypeOK /\ RequestsOK

-----------------------------------------------------------------------------
(***************************************************************************)
(* Helpers of the model                                                    *)
(***************************************************************************)

\* A patched row of academic_years is one, with the fields given replaced.
LEMMA PatchedYear ==
    ASSUME NEW row \in YearRow, NEW d \in YearPatch
    PROVE  /\ Patched(row, d) \in YearRow
           /\ Patched(row, d).status =
                 IF d.status = None THEN row.status ELSE d.status
  BY CalendarAssumption DEF Patched, YearRow, YearPatch, Status, Days

\* A patched trimester is a trimester.
LEMMA PatchedTrimester ==
    ASSUME NEW row \in TrimesterRow, NEW d \in TrimesterPatch
    PROVE  Patched(row, d) \in TrimesterRow
  BY CalendarAssumption DEF Patched, TrimesterRow, TrimesterPatch, Days

\* The default trimesters of a year that starts before it ends are dates of
\* the calendar.
LEMMA DefaultTrimestersType ==
    ASSUME NEW start \in Days, NEW end \in Days, start < end
    PROVE  DefaultTrimesters(start, end) \in [Orders -> TrimesterRow]
  <1> DEFINE d == end - start
             cut == [o \in 0..3 |->
                        IF o = 3 THEN end ELSE start + (o * d) \div 3]
  <1>1. /\ cut[0] = start
        /\ cut[1] = start + d \div 3
        /\ cut[2] = start + (2 * d) \div 3
        /\ cut[3] = end
    BY CalendarAssumption DEF Days
  <1>2. \A o \in Orders : /\ cut[o] \in Days
                          /\ o # 1 => cut[o - 1] + 1 \in Days
    BY <1>1, CalendarAssumption DEF Days, Orders
  <1> HIDE DEF cut
  <1>3. \A o \in Orders :
           [open |-> FALSE, end |-> cut[o],
            start |-> IF o = 1 THEN start ELSE cut[o - 1] + 1] \in TrimesterRow
    BY <1>2 DEF TrimesterRow
  <1>4. DefaultTrimesters(start, end) =
           [o \in Orders |-> [open |-> FALSE, end |-> cut[o],
               start |-> IF o = 1 THEN start ELSE cut[o - 1] + 1]]
    BY DEF DefaultTrimesters, cut
  <1> QED BY <1>3, <1>4

-----------------------------------------------------------------------------
(***************************************************************************)
(* Type correctness                                                        *)
(***************************************************************************)
\* The idle and initial records have the type of their place.
LEMMA IdleTypes ==
    /\ IdleYear \in YearRequest
    /\ [IdleYear EXCEPT !.pc = "invalidate"] \in YearRequest
    /\ [IdleYear EXCEPT !.pc = "failed"] \in YearRequest
    /\ IdleTrimester \in TrimesterRequest
    /\ [IdleTrimester EXCEPT !.pc = "invalidate"] \in TrimesterRequest
    /\ [IdleTrimester EXCEPT !.pc = "failed"] \in TrimesterRequest
    /\ NoYear \in YearRow
    /\ NoTrimesters \in [Orders -> TrimesterRow]
  BY CalendarAssumption DEF IdleYear, IdleTrimester, NoYear, NoTrimesters,
     YearRow, TrimesterRow, YearRequest, TrimesterRequest, Orders, Days

\* Rows stay rows when a transaction commits.
LEMMA CommittedType ==
    ASSUME TypeOK, NEW h \in YearHandlers, NEW row \in YearRow
    PROVE  Committed(h, row) \in [Years -> YearRow]
  <1>1. ASSUME NEW y \in Years
        PROVE  [years[y] EXCEPT !.status = "CLOSED"] \in YearRow
    <2>1. years[y] \in YearRow
      BY DEF TypeOK
    <2> QED BY <2>1 DEF YearRow, Status
  <1> QED BY <1>1 DEF TypeOK, Committed

\* A request that ends, or has only the cache left to invalidate, carries
\* nothing.
LEMMA YearRequestEnds ==
    ASSUME TypeInv, NEW h \in YearHandlers,
           NEW r \in {IdleYear, [IdleYear EXCEPT !.pc = "invalidate"],
                     [IdleYear EXCEPT !.pc = "failed"]},
           yReq' = [yReq EXCEPT ![h] = r], UNCHANGED tReq
    PROVE  yReq' \in [YearHandlers -> YearRequest] /\ RequestsOK'
  <1>1. r \in YearRequest
    BY IdleTypes
  <1>2. r.pc \in {"idle", "invalidate", "failed"}
    BY DEF IdleYear
  <1> QED BY <1>1, <1>2 DEF TypeInv, TypeOK, RequestsOK

LEMMA TrimesterRequestEnds ==
    ASSUME TypeInv, NEW h \in TrimesterHandlers,
           NEW r \in {IdleTrimester, [IdleTrimester EXCEPT !.pc = "invalidate"],
                     [IdleTrimester EXCEPT !.pc = "failed"]},
           tReq' = [tReq EXCEPT ![h] = r], UNCHANGED yReq
    PROVE  tReq' \in [TrimesterHandlers -> TrimesterRequest] /\ RequestsOK'
  <1>1. r \in TrimesterRequest
    BY IdleTypes
  <1>2. r.pc \in {"idle", "invalidate", "failed"}
    BY DEF IdleTrimester
  <1> QED BY <1>1, <1>2 DEF TypeInv, TypeOK, RequestsOK

\* A trimester update goes on with the same trimester and body.
LEMMA TrimesterRequestGoesOn ==
    ASSUME TypeInv, NEW h \in TrimesterHandlers, NEW r \in TrimesterRequest,
           tReq[h].pc \in {"siblings", "closeOthers", "write"},
           r.year = tReq[h].year, r.data = tReq[h].data,
           tReq' = [tReq EXCEPT ![h] = r], UNCHANGED yReq
    PROVE  tReq' \in [TrimesterHandlers -> TrimesterRequest] /\ RequestsOK'
  <1>1. r.year \in Years /\ r.data \in TrimesterPatches
    BY DEF TypeInv, RequestsOK
  <1> QED BY <1>1 DEF TypeInv, TypeOK, RequestsOK

\* The initial state is well typed.
LEMMA TypeInit == Init => TypeInv
  <1> SUFFICES ASSUME Init PROVE TypeInv
    OBVIOUS
  <1>1. TypeOK
    BY IdleTypes, CalendarAssumption DEF Init, TypeOK, IdleReader
  <1>2. RequestsOK
    BY DEF Init, RequestsOK, IdleYear, IdleTrimester
  <1> QED BY <1>1, <1>2 DEF TypeInv

LEMMA TypeNext == TypeInv /\ [Next]_vars => TypeInv'
  <1> SUFFICES ASSUME TypeInv, [Next]_vars PROVE TypeInv'
    OBVIOUS
  <1> USE CalendarAssumption
  <1>1. ASSUME NEW h \in YearHandlers, CreateCheck(h) PROVE TypeInv'
    <2>1. PICK y \in Years, d \in NewYears :
          /\ d.start < d.end
          /\ yReq' = [yReq EXCEPT ![h] =
                [pc |-> "create", year |-> y, data |-> d, closing |-> {}]]
      BY <1>1 DEF CreateCheck
    <2>2. [pc |-> "create", year |-> y, data |-> d, closing |-> {}] \in YearRequest
      BY DEF YearRequest
    <2>3. TypeOK'
      BY <1>1, <2>1, <2>2 DEF CreateCheck, TypeInv, TypeOK, db, locks
    <2>4. RequestsOK'
      BY <1>1, <2>1 DEF CreateCheck, TypeInv, TypeOK, RequestsOK
    <2> QED BY <2>3, <2>4 DEF TypeInv
  <1>2. ASSUME NEW h \in YearHandlers, CreateBegin(h) PROVE TypeInv'
    <2> DEFINE c == IF yReq[h].data.status = "ACTIVE" THEN ActiveYears ELSE {}
               r == [yReq[h] EXCEPT !.pc = "createCommit", !.closing = c]
    <2>1. yReq' = [yReq EXCEPT ![h] = r] /\ yReq[h] \in YearRequest
      BY <1>2 DEF CreateBegin, TypeInv, TypeOK
    <2>2. c \in SUBSET Years
      BY DEF ActiveYears
    <2>3. r \in YearRequest
      BY <2>1, <2>2 DEF YearRequest
    <2>4. TypeOK'
      BY <1>2, <2>1, <2>3 DEF CreateBegin, TypeInv, TypeOK, db
    <2>5. RequestsOK'
      BY <1>2, <2>1 DEF CreateBegin, TypeInv, TypeOK, RequestsOK, YearRequest
    <2> QED BY <2>4, <2>5 DEF TypeInv
  <1>3. ASSUME NEW h \in YearHandlers, CreateCommit(h) PROVE TypeInv'
    <2> DEFINE y == yReq[h].year
               d == yReq[h].data
               row == Patched([NoYear EXCEPT !.status = "PLANNING"], d)
    <2>1. y \in Years /\ d \in NewYears /\ d.start < d.end
      BY <1>3 DEF CreateCommit, FreesAdvisory, TypeInv, RequestsOK
    <2>2. d \in YearPatch /\ d.start \in Days /\ d.end \in Days
      BY <2>1 DEF YearPatch
    <2>3. row \in YearRow
      <3>1. [NoYear EXCEPT !.status = "PLANNING"] \in YearRow
        BY DEF NoYear, YearRow, Status, Days
      <3> QED BY <3>1, <2>2, PatchedYear
    <2>4. /\ years' \in [Years -> YearRow]
          /\ trimesters' \in [Years -> [Orders -> TrimesterRow]]
      <3>1. CASE NumberTaken(d.number, y)
        BY <1>3, <3>1 DEF CreateCommit, FreesAdvisory, TypeInv, TypeOK, RolledBack
      <3>2. CASE ~NumberTaken(d.number, y)
        <4>1. years' = Committed(h, row)
          BY <1>3, <3>2 DEF CreateCommit, FreesAdvisory
        <4>2. trimesters' = [trimesters EXCEPT ![y] =
                               DefaultTrimesters(d.start, d.end)]
          BY <1>3, <3>2 DEF CreateCommit, FreesAdvisory
        <4>3. DefaultTrimesters(d.start, d.end) \in [Orders -> TrimesterRow]
          BY <2>1, <2>2, DefaultTrimestersType
        <4> QED BY <4>1, <4>2, <4>3, <2>3, CommittedType DEF TypeInv, TypeOK
      <3> QED BY <3>1, <3>2
    <2>5. yReq' \in [YearHandlers -> YearRequest] /\ RequestsOK'
      BY <1>3, YearRequestEnds DEF CreateCommit, FreesAdvisory
    <2> QED BY <1>3, <2>4, <2>5 DEF CreateCommit, FreesAdvisory, TypeInv, TypeOK
  <1>4. ASSUME NEW h \in YearHandlers, UpdateRequest(h) PROVE TypeInv'
    <2>1. PICK y \in Years, d \in YearPatches :
          yReq' = [yReq EXCEPT ![h] =
             [pc |-> "update", year |-> y, data |-> d, closing |-> {}]]
      BY <1>4 DEF UpdateRequest
    <2>2. [pc |-> "update", year |-> y, data |-> d, closing |-> {}] \in YearRequest
      BY DEF YearRequest
    <2>3. TypeOK'
      BY <1>4, <2>1, <2>2 DEF UpdateRequest, TypeInv, TypeOK, db, locks
    <2>4. RequestsOK'
      BY <1>4, <2>1 DEF UpdateRequest, TypeInv, TypeOK, RequestsOK
    <2> QED BY <2>3, <2>4 DEF TypeInv
  <1>5. ASSUME NEW h \in YearHandlers, UpdateBegin(h) PROVE TypeInv'
    <2> DEFINE y == yReq[h].year
               d == yReq[h].data
               c == IF d.status = "ACTIVE" /\ years[y].status # "ACTIVE"
                    THEN ActiveYears \ {y} ELSE {}
               r == [yReq[h] EXCEPT !.pc = "updateCommit", !.closing = c]
    <2>1. CASE UpdateAllowed(y, d)
      <3>1. yReq' = [yReq EXCEPT ![h] = r] /\ yReq[h] \in YearRequest
        BY <1>5, <2>1 DEF UpdateBegin, TypeInv, TypeOK
      <3>2. c \in SUBSET Years
        BY DEF ActiveYears
      <3>3. r \in YearRequest
        BY <3>1, <3>2 DEF YearRequest
      <3>4. TypeOK'
        BY <1>5, <2>1, <3>1, <3>3 DEF UpdateBegin, TypeInv, TypeOK, db
      <3>5. RequestsOK'
        BY <1>5, <3>1 DEF UpdateBegin, TypeInv, RequestsOK, YearRequest
      <3> QED BY <3>4, <3>5 DEF TypeInv
    <2>2. CASE ~UpdateAllowed(y, d)
      <3>1. yReq' \in [YearHandlers -> YearRequest] /\ RequestsOK'
        BY <1>5, <2>2, YearRequestEnds DEF UpdateBegin
      <3> QED BY <1>5, <2>2, <3>1 DEF UpdateBegin, TypeInv, TypeOK, db
    <2> QED BY <2>1, <2>2
  <1>6. ASSUME NEW h \in YearHandlers, UpdateCommit(h) PROVE TypeInv'
    <2>1. yReq[h].year \in Years /\ yReq[h].data \in YearPatch
      BY <1>6 DEF UpdateCommit, FreesAdvisory, TypeInv, RequestsOK
    <2>2. Patched(years[yReq[h].year], yReq[h].data) \in YearRow
      BY <2>1, PatchedYear DEF TypeInv, TypeOK
    <2>3. years' \in [Years -> YearRow]
      BY <1>6, <2>2, CommittedType DEF UpdateCommit, FreesAdvisory, TypeInv
    <2>4. yReq' \in [YearHandlers -> YearRequest] /\ RequestsOK'
      BY <1>6, YearRequestEnds DEF UpdateCommit, FreesAdvisory
    <2> QED BY <1>6, <2>3, <2>4 DEF UpdateCommit, FreesAdvisory, TypeInv, TypeOK
  <1>7. ASSUME NEW h \in YearHandlers, RemoveRequest(h) PROVE TypeInv'
    <2>1. PICK y \in Years : yReq' = [yReq EXCEPT ![h] =
             [IdleYear EXCEPT !.pc = "remove", !.year = y]]
      BY <1>7 DEF RemoveRequest
    <2>2. [IdleYear EXCEPT !.pc = "remove", !.year = y] \in YearRequest
      BY DEF YearRequest, IdleYear
    <2>3. TypeOK'
      BY <1>7, <2>1, <2>2 DEF RemoveRequest, TypeInv, TypeOK, db, locks
    <2>4. RequestsOK'
      BY <1>7, <2>1 DEF RemoveRequest, TypeInv, TypeOK, RequestsOK, IdleYear
    <2> QED BY <2>3, <2>4 DEF TypeInv
  <1>8. ASSUME NEW h \in YearHandlers, RemoveBegin(h) PROVE TypeInv'
    <2>1. CASE inUse[yReq[h].year]
      <3>1. yReq' \in [YearHandlers -> YearRequest] /\ RequestsOK'
        BY <1>8, <2>1, YearRequestEnds DEF RemoveBegin
      <3> QED BY <1>8, <2>1, <3>1 DEF RemoveBegin, TypeInv, TypeOK, db
    <2>2. CASE ~inUse[yReq[h].year]
      <3>1. /\ yReq' = [yReq EXCEPT ![h] = [yReq[h] EXCEPT !.pc = "removing"]]
            /\ yReq[h] \in YearRequest
        BY <1>8, <2>2 DEF RemoveBegin, TypeInv, TypeOK
      <3>2. [yReq[h] EXCEPT !.pc = "removing"] \in YearRequest
        BY <3>1 DEF YearRequest
      <3>3. TypeOK'
        BY <1>8, <2>2, <3>1, <3>2 DEF RemoveBegin, TypeInv, TypeOK, db
      <3>4. RequestsOK'
        BY <1>8, <3>1 DEF RemoveBegin, TypeInv, RequestsOK, YearRequest
      <3> QED BY <3>3, <3>4 DEF TypeInv
    <2> QED BY <2>1, <2>2
  <1>9. ASSUME NEW h \in YearHandlers, RemoveRow(h) PROVE TypeInv'
    BY <1>9 DEF RemoveRow, TypeInv, TypeOK, RequestsOK, db
  <1>10. ASSUME NEW h \in YearHandlers, RemoveCommit(h) PROVE TypeInv'
    <2>1. years' \in [Years -> YearRow]
      <3>1. [NoYear EXCEPT !.status = "REMOVED"] \in YearRow
        BY DEF NoYear, YearRow, Days
      <3> QED BY <1>10, <3>1 DEF RemoveCommit, FreesAdvisory, TypeInv, TypeOK
    <2>2. trimesters' \in [Years -> [Orders -> TrimesterRow]]
      BY <1>10, IdleTypes DEF RemoveCommit, FreesAdvisory, TypeInv, TypeOK
    <2>3. yReq' \in [YearHandlers -> YearRequest] /\ RequestsOK'
      BY <1>10, YearRequestEnds DEF RemoveCommit, FreesAdvisory
    <2> QED BY <1>10, <2>1, <2>2, <2>3 DEF RemoveCommit, FreesAdvisory, Released, TypeInv, TypeOK
  <1>11. ASSUME NEW h \in YearHandlers, YearAborts(h) PROVE TypeInv'
    <2>1. yReq' \in [YearHandlers -> YearRequest] /\ RequestsOK'
      BY <1>11, YearRequestEnds DEF YearAborts
    <2> QED BY <1>11, <2>1 DEF YearAborts, RolledBack, Released, TypeInv, TypeOK
  <1>12. ASSUME NEW h \in YearHandlers, YearInvalidate(h) PROVE TypeInv'
    <2>1. yReq' \in [YearHandlers -> YearRequest] /\ RequestsOK'
      BY <1>12, YearRequestEnds DEF YearInvalidate
    <2> QED BY <1>12, <2>1 DEF YearInvalidate, TypeInv, TypeOK, db, locks
  <1>13. ASSUME NEW h \in TrimesterHandlers, TrimesterRead(h) PROVE TypeInv'
    <2>1. PICK y \in Years, o \in Orders, d \in TrimesterPatches :
             tReq' = [tReq EXCEPT ![h] =
                [pc |-> "siblings", year |-> y, order |-> o, data |-> d,
                 start |-> Patched(trimesters[y][o], d).start,
                 end |-> Patched(trimesters[y][o], d).end, closing |-> {}]]
      BY <1>13 DEF TrimesterRead
    <2> DEFINE new == Patched(trimesters[y][o], d)
               r == [pc |-> "siblings", year |-> y, order |-> o, data |-> d,
                     start |-> new.start, end |-> new.end, closing |-> {}]
    <2>2. new \in TrimesterRow
      BY PatchedTrimester DEF TypeInv, TypeOK
    <2>3. r \in TrimesterRequest
      BY <2>2 DEF TrimesterRequest, TrimesterRow
    <2>4. TypeOK'
      BY <1>13, <2>1, <2>3 DEF TrimesterRead, TypeInv, TypeOK, db, locks
    <2>5. RequestsOK'
      BY <1>13, <2>1 DEF TrimesterRead, TypeInv, TypeOK, RequestsOK
    <2> QED BY <2>4, <2>5 DEF TypeInv
  <1>14. ASSUME NEW h \in TrimesterHandlers, TrimesterSiblings(h) PROVE TypeInv'
    <2> DEFINE r == tReq[h]
               next == [r EXCEPT !.pc = IF r.data.open = TRUE THEN "closeOthers"
                                                              ELSE "write"]
    <2>1. CASE ~FitsBetweenSiblings(r.year, r.order, r.start, r.end)
      <3>1. tReq' \in [TrimesterHandlers -> TrimesterRequest] /\ RequestsOK'
        BY <1>14, <2>1, TrimesterRequestEnds DEF TrimesterSiblings
      <3> QED BY <1>14, <3>1 DEF TrimesterSiblings, TypeInv, TypeOK, db, locks
    <2>2. CASE FitsBetweenSiblings(r.year, r.order, r.start, r.end)
      <3>1. tReq' = [tReq EXCEPT ![h] = next] /\ r \in TrimesterRequest
        BY <1>14, <2>2 DEF TrimesterSiblings, TypeInv, TypeOK
      <3>2. /\ next \in TrimesterRequest
            /\ next.year = r.year /\ next.data = r.data
        BY <3>1 DEF TrimesterRequest
      <3>3. tReq' \in [TrimesterHandlers -> TrimesterRequest] /\ RequestsOK'
        BY <1>14, <3>1, <3>2, TrimesterRequestGoesOn DEF TrimesterSiblings
      <3> QED BY <1>14, <3>3 DEF TrimesterSiblings, TypeInv, TypeOK, db, locks
    <2> QED BY <2>1, <2>2
  <1>15. ASSUME NEW h \in TrimesterHandlers, CloseOthers(h) PROVE TypeInv'
    <2> DEFINE c == OtherOpen(tReq[h].year, tReq[h].order)
               r == [tReq[h] EXCEPT !.pc = "write", !.closing = c]
    <2>1. tReq' = [tReq EXCEPT ![h] = r] /\ tReq[h] \in TrimesterRequest
      BY <1>15 DEF CloseOthers, TypeInv, TypeOK
    <2>2. c \in SUBSET Orders
      BY DEF OtherOpen, OpenOf
    <2>3. r \in TrimesterRequest /\ r.year = tReq[h].year /\ r.data = tReq[h].data
      BY <2>1, <2>2 DEF TrimesterRequest
    <2>4. tReq' \in [TrimesterHandlers -> TrimesterRequest] /\ RequestsOK'
      BY <1>15, <2>1, <2>3, TrimesterRequestGoesOn DEF CloseOthers
    <2> QED BY <1>15, <2>4 DEF CloseOthers, TypeInv, TypeOK, db, locks
  <1>16. ASSUME NEW h \in TrimesterHandlers, CloseOther(h) PROVE TypeInv'
    <2> DEFINE o == Wanted(h)
               r == [tReq[h] EXCEPT !.closing = @ \ {o}]
    <2>1. CASE trimesters[tReq[h].year][o].open
      <3>1. rowLock' = [rowLock EXCEPT ![tReq[h].year][o] = h] /\ UNCHANGED tReq
        BY <1>16, <2>1 DEF CloseOther
      <3>2. TypeOK'
        BY <1>16, <3>1 DEF CloseOther, TypeInv, TypeOK, db
      <3>3. RequestsOK'
        BY <1>16, <3>1 DEF CloseOther, TypeInv, RequestsOK
      <3> QED BY <3>2, <3>3 DEF TypeInv
    <2>2. CASE ~trimesters[tReq[h].year][o].open
      <3>1. /\ tReq' = [tReq EXCEPT ![h] = r] /\ tReq[h] \in TrimesterRequest
            /\ UNCHANGED rowLock
        BY <1>16, <2>2 DEF CloseOther, TypeInv, TypeOK
      <3>2. r \in TrimesterRequest /\ r.year = tReq[h].year /\ r.data = tReq[h].data
        BY <3>1 DEF TrimesterRequest
      <3>3. tReq' \in [TrimesterHandlers -> TrimesterRequest] /\ RequestsOK'
        BY <1>16, <3>1, <3>2, TrimesterRequestGoesOn DEF CloseOther
      <3> QED BY <1>16, <3>1, <3>3 DEF CloseOther, TypeInv, TypeOK, db
    <2> QED BY <2>1, <2>2
  <1>17. ASSUME NEW h \in TrimesterHandlers, TrimesterWrite(h) PROVE TypeInv'
    <2> DEFINE r == tReq[h]
    <2>1. r.year \in Years /\ r.data \in TrimesterPatch
      BY <1>17 DEF TrimesterWrite, TypeInv, RequestsOK
    <2>2. trimesters' \in [Years -> [Orders -> TrimesterRow]]
      <3>1. CASE Exists(r.year)
        <4> DEFINE row(o) == CASE o = r.order -> Patched(trimesters[r.year][o], r.data)
                   [] o \in r.closing -> [trimesters[r.year][o] EXCEPT !.open = FALSE]
                   [] OTHER           -> trimesters[r.year][o]
        <4>1. ASSUME NEW o \in Orders PROVE row(o) \in TrimesterRow
          <5>1. trimesters[r.year][o] \in TrimesterRow
            BY <2>1 DEF TypeInv, TypeOK
          <5>2. Patched(trimesters[r.year][o], r.data) \in TrimesterRow
            BY <2>1, <5>1, PatchedTrimester
          <5>3. [trimesters[r.year][o] EXCEPT !.open = FALSE] \in TrimesterRow
            BY <5>1 DEF TrimesterRow
          <5> QED BY <5>1, <5>2, <5>3
        <4>2. trimesters' = [trimesters EXCEPT ![r.year] = [o \in Orders |-> row(o)]]
          BY <1>17, <3>1, <2>1 DEF TrimesterWrite, TypeInv, TypeOK
        <4> HIDE DEF row
        <4> QED BY <4>1, <4>2 DEF TypeInv, TypeOK
      <3>2. CASE ~Exists(r.year)
        BY <1>17, <3>2 DEF TrimesterWrite, TypeInv, TypeOK
      <3> QED BY <3>1, <3>2
    <2>3. tReq' \in [TrimesterHandlers -> TrimesterRequest] /\ RequestsOK'
      BY <1>17, TrimesterRequestEnds DEF TrimesterWrite
    <2> QED BY <1>17, <2>2, <2>3 DEF TrimesterWrite, Released, TypeInv, TypeOK
  <1>18. ASSUME NEW h \in TrimesterHandlers, TrimesterAborts(h) PROVE TypeInv'
    <2>1. tReq' \in [TrimesterHandlers -> TrimesterRequest] /\ RequestsOK'
      BY <1>18, TrimesterRequestEnds DEF TrimesterAborts
    <2> QED BY <1>18, <2>1 DEF TrimesterAborts, Released, TypeInv, TypeOK, db
  <1>19. ASSUME NEW h \in TrimesterHandlers, TrimesterInvalidate(h) PROVE TypeInv'
    <2>1. tReq' \in [TrimesterHandlers -> TrimesterRequest] /\ RequestsOK'
      BY <1>19, TrimesterRequestEnds DEF TrimesterInvalidate
    <2> QED BY <1>19, <2>1 DEF TrimesterInvalidate, TypeInv, TypeOK, db, locks
  <1>20. ASSUME NEW r \in Readers, FindMiss(r) \/ FindStep(r) PROVE TypeInv'
    <2>1. CASE FindMiss(r)
      BY <2>1 DEF FindMiss, TypeInv, TypeOK, RequestsOK, db, locks
    <2>2. CASE FindQuery(r)
      BY <2>2 DEF FindQuery, ActiveYears, OpenOf, IdleReader, Current,
                  TypeInv, TypeOK, RequestsOK, db, locks
    <2>3. CASE FindStore(r)
      BY <2>3 DEF FindStore, IdleReader, TypeInv, TypeOK, RequestsOK, db, locks
    <2> QED BY <1>20, <2>1, <2>2, <2>3 DEF FindStep
  <1>21. CASE CacheExpires
    BY <1>21 DEF CacheExpires, TypeInv, TypeOK, RequestsOK, db, locks
  <1>22. CASE OtherServices
    BY <1>22 DEF OtherServices, TypeInv, TypeOK, RequestsOK, locks
  <1>23. CASE UNCHANGED vars
    BY <1>23 DEF vars, TypeInv, TypeOK, RequestsOK
  <1> QED
    BY <1>1, <1>2, <1>3, <1>4, <1>5, <1>6, <1>7, <1>8, <1>9, <1>10, <1>11,
       <1>12, <1>13, <1>14, <1>15, <1>16, <1>17, <1>18, <1>19, <1>20, <1>21,
       <1>22, <1>23 DEF Next, YearStep, TrimesterStep, RemoveDeadlock, DeadlockAbort

\* Every variable keeps its type: rows stay rows, whatever fields a request
\* leaves undefined, and a request carries what its next step will use.
THEOREM TypeCorrect == Spec => []TypeOK
  <1>1. TypeInv => TypeOK
    BY DEF TypeInv
  <1> QED BY <1>1, TypeInit, TypeNext, PTL DEF Spec

-----------------------------------------------------------------------------
(***************************************************************************)
(* One active year                                                         *)
(***************************************************************************)
Exclusion == LockHeld /\ OthersClosing /\ AtMostOneActive

\* Two transactions are never past the advisory lock together.
LEMMA LockExcludes ==
    ASSUME TypeInv, LockHeld, NEW h \in YearHandlers, NEW g \in YearHandlers,
           yReq[h].pc \in {"createCommit", "updateCommit", "removing"},
           yReq[g].pc \in {"createCommit", "updateCommit", "removing"}
    PROVE  g = h
  BY DEF LockHeld

\* While the lock is free no transaction holds it.
LEMMA FreeLock ==
    ASSUME LockHeld, AdvisoryFree, NEW h \in YearHandlers
    PROVE  yReq[h].pc \notin {"createCommit", "updateCommit", "removing"}
  BY CalendarAssumption DEF LockHeld, AdvisoryFree

\* A step of the trimester service, of a reader or of the rest of the API
\* touches nothing the exclusion is about.
LEMMA ExclusionStable ==
    ASSUME Exclusion, UNCHANGED <<years, yReq, advisory>>
    PROVE  Exclusion'
  BY DEF Exclusion, LockHeld, OthersClosing, AtMostOneActive, ActiveYears

\* So does a step of an academic-years request outside its transaction.
LEMMA ExclusionOutside ==
    ASSUME TypeInv, Exclusion, NEW h \in YearHandlers, NEW r \in YearRequest,
           r.pc \notin {"createCommit", "updateCommit", "removing"},
           yReq' = [yReq EXCEPT ![h] = r], UNCHANGED <<years, advisory>>
    PROVE  Exclusion'
  BY DEF Exclusion, LockHeld, OthersClosing, AtMostOneActive, ActiveYears,
         TypeInv, TypeOK

\* The end of a transaction releases the lock.  Whatever rows it leaves, one
\* of them active at most, no other transaction depends on them.
LEMMA ExclusionReleased ==
    ASSUME TypeInv, Exclusion, NEW h \in YearHandlers, NEW r \in YearRequest,
           yReq[h].pc \in {"createCommit", "updateCommit", "removing"},
           r.pc \in {"idle", "invalidate", "failed"},
           yReq' = [yReq EXCEPT ![h] = r], AtMostOneActive'
    PROVE  Exclusion'
  <1>1. ASSUME NEW g \in YearHandlers
        PROVE  yReq'[g].pc \notin {"createCommit", "updateCommit", "removing"}
    <2>1. CASE g = h
      BY <2>1 DEF TypeInv, TypeOK
    <2>2. CASE g # h
      BY <2>2, LockExcludes DEF Exclusion, TypeInv, TypeOK
    <2> QED BY <2>1, <2>2
  <1> QED BY <1>1 DEF Exclusion, LockHeld, OthersClosing

\* What the commit of a create or an update leaves active: its own year if
\* the request made it so, otherwise no more than was active before.
LEMMA CommitLeavesOneActive ==
    ASSUME TypeInv, Exclusion, NEW h \in YearHandlers, NEW row \in YearRow,
           yReq[h].pc \in {"createCommit", "updateCommit"},
           yReq[h].year \in Years,
           row.status = "ACTIVE" => \/ yReq[h].data.status = "ACTIVE"
                                    \/ years[yReq[h].year].status = "ACTIVE",
           years' = Committed(h, row)
    PROVE  AtMostOneActive'
  <1> DEFINE y == yReq[h].year
  <1>1. ASSUME NEW z \in Years, years'[z].status = "ACTIVE", z # y
        PROVE  years[z].status = "ACTIVE" /\ z \notin yReq[h].closing
    <2>1. years[z] \in YearRow
      BY DEF TypeInv, TypeOK
    <2>2. z \notin yReq[h].closing
      <3>1. [years[z] EXCEPT !.status = "CLOSED"].status = "CLOSED"
        BY <2>1 DEF YearRow
      <3> QED BY <1>1, <3>1 DEF Committed
    <2> QED BY <1>1, <2>2 DEF Committed
  <1>2. years'[y] = row
    BY DEF Committed
  <1>3. CASE yReq[h].data.status = "ACTIVE"
    <2>1. ActiveYears \subseteq yReq[h].closing \cup {y}
      BY <1>3 DEF Exclusion, OthersClosing
    <2>2. \A z \in Years : years'[z].status = "ACTIVE" => z = y
      BY <1>1, <2>1 DEF ActiveYears
    <2> QED BY <2>2 DEF AtMostOneActive
  <1>4. CASE yReq[h].data.status # "ACTIVE"
    <2>1. \A z \in Years : years'[z].status = "ACTIVE" => years[z].status = "ACTIVE"
      BY <1>1, <1>2, <1>4
    <2> QED BY <2>1 DEF Exclusion, AtMostOneActive
  <1> QED BY <1>3, <1>4

LEMMA ExclusionInit == Init => Exclusion
  BY DEF Init, Exclusion, LockHeld, OthersClosing, AtMostOneActive, IdleYear,
         NoYear

LEMMA ExclusionNext == TypeInv /\ Exclusion /\ [Next]_vars => Exclusion'
  <1> SUFFICES ASSUME TypeInv, Exclusion, [Next]_vars PROVE Exclusion'
    OBVIOUS
  <1>0. TypeInv'
    BY TypeNext
  <1>1. ASSUME NEW h \in YearHandlers,
               \/ CreateCheck(h) \/ UpdateRequest(h) \/ RemoveRequest(h)
               \/ YearInvalidate(h)
        PROVE  Exclusion'
    <2> DEFINE outside == {"create", "update", "remove", "idle"}
    <2>1. /\ yReq'[h].pc \in outside
          /\ yReq' = [yReq EXCEPT ![h] = yReq'[h]]
          /\ UNCHANGED <<years, advisory>>
      <3>0. yReq \in [YearHandlers -> YearRequest]
        BY DEF TypeInv, TypeOK
      <3>1. CASE CreateCheck(h)
        <4>1. PICK y \in Years, d \in NewYears :
                 yReq' = [yReq EXCEPT ![h] =
                   [pc |-> "create", year |-> y, data |-> d, closing |-> {}]]
          BY <3>1 DEF CreateCheck
        <4>2. UNCHANGED <<years, advisory>>
          BY <3>1 DEF CreateCheck, db, locks
        <4> QED BY <3>0, <4>1, <4>2
      <3>2. CASE UpdateRequest(h)
        <4>1. PICK y \in Years, d \in YearPatches :
                 yReq' = [yReq EXCEPT ![h] =
                   [pc |-> "update", year |-> y, data |-> d, closing |-> {}]]
          BY <3>2 DEF UpdateRequest
        <4>2. UNCHANGED <<years, advisory>>
          BY <3>2 DEF UpdateRequest, db, locks
        <4> QED BY <3>0, <4>1, <4>2
      <3>3. CASE RemoveRequest(h)
        <4>1. PICK y \in Years :
                 yReq' = [yReq EXCEPT ![h] =
                   [IdleYear EXCEPT !.pc = "remove", !.year = y]]
          BY <3>3 DEF RemoveRequest
        <4>2. [IdleYear EXCEPT !.pc = "remove", !.year = y].pc = "remove"
          BY DEF IdleYear
        <4>3. UNCHANGED <<years, advisory>>
          BY <3>3 DEF RemoveRequest, db, locks
        <4> QED BY <3>0, <4>1, <4>2, <4>3
      <3>4. CASE YearInvalidate(h)
        <4>1. yReq' = [yReq EXCEPT ![h] = IdleYear] /\ IdleYear.pc = "idle"
          BY <3>4 DEF YearInvalidate, IdleYear
        <4>2. UNCHANGED <<years, advisory>>
          BY <3>4 DEF YearInvalidate, db, locks
        <4> QED BY <3>0, <4>1, <4>2
      <3> QED BY <1>1, <3>1, <3>2, <3>3, <3>4
    <2> QED BY <1>0, <2>1, ExclusionOutside DEF TypeInv, TypeOK
  <1>2. ASSUME NEW h \in YearHandlers, CreateBegin(h) PROVE Exclusion'
    <2>1. \A g \in YearHandlers \ {h} :
             /\ yReq'[g].pc \notin {"createCommit", "updateCommit", "removing"}
      BY <1>2, FreeLock DEF CreateBegin, Exclusion, TypeInv, TypeOK
    <2>2. /\ yReq'[h].pc = "createCommit" /\ advisory' = h
          /\ yReq'[h].data.status = "ACTIVE" => yReq'[h].closing = ActiveYears
      BY <1>2 DEF CreateBegin, TypeInv, TypeOK, YearRequest
    <2>3. UNCHANGED years
      BY <1>2 DEF CreateBegin, db
    <2> QED BY <2>1, <2>2, <2>3 DEF Exclusion, LockHeld, OthersClosing,
                                   AtMostOneActive, ActiveYears
  <1>3. ASSUME NEW h \in YearHandlers, CreateCommit(h) PROVE Exclusion'
    <2> DEFINE d == yReq[h].data
               new == [NoYear EXCEPT !.status = "PLANNING"]
    <2>1. yReq[h].year \in Years /\ d \in YearPatch
      BY <1>3, CalendarAssumption DEF CreateCommit, FreesAdvisory, TypeInv, RequestsOK
    <2>2. AtMostOneActive'
      <3>1. CASE NumberTaken(d.number, yReq[h].year)
        BY <1>3, <3>1 DEF CreateCommit, FreesAdvisory, RolledBack, Exclusion, AtMostOneActive
      <3>2. CASE ~NumberTaken(d.number, yReq[h].year)
        <4>1. new \in YearRow /\ new.status = "PLANNING"
          BY CalendarAssumption DEF NoYear, YearRow, Status, Days
        <4>2. /\ Patched(new, d) \in YearRow
              /\ Patched(new, d).status = "ACTIVE" => d.status = "ACTIVE"
          BY <2>1, <4>1, PatchedYear
        <4>3. years' = Committed(h, Patched(new, d)) /\ yReq[h].pc = "createCommit"
          BY <1>3, <3>2 DEF CreateCommit, FreesAdvisory
        <4> QED BY <2>1, <4>2, <4>3, CommitLeavesOneActive
      <3> QED BY <3>1, <3>2
    <2>3. /\ yReq[h].pc = "createCommit"
          /\ yReq'[h].pc \in {"idle", "invalidate"}
          /\ yReq' = [yReq EXCEPT ![h] = yReq'[h]]
      BY <1>3 DEF CreateCommit, FreesAdvisory, IdleYear, TypeInv, TypeOK
    <2> QED BY <1>0, <2>2, <2>3, ExclusionReleased DEF TypeInv, TypeOK
  <1>4. ASSUME NEW h \in YearHandlers, UpdateBegin(h) PROVE Exclusion'
    <2> DEFINE y == yReq[h].year
               d == yReq[h].data
    <2>1. CASE UpdateAllowed(y, d)
      <3>1. \A g \in YearHandlers \ {h} :
               yReq'[g].pc \notin {"createCommit", "updateCommit", "removing"}
        BY <1>4, <2>1, FreeLock DEF UpdateBegin, Exclusion, TypeInv, TypeOK
      <3>2. /\ yReq'[h].pc = "updateCommit" /\ advisory' = h
            /\ yReq'[h].data = d /\ yReq'[h].year = y
            /\ d.status = "ACTIVE" /\ years[y].status # "ACTIVE"
                  => yReq'[h].closing = ActiveYears \ {y}
        BY <1>4, <2>1 DEF UpdateBegin, TypeInv, TypeOK, YearRequest
      <3>3. UNCHANGED years
        BY <1>4 DEF UpdateBegin, db
      <3>4. y \in Years
        BY <1>4 DEF UpdateBegin, TypeInv, RequestsOK
      <3>5. d.status = "ACTIVE" => ActiveYears \subseteq yReq'[h].closing \cup {y}
        BY <3>2, <3>4 DEF Exclusion, AtMostOneActive, ActiveYears
      <3> QED BY <3>1, <3>2, <3>3, <3>5 DEF Exclusion, LockHeld, OthersClosing,
                                           AtMostOneActive, ActiveYears
    <2>2. CASE ~UpdateAllowed(y, d)
      <3>1. /\ yReq' = [yReq EXCEPT ![h] = IdleYear] /\ IdleYear.pc = "idle"
            /\ UNCHANGED <<years, advisory>>
        BY <1>4, <2>2 DEF UpdateBegin, IdleYear, db
      <3> QED BY <3>1, IdleTypes, ExclusionOutside
    <2> QED BY <2>1, <2>2
  <1>5. ASSUME NEW h \in YearHandlers, UpdateCommit(h) PROVE Exclusion'
    <2> DEFINE y == yReq[h].year
               d == yReq[h].data
    <2>1. y \in Years /\ d \in YearPatch /\ years[y] \in YearRow
      BY <1>5, CalendarAssumption DEF UpdateCommit, FreesAdvisory, TypeInv, TypeOK, RequestsOK
    <2>2. /\ Patched(years[y], d) \in YearRow
          /\ Patched(years[y], d).status =
                IF d.status = None THEN years[y].status ELSE d.status
      BY <2>1, PatchedYear
    <2>3. /\ yReq[h].pc = "updateCommit"
          /\ years' = Committed(h, Patched(years[y], d))
          /\ yReq' = [yReq EXCEPT ![h] = [IdleYear EXCEPT !.pc = "invalidate"]]
      BY <1>5 DEF UpdateCommit, FreesAdvisory
    <2>4. AtMostOneActive'
      BY <2>1, <2>2, <2>3, CommitLeavesOneActive
    <2>5. [IdleYear EXCEPT !.pc = "invalidate"].pc = "invalidate"
      BY DEF IdleYear
    <2> QED BY <2>3, <2>4, <2>5, IdleTypes, ExclusionReleased
  <1>6. ASSUME NEW h \in YearHandlers, RemoveBegin(h) PROVE Exclusion'
    <2>1. \A g \in YearHandlers \ {h} :
             yReq'[g].pc \notin {"createCommit", "updateCommit", "removing"}
      BY <1>6, FreeLock DEF RemoveBegin, Exclusion, TypeInv, TypeOK
    <2>2. /\ UNCHANGED years
          /\ \/ yReq'[h].pc = "idle"
             \/ yReq'[h].pc = "removing" /\ advisory' = h
      BY <1>6 DEF RemoveBegin, IdleYear, TypeInv, TypeOK, YearRequest, db
    <2> QED BY <2>1, <2>2 DEF Exclusion, LockHeld, OthersClosing,
                             AtMostOneActive, ActiveYears
  <1>7. ASSUME NEW h \in YearHandlers, RemoveCommit(h) PROVE Exclusion'
    <2>1. /\ yReq[h].pc = "removing"
          /\ yReq'[h].pc \in {"idle", "invalidate"}
          /\ yReq' = [yReq EXCEPT ![h] = yReq'[h]]
      BY <1>7 DEF RemoveCommit, FreesAdvisory, IdleYear, TypeInv, TypeOK
    <2>2. \A z \in Years : years'[z].status = "ACTIVE" => years[z].status = "ACTIVE"
      <3>1. \/ UNCHANGED years
            \/ years' = [years EXCEPT ![yReq[h].year] =
                            [NoYear EXCEPT !.status = "REMOVED"]]
        BY <1>7 DEF RemoveCommit, FreesAdvisory
      <3>2. [NoYear EXCEPT !.status = "REMOVED"].status = "REMOVED"
        BY DEF NoYear
      <3>3. years \in [Years -> YearRow]
        BY DEF TypeInv, TypeOK
      <3> QED BY <3>1, <3>2, <3>3
    <2>3. AtMostOneActive'
      BY <2>2 DEF Exclusion, AtMostOneActive
    <2> QED BY <1>0, <2>1, <2>3, ExclusionReleased DEF TypeInv, TypeOK
  <1>12. ASSUME NEW h \in YearHandlers, YearAborts(h) PROVE Exclusion'
    <2> DEFINE holding == {"createCommit", "updateCommit", "removing"}
    <2>1. PICK r \in YearRequest : /\ yReq' = [yReq EXCEPT ![h] = r] /\ r.pc = "failed"
                                   /\ UNCHANGED years
      <3>1. [IdleYear EXCEPT !.pc = "failed"].pc = "failed"
        BY DEF IdleYear
      <3> QED BY <1>12, <3>1, IdleTypes DEF YearAborts, RolledBack
    <2>2. CASE yReq[h].pc \in holding
      <3>1. AtMostOneActive'
        BY <2>1 DEF Exclusion, AtMostOneActive
      <3> QED BY <2>1, <2>2, <3>1, ExclusionReleased
    <2>3. CASE yReq[h].pc \notin holding
      <3>1. \A g \in YearHandlers : yReq'[g].pc \in holding => g # h /\ yReq'[g] = yReq[g]
        BY <2>1 DEF TypeInv, TypeOK
      <3>2. \A g \in YearHandlers : g # h /\ yReq[g].pc \in holding => advisory' = g
        BY <1>12 DEF YearAborts, Exclusion, LockHeld
      <3> QED BY <2>1, <3>1, <3>2 DEF Exclusion, LockHeld, OthersClosing,
                                      AtMostOneActive, ActiveYears
    <2> QED BY <2>2, <2>3
  <1>8. ASSUME NEW h \in YearHandlers, RemoveRow(h) PROVE Exclusion'
    BY <1>8, ExclusionStable DEF RemoveRow, db
  <1>9. ASSUME NEW h \in TrimesterHandlers, TrimesterRead(h) \/ TrimesterStep(h)
                                            \/ TrimesterAborts(h)
        PROVE  Exclusion'
    BY <1>9, ExclusionStable DEF TrimesterRead, TrimesterStep, TrimesterSiblings,
       CloseOthers, CloseOther, TrimesterWrite, DeadlockAbort, TrimesterAborts,
       TrimesterInvalidate, db, locks
  <1>10. ASSUME NEW r \in Readers, FindMiss(r) \/ FindStep(r) PROVE Exclusion'
    BY <1>10, ExclusionStable DEF FindMiss, FindStep, FindQuery, FindStore, db, locks
  <1>11. CASE CacheExpires \/ OtherServices \/ UNCHANGED vars
    BY <1>11, ExclusionStable DEF CacheExpires, OtherServices, vars, db, locks
  <1> QED
    BY <1>1, <1>2, <1>3, <1>4, <1>5, <1>6, <1>7, <1>8, <1>9, <1>10, <1>11,
       <1>12 DEF Next, YearStep, RemoveDeadlock

\* At most one academic year is ACTIVE at any time, whatever the number of
\* concurrent create, update and remove requests: the advisory lock makes the
\* deactivation of the others and the activation of one a single step.
THEOREM OneActiveYear == Spec => []AtMostOneActive
  <1>1. Init => TypeInv /\ Exclusion
    BY TypeInit, ExclusionInit
  <1>2. TypeInv /\ Exclusion /\ [Next]_vars => (TypeInv /\ Exclusion)'
    BY TypeNext, ExclusionNext
  <1>3. Exclusion => AtMostOneActive
    BY DEF Exclusion
  <1> QED BY <1>1, <1>2, <1>3, PTL DEF Spec

-----------------------------------------------------------------------------
(***************************************************************************)
(* The life of a year                                                      *)
(***************************************************************************)
\* A year is created once, by one request; the years that a transaction closes
\* or updates are there until its commit, and it closes others only for the one
\* that it makes active.
Lifecycle ==
    /\ \A h \in YearHandlers : yReq[h].pc \in {"create", "createCommit"} =>
          /\ years[yReq[h].year].status = "UNCREATED"
          /\ \A g \in YearHandlers \ {h} :
                yReq[g].year = yReq[h].year => yReq[g].pc \notin {"create", "createCommit"}
    /\ \A h \in YearHandlers : yReq[h].pc = "updateCommit" => Exists(yReq[h].year)
    /\ \A h \in YearHandlers : yReq[h].pc \in {"createCommit", "updateCommit"} =>
          /\ \A z \in yReq[h].closing : Exists(z)
          /\ yReq[h].closing # {} => yReq[h].data.status = "ACTIVE"

\* What a commit does to the years other than its own.
SameLife(z) == /\ (Exists(z))' <=> Exists(z)
               /\ years'[z].status = "UNCREATED" <=> years[z].status = "UNCREATED"

LEMMA CommittedYears ==
    ASSUME TypeInv, Lifecycle, NEW h \in YearHandlers, NEW row \in YearRow,
           row.status \in Status, yReq[h].pc \in {"createCommit", "updateCommit"},
           yReq[h].year \in Years, years' = Committed(h, row)
    PROVE  /\ years'[yReq[h].year] = row
           /\ \A z \in Years \ {yReq[h].year} : SameLife(z)
           /\ \A z \in Years : ~(Exists(z))' => ~Exists(z)
           /\ \A z \in Years \ {yReq[h].year} :
                 years'[z].status # "ACTIVE" => years[z].status # "ACTIVE" \/ z \in yReq[h].closing
  <1>1. \A z \in Years : years'[z] = IF z = yReq[h].year THEN row
                                     ELSE IF z \in yReq[h].closing
                                          THEN [years[z] EXCEPT !.status = "CLOSED"]
                                          ELSE years[z]
    BY DEF Committed
  <1>2. \A z \in yReq[h].closing : years[z].status \in Status
    BY DEF Lifecycle, Exists
  <1>3. ASSUME NEW z \in Years \ {yReq[h].year}
        PROVE  /\ years'[z].status = IF z \in yReq[h].closing THEN "CLOSED" ELSE years[z].status
    <2>1. years[z] \in YearRow
      BY DEF TypeInv, TypeOK
    <2>2. [years[z] EXCEPT !.status = "CLOSED"].status = "CLOSED"
      BY <2>1 DEF YearRow
    <2> QED BY <1>1, <2>2
  <1>4. years'[yReq[h].year] = row
    BY <1>1
  <1>5. \A z \in Years \ {yReq[h].year} : SameLife(z)
    BY <1>2, <1>3 DEF SameLife, Exists, Status
  <1>6. \A z \in Years : ~(Exists(z))' => ~Exists(z)
    BY <1>4, <1>5 DEF SameLife, Exists
  <1> QED BY <1>3, <1>4, <1>5, <1>6

\* A year comes to be by its own create, ceases to be by a remove, or neither.
Born(z, h) ==
    /\ CreateCommit(h) /\ yReq[h].year = z
    /\ years[z].status = "UNCREATED" /\ (Exists(z))'
    /\ trimesters'[z] = DefaultTrimesters(yReq[h].data.start, yReq[h].data.end)
Gone(z, h) ==
    /\ RemoveCommit(h) /\ yReq[h].year = z
    /\ Exists(z) /\ years'[z].status = "REMOVED"
    /\ trimesters'[z] = NoTrimesters

\* The steps of the academic-years service that write.
LEMMA CreateLife ==
    ASSUME TypeInv, Lifecycle, NEW h \in YearHandlers, CreateCommit(h), NEW z \in Years
    PROVE  \/ SameLife(z) /\ trimesters'[z] = trimesters[z]
           \/ Born(z, h)
  <1> DEFINE y == yReq[h].year
             d == yReq[h].data
             new == [NoYear EXCEPT !.status = "PLANNING"]
  <1>1. y \in Years /\ d \in YearPatch /\ years[y].status = "UNCREATED"
    BY CalendarAssumption DEF CreateCommit, TypeInv, RequestsOK, Lifecycle
  <1>2. trimesters \in [Years -> [Orders -> TrimesterRow]]
    BY DEF TypeInv, TypeOK
  <1>3. CASE NumberTaken(d.number, y)
    BY <1>3 DEF CreateCommit, RolledBack, SameLife, Exists
  <1>4. CASE ~NumberTaken(d.number, y)
    <2>1. new \in YearRow /\ new.status = "PLANNING"
      BY CalendarAssumption DEF NoYear, YearRow, Status, Days
    <2>2. /\ Patched(new, d) \in YearRow
          /\ Patched(new, d).status = IF d.status = None THEN new.status ELSE d.status
      BY <1>1, <2>1, PatchedYear
    <2>3. Patched(new, d).status \in Status
      BY <1>1, <2>1, <2>2 DEF YearPatch, Status
    <2>4. /\ years' = Committed(h, Patched(new, d)) /\ yReq[h].pc = "createCommit"
          /\ trimesters' = [trimesters EXCEPT ![y] = DefaultTrimesters(d.start, d.end)]
      BY <1>4 DEF CreateCommit
    <2>5. /\ years'[y] = Patched(new, d)
          /\ \A x \in Years \ {y} : SameLife(x)
      BY <1>1, <2>2, <2>3, <2>4, CommittedYears
    <2>6. CASE z = y
      BY <1>1, <1>2, <2>3, <2>4, <2>5, <2>6 DEF Born, Exists
    <2>7. CASE z # y
      BY <1>2, <2>4, <2>5, <2>7
    <2> QED BY <2>6, <2>7
  <1> QED BY <1>3, <1>4

LEMMA UpdateLife ==
    ASSUME TypeInv, Lifecycle, NEW h \in YearHandlers, UpdateCommit(h), NEW z \in Years
    PROVE  SameLife(z) /\ trimesters'[z] = trimesters[z]
  <1> DEFINE y == yReq[h].year
             d == yReq[h].data
  <1>1. /\ y \in Years /\ d \in YearPatch /\ years[y] \in YearRow /\ years[y].status \in Status
        /\ yReq[h].pc = "updateCommit"
    BY CalendarAssumption DEF UpdateCommit, TypeInv, TypeOK, RequestsOK, Lifecycle, Exists
  <1>2. /\ Patched(years[y], d) \in YearRow
        /\ Patched(years[y], d).status = IF d.status = None THEN years[y].status ELSE d.status
    BY <1>1, PatchedYear
  <1>3. Patched(years[y], d).status \in Status
    BY <1>1, <1>2 DEF YearPatch
  <1>4. years' = Committed(h, Patched(years[y], d)) /\ trimesters' = trimesters
    BY DEF UpdateCommit
  <1>5. /\ years'[y] = Patched(years[y], d)
        /\ \A x \in Years \ {y} : SameLife(x)
    BY <1>1, <1>2, <1>3, <1>4, CommittedYears
  <1>6. CASE z = y
    <2>1. "UNCREATED" \notin Status
      BY DEF Status
    <2>2. years'[z].status \in Status /\ years[z].status \in Status
      BY <1>1, <1>3, <1>5, <1>6
    <2> QED BY <1>4, <2>1, <2>2 DEF SameLife, Exists
  <1> QED BY <1>4, <1>5, <1>6

LEMMA RemoveLife ==
    ASSUME TypeInv, NEW h \in YearHandlers, RemoveCommit(h), NEW z \in Years
    PROVE  \/ SameLife(z) /\ trimesters'[z] = trimesters[z]
           \/ Gone(z, h)
  <1> DEFINE y == yReq[h].year
  <1>1. /\ y \in Years /\ years \in [Years -> YearRow]
        /\ trimesters \in [Years -> [Orders -> TrimesterRow]]
    BY DEF RemoveCommit, TypeInv, TypeOK, RequestsOK
  <1>2. CASE UNCHANGED <<years, trimesters>>
    BY <1>2 DEF SameLife, Exists
  <1>3. CASE /\ Exists(y)
             /\ years' = [years EXCEPT ![y] = [NoYear EXCEPT !.status = "REMOVED"]]
             /\ trimesters' = [trimesters EXCEPT ![y] = NoTrimesters]
    <2>1. [NoYear EXCEPT !.status = "REMOVED"].status = "REMOVED"
      BY DEF NoYear
    <2>2. CASE z = y
      BY <1>1, <1>3, <2>1, <2>2 DEF Gone
    <2>3. CASE z # y
      BY <1>1, <1>3, <2>3 DEF SameLife, Exists
    <2> QED BY <2>2, <2>3
  <1> QED BY <1>2, <1>3 DEF RemoveCommit

\* What no transaction of the academic-years service commits, changes no year.
LEMMA YearsWritten ==
    ASSUME [Next]_vars
    PROVE  \/ years' = years
           \/ \E h \in YearHandlers : CreateCommit(h) \/ UpdateCommit(h) \/ RemoveCommit(h)
  <1>1. ASSUME NEW h \in YearHandlers,
               \/ CreateCheck(h) \/ UpdateRequest(h) \/ RemoveRequest(h) \/ CreateBegin(h)
               \/ UpdateBegin(h) \/ RemoveBegin(h) \/ RemoveRow(h) \/ RemoveDeadlock(h)
               \/ YearInvalidate(h) \/ YearAborts(h)
        PROVE  years' = years
    BY <1>1 DEF CreateCheck, UpdateRequest, RemoveRequest, CreateBegin, UpdateBegin, RemoveBegin,
                RemoveRow, RemoveDeadlock, YearInvalidate, YearAborts, RolledBack, db
  <1>2. ASSUME NEW h \in TrimesterHandlers,
               TrimesterRead(h) \/ TrimesterStep(h) \/ TrimesterAborts(h)
        PROVE  years' = years
    BY <1>2 DEF TrimesterRead, TrimesterStep, TrimesterSiblings, CloseOthers, CloseOther,
                TrimesterWrite, DeadlockAbort, TrimesterAborts, TrimesterInvalidate, db
  <1>3. ASSUME NEW r \in Readers, FindMiss(r) \/ FindStep(r) PROVE years' = years
    BY <1>3 DEF FindMiss, FindStep, FindQuery, FindStore, db
  <1>4. CASE CacheExpires \/ OtherServices \/ UNCHANGED vars
    BY <1>4 DEF CacheExpires, OtherServices, vars, db
  <1> QED BY <1>1, <1>2, <1>3, <1>4 DEF Next, YearStep


LEMMA LifecycleInit == Init => Lifecycle
  BY DEF Init, Lifecycle, IdleYear

LEMMA LifecycleStable ==
    ASSUME Lifecycle, UNCHANGED <<years, yReq>>
    PROVE  Lifecycle'
  BY DEF Lifecycle, Exists

\* A request that is not about to commit a create or an update, whose step
\* changes no year or only years that no other commit is about.
LEMMA LifecycleOutside ==
    ASSUME TypeInv, Lifecycle, NEW h \in YearHandlers, NEW r \in YearRequest,
           r.pc \notin {"create", "createCommit", "updateCommit"},
           yReq' = [yReq EXCEPT ![h] = r],
           \A g \in YearHandlers \ {h} : yReq[g].pc \in {"create", "createCommit"} =>
              years'[yReq[g].year].status = "UNCREATED",
           \/ years' = years
           \/ \A g \in YearHandlers \ {h} : yReq[g].pc \notin {"createCommit", "updateCommit"}
    PROVE  Lifecycle'
  <1>1. \A g \in YearHandlers : yReq'[g] = IF g = h THEN r ELSE yReq[g]
    BY DEF TypeInv, TypeOK
  <1>2. ASSUME NEW g \in YearHandlers, yReq'[g].pc \in {"create", "createCommit"}
        PROVE  /\ years'[yReq'[g].year].status = "UNCREATED"
               /\ \A k \in YearHandlers \ {g} :
                     yReq'[k].year = yReq'[g].year => yReq'[k].pc \notin {"create", "createCommit"}
    BY <1>1, <1>2 DEF Lifecycle
  <1>3. ASSUME NEW g \in YearHandlers, yReq'[g].pc \in {"createCommit", "updateCommit"}
        PROVE  g # h /\ yReq'[g] = yReq[g] /\ years' = years
    BY <1>1, <1>3
  <1> QED BY <1>2, <1>3 DEF Lifecycle, Exists

\* The same for a commit, beside which no other is under way.
LEMMA LifecycleCommits ==
    ASSUME TypeInv, Exclusion, Lifecycle, NEW h \in YearHandlers,
           CreateCommit(h) \/ UpdateCommit(h) \/ RemoveCommit(h)
    PROVE  Lifecycle'
  <1> DEFINE inside == {"createCommit", "updateCommit", "removing"}
  <1>1. /\ yReq[h].pc \in inside
        /\ \E r \in {IdleYear, [IdleYear EXCEPT !.pc = "invalidate"]} : yReq' = [yReq EXCEPT ![h] = r]
    BY DEF CreateCommit, UpdateCommit, RemoveCommit
  <1>2. PICK r \in YearRequest : r.pc \in {"idle", "invalidate"} /\ yReq' = [yReq EXCEPT ![h] = r]
    <2>1. IdleYear.pc = "idle" /\ [IdleYear EXCEPT !.pc = "invalidate"].pc = "invalidate"
      BY DEF IdleYear
    <2> QED BY <1>1, <2>1, IdleTypes
  <1>3. \A g \in YearHandlers \ {h} : yReq[g].pc \notin {"createCommit", "updateCommit"}
    BY <1>1, LockExcludes DEF Exclusion
  <1>4. ASSUME NEW g \in YearHandlers \ {h}, yReq[g].pc \in {"create", "createCommit"}
        PROVE  years'[yReq[g].year].status = "UNCREATED"
    <2>1. PICK z \in Years : z = yReq[g].year
      BY <1>4 DEF TypeInv, RequestsOK
    <2>2. years[z].status = "UNCREATED" /\ ~Exists(z)
      BY <1>4, <2>1 DEF Lifecycle, Exists, Status
    <2>3. ~(CreateCommit(h) /\ yReq[h].year = z)
      BY <1>4, <2>1 DEF Lifecycle, CreateCommit
    <2>4. SameLife(z)
      BY <2>2, <2>3, CreateLife, UpdateLife, RemoveLife DEF Born, Gone
    <2> QED BY <2>1, <2>2, <2>4 DEF SameLife
  <1> QED BY <1>2, <1>3, <1>4, LifecycleOutside

LEMMA LifecycleNext == TypeInv /\ Exclusion /\ Lifecycle /\ [Next]_vars => Lifecycle'
  <1> SUFFICES ASSUME TypeInv, Exclusion, Lifecycle, [Next]_vars PROVE Lifecycle'
    OBVIOUS
  <1>0. yReq \in [YearHandlers -> YearRequest]
    BY DEF TypeInv, TypeOK
  <1>1. ASSUME NEW h \in YearHandlers, CreateCheck(h) PROVE Lifecycle'
    <2>1. PICK y \in Years, d \in NewYears :
             /\ years[y].status = "UNCREATED"
             /\ \A g \in YearHandlers : yReq[g].year # y
             /\ yReq' = [yReq EXCEPT ![h] =
                   [pc |-> "create", year |-> y, data |-> d, closing |-> {}]]
      BY <1>1 DEF CreateCheck
    <2>2. \A g \in YearHandlers :
             yReq'[g] = IF g = h THEN [pc |-> "create", year |-> y, data |-> d, closing |-> {}]
                                 ELSE yReq[g]
      BY <1>0, <2>1
    <2>3. years' = years
      BY <1>1 DEF CreateCheck, db
    <2> QED BY <2>1, <2>2, <2>3 DEF Lifecycle, Exists
  <1>2. ASSUME NEW h \in YearHandlers, CreateBegin(h) PROVE Lifecycle'
    <2> DEFINE c == IF yReq[h].data.status = "ACTIVE" THEN ActiveYears ELSE {}
    <2>1. /\ yReq[h].pc = "create" /\ years' = years
          /\ yReq' = [yReq EXCEPT ![h] = [yReq[h] EXCEPT !.pc = "createCommit", !.closing = c]]
      BY <1>0, <1>2 DEF CreateBegin, db
    <2>2. /\ yReq'[h].pc = "createCommit" /\ yReq'[h].closing = c
          /\ yReq'[h].year = yReq[h].year /\ yReq'[h].data = yReq[h].data
          /\ \A g \in YearHandlers \ {h} : yReq'[g] = yReq[g]
      BY <1>0, <2>1 DEF YearRequest
    <2>3. \A z \in c : Exists(z)
      BY DEF ActiveYears, Exists, Status
    <2>4. c # {} => yReq[h].data.status = "ACTIVE"
      OBVIOUS
    <2> HIDE DEF c
    <2> QED BY <2>1, <2>2, <2>3, <2>4 DEF Lifecycle, Exists
  <1>3. ASSUME NEW h \in YearHandlers, UpdateBegin(h) PROVE Lifecycle'
    <2> DEFINE y == yReq[h].year
               d == yReq[h].data
               c == IF d.status = "ACTIVE" /\ years[y].status # "ACTIVE" THEN ActiveYears \ {y} ELSE {}
    <2>1. yReq[h].pc = "update" /\ years' = years
      BY <1>3 DEF UpdateBegin, db
    <2>2. CASE UpdateAllowed(y, d)
      <3>1. yReq' = [yReq EXCEPT ![h] = [yReq[h] EXCEPT !.pc = "updateCommit", !.closing = c]]
        BY <1>0, <1>3, <2>2 DEF UpdateBegin
      <3>2. /\ yReq'[h].pc = "updateCommit" /\ yReq'[h].closing = c
            /\ yReq'[h].year = yReq[h].year /\ yReq'[h].data = yReq[h].data
            /\ \A g \in YearHandlers \ {h} : yReq'[g] = yReq[g]
        BY <1>0, <3>1 DEF YearRequest
      <3>3. \A z \in c : Exists(z)
        BY DEF ActiveYears, Exists, Status
      <3>4. c # {} => yReq[h].data.status = "ACTIVE"
        OBVIOUS
      <3>5. Exists(yReq[h].year)
        BY <2>2 DEF UpdateAllowed
      <3> HIDE DEF c
      <3> QED BY <2>1, <3>2, <3>3, <3>4, <3>5 DEF Lifecycle, Exists
    <2>3. CASE ~UpdateAllowed(y, d)
      <3>1. yReq' = [yReq EXCEPT ![h] = IdleYear] /\ IdleYear.pc = "idle"
        BY <1>3, <2>3 DEF UpdateBegin, IdleYear
      <3> QED BY <2>1, <3>1, IdleTypes, LifecycleOutside DEF Lifecycle
    <2> QED BY <2>2, <2>3
  <1>4. ASSUME NEW h \in YearHandlers,
               \/ UpdateRequest(h) \/ RemoveRequest(h) \/ RemoveBegin(h) \/ YearAborts(h)
               \/ YearInvalidate(h)
        PROVE  Lifecycle'
    <2>1. years' = years
      BY <1>4 DEF UpdateRequest, RemoveRequest, RemoveBegin, YearAborts, YearInvalidate,
                  RolledBack, db
    <2>2. PICK r : /\ yReq' = [yReq EXCEPT ![h] = r]
                   /\ r.pc \in {"update", "remove", "removing", "idle", "failed"}
      <3>1. CASE UpdateRequest(h)
        <4>1. PICK y \in Years, d \in YearPatches : yReq' = [yReq EXCEPT ![h] =
                 [pc |-> "update", year |-> y, data |-> d, closing |-> {}]]
          BY <3>1 DEF UpdateRequest
        <4>2. [pc |-> "update", year |-> y, data |-> d, closing |-> {}].pc = "update"
          OBVIOUS
        <4> QED BY <4>1, <4>2
      <3>2. CASE RemoveRequest(h)
        <4>1. PICK y \in Years : yReq' = [yReq EXCEPT ![h] =
                 [IdleYear EXCEPT !.pc = "remove", !.year = y]]
          BY <3>2 DEF RemoveRequest
        <4>2. [IdleYear EXCEPT !.pc = "remove", !.year = y].pc = "remove"
          BY DEF IdleYear
        <4> QED BY <4>1, <4>2
      <3>3. CASE RemoveBegin(h) /\ ~inUse[yReq[h].year]
        <4>1. yReq' = [yReq EXCEPT ![h] = [yReq[h] EXCEPT !.pc = "removing"]]
          BY <1>0, <3>3 DEF RemoveBegin
        <4>2. [yReq[h] EXCEPT !.pc = "removing"].pc = "removing"
          BY <1>0 DEF YearRequest
        <4> QED BY <4>1, <4>2
      <3>4. CASE yReq' = [yReq EXCEPT ![h] = IdleYear]
        <4>1. IdleYear.pc = "idle"
          BY DEF IdleYear
        <4> QED BY <3>4, <4>1
      <3>5. CASE yReq' = [yReq EXCEPT ![h] = [IdleYear EXCEPT !.pc = "failed"]]
        <4>1. [IdleYear EXCEPT !.pc = "failed"].pc = "failed"
          BY DEF IdleYear
        <4> QED BY <3>5, <4>1
      <3> QED BY <1>4, <3>1, <3>2, <3>3, <3>4, <3>5 DEF RemoveBegin, YearAborts, YearInvalidate
    <2>3. yReq' \in [YearHandlers -> YearRequest]
      BY TypeNext DEF TypeInv, TypeOK
    <2>4. r \in YearRequest
      BY <1>0, <2>2, <2>3
    <2> QED BY <2>1, <2>2, <2>4, LifecycleOutside DEF Lifecycle
  <1>5. ASSUME NEW h \in YearHandlers, RemoveRow(h) PROVE Lifecycle'
    BY <1>5, LifecycleStable DEF RemoveRow, db
  <1>6. ASSUME NEW h \in TrimesterHandlers,
               TrimesterRead(h) \/ TrimesterStep(h) \/ TrimesterAborts(h)
        PROVE  Lifecycle'
    BY <1>6, LifecycleStable DEF TrimesterRead, TrimesterStep, TrimesterSiblings, CloseOthers,
       CloseOther, TrimesterWrite, DeadlockAbort, TrimesterAborts, TrimesterInvalidate, db
  <1>7. ASSUME NEW r \in Readers, FindMiss(r) \/ FindStep(r) PROVE Lifecycle'
    BY <1>7, LifecycleStable DEF FindMiss, FindStep, FindQuery, FindStore, db
  <1>8. CASE CacheExpires \/ OtherServices \/ UNCHANGED vars
    BY <1>8, LifecycleStable DEF CacheExpires, OtherServices, vars, db
  <1> QED
    BY <1>1, <1>2, <1>3, <1>4, <1>5, <1>6, <1>7, <1>8, LifecycleCommits
    DEF Next, YearStep, RemoveDeadlock

YearsInv == TypeInv /\ Exclusion /\ Lifecycle

LEMMA YearsInvInit == Init => YearsInv
  BY TypeInit, ExclusionInit, LifecycleInit DEF YearsInv

LEMMA YearsInvNext == YearsInv /\ [Next]_vars => YearsInv'
  BY TypeNext, ExclusionNext, LifecycleNext DEF YearsInv

\* NoActiveYearLost, for any number of requests: a create or an update closes
\* other years only in the commit that makes its own active.
THEOREM ActiveYearRemains == Spec => NoActiveYearLost
  <1> DEFINE Kept == \A y \in ActiveYears : y \notin ActiveYears' =>
                        \/ ActiveYears' # {}
                        \/ \E h \in YearHandlers :
                              yReq[h].year = y /\ yReq[h].pc \in {"updateCommit", "removing"}
  <1>1. ASSUME YearsInv, [Next]_vars PROVE Kept
    <2> SUFFICES ASSUME NEW y \in Years, years[y].status = "ACTIVE",
                        years'[y].status # "ACTIVE",
                        \A h \in YearHandlers :
                           ~(yReq[h].year = y /\ yReq[h].pc \in {"updateCommit", "removing"})
                 PROVE  \E z \in Years : years'[z].status = "ACTIVE"
      BY DEF ActiveYears
    <2>1. Exists(y)
      BY DEF Exists, Status
    <2>2. ASSUME NEW h \in YearHandlers, CreateCommit(h)
          PROVE  \E z \in Years : years'[z].status = "ACTIVE"
      <3> DEFINE d == yReq[h].data
                 new == [NoYear EXCEPT !.status = "PLANNING"]
      <3>1. /\ yReq[h].year \in Years /\ d \in YearPatch /\ yReq[h].pc = "createCommit"
            /\ yReq[h].year # y
        BY <1>1, <2>1, <2>2, CalendarAssumption
        DEF CreateCommit, YearsInv, TypeInv, RequestsOK, Lifecycle, Exists, Status
      <3>2. new \in YearRow /\ new.status = "PLANNING"
        BY CalendarAssumption DEF NoYear, YearRow, Status, Days
      <3>3. /\ Patched(new, d) \in YearRow
            /\ Patched(new, d).status = IF d.status = None THEN new.status ELSE d.status
        BY <3>1, <3>2, PatchedYear
      <3>4. Patched(new, d).status \in Status
        BY <3>1, <3>2, <3>3 DEF YearPatch, Status
      <3>5. years' = Committed(h, Patched(new, d))
        BY <2>2 DEF CreateCommit, RolledBack
      <3>6. y \in yReq[h].closing /\ years'[yReq[h].year] = Patched(new, d)
        BY <1>1, <3>1, <3>3, <3>4, <3>5, CommittedYears DEF YearsInv
      <3>7. d.status = "ACTIVE"
        BY <1>1, <3>1, <3>6 DEF YearsInv, Lifecycle
      <3>8. "ACTIVE" # None
        BY CalendarAssumption DEF Status
      <3> QED BY <3>1, <3>3, <3>6, <3>7, <3>8
    <2>3. ASSUME NEW h \in YearHandlers, UpdateCommit(h)
          PROVE  \E z \in Years : years'[z].status = "ACTIVE"
      <3> DEFINE x == yReq[h].year
                 d == yReq[h].data
      <3>1. /\ x \in Years /\ d \in YearPatch /\ yReq[h].pc = "updateCommit" /\ x # y
            /\ years[x] \in YearRow /\ years[x].status \in Status
        BY <1>1, <2>3, CalendarAssumption
        DEF UpdateCommit, YearsInv, TypeInv, TypeOK, RequestsOK, Lifecycle, Exists
      <3>2. /\ Patched(years[x], d) \in YearRow
            /\ Patched(years[x], d).status = IF d.status = None THEN years[x].status ELSE d.status
        BY <3>1, PatchedYear
      <3>3. Patched(years[x], d).status \in Status
        BY <3>1, <3>2 DEF YearPatch
      <3>4. years' = Committed(h, Patched(years[x], d))
        BY <2>3 DEF UpdateCommit
      <3>5. y \in yReq[h].closing /\ years'[x] = Patched(years[x], d)
        BY <1>1, <3>1, <3>2, <3>3, <3>4, CommittedYears DEF YearsInv
      <3>6. d.status = "ACTIVE"
        BY <1>1, <3>1, <3>5 DEF YearsInv, Lifecycle
      <3>7. "ACTIVE" # None
        BY CalendarAssumption DEF Status
      <3> QED BY <3>1, <3>2, <3>5, <3>6, <3>7
    <2>4. ASSUME NEW h \in YearHandlers, RemoveCommit(h) PROVE FALSE
      <3>1. yReq[h].pc = "removing" /\ yReq[h].year # y
        BY <2>4 DEF RemoveCommit
      <3>2. years'[y] = years[y]
        BY <1>1, <2>4, <3>1 DEF RemoveCommit, YearsInv, TypeInv, TypeOK
      <3> QED BY <3>2
    <2>5. years' # years
      OBVIOUS
    <2> QED BY <1>1, <2>2, <2>3, <2>4, <2>5, YearsWritten
  <1>2. YearsInv /\ [Next]_vars => [Kept]_vars
    BY <1>1
  <1> QED BY YearsInvInit, YearsInvNext, <1>2, PTL DEF Spec, NoActiveYearLost


-----------------------------------------------------------------------------
(***************************************************************************)
(* The trimesters of a year                                                *)
(*                                                                         *)
(* An update reads its trimester and its neighbours, and writes later and  *)
(* without a lock.  No hypothesis says that updates do not overlap, for    *)
(* nothing in the service ensures it.  What is proved is that a write does *)
(* harm only if the year has changed since its update looked at it.        *)
(***************************************************************************)

\* A trimester has been opened since an update that opens its own has looked.
OpenedMeanwhile(h) ==
    LET r == tReq[h] IN
    r.data.open = TRUE /\ ~(OpenOf(r.year) \subseteq r.closing \cup {r.order})

\* The dates that an update writes are not those that it has checked, or do not
\* fit the neighbours any more.
MovedMeanwhile(h) ==
    LET r == tReq[h]
        new == Patched(trimesters[r.year][r.order], r.data)
    IN  \/ new.start # r.start \/ new.end # r.end
        \/ ~FitsBetweenSiblings(r.year, r.order, r.start, r.end)

\* An update does not close the trimester that it is about.
OwnIsKept == \A h \in TrimesterHandlers : tReq[h].order \notin tReq[h].closing

TrimestersInv == YearsInv /\ OwnIsKept

\* The thirds of a year follow one another.
LEMMA DefaultTrimestersOrdered ==
    ASSUME NEW start \in Days, NEW end \in Days, start < end
    PROVE  \A o, s \in Orders :
              /\ o < s => DefaultTrimesters(start, end)[o].end <= DefaultTrimesters(start, end)[s].start
              /\ ~DefaultTrimesters(start, end)[o].open
  <1> DEFINE d == end - start
             t == DefaultTrimesters(start, end)
  <1>1. d \in Nat /\ start \in Nat /\ end = start + d
    BY CalendarAssumption DEF Days
  <1>2. /\ t[1] = [open |-> FALSE, end |-> start + d \div 3, start |-> start]
        /\ t[2] = [open |-> FALSE, end |-> start + (2 * d) \div 3, start |-> start + d \div 3 + 1]
        /\ t[3] = [open |-> FALSE, end |-> end, start |-> start + (2 * d) \div 3 + 1]
    <2> DEFINE cut == [o \in 0..3 |-> IF o = 3 THEN end ELSE start + (o * d) \div 3]
    <2>1. cut[1] = start + d \div 3 /\ cut[2] = start + (2 * d) \div 3 /\ cut[3] = end
      BY <1>1
    <2>2. t = [o \in Orders |->
                 [open |-> FALSE, end |-> cut[o], start |-> IF o = 1 THEN start ELSE cut[o - 1] + 1]]
      BY DEF DefaultTrimesters
    <2> HIDE DEF cut, t
    <2>3. 1 \in Orders /\ 2 \in Orders /\ 3 \in Orders
      BY DEF Orders
    <2>4. /\ t[1] = [open |-> FALSE, end |-> cut[1], start |-> start]
          /\ t[2] = [open |-> FALSE, end |-> cut[2], start |-> cut[1] + 1]
          /\ t[3] = [open |-> FALSE, end |-> cut[3], start |-> cut[2] + 1]
      <3>1. 2 - 1 = 1 /\ 3 - 1 = 2 /\ 2 # 1 /\ 3 # 1
        OBVIOUS
      <3> QED BY <2>2, <2>3, <3>1
    <2> QED BY <2>1, <2>4
  <1>3. d \div 3 \in Nat /\ (2 * d) \div 3 \in Nat /\ d \div 3 <= (2 * d) \div 3
    BY <1>1
  <1> HIDE DEF t, d
  <1>4. /\ t[1].end <= t[2].start /\ t[1].end <= t[3].start /\ t[2].end <= t[3].start
        /\ ~t[1].open /\ ~t[2].open /\ ~t[3].open
    BY <1>1, <1>2, <1>3
  <1>5. \A o, s \in Orders : (o < s => t[o].end <= t[s].start) /\ ~t[o].open
    BY <1>4 DEF Orders
  <1> QED BY <1>5 DEF t

\* Where no trimester is written by the trimester service: the trimesters of a
\* year stay, are the defaults of a new year, or go with the year.
LEMMA TrimestersOfYear ==
    ASSUME YearsInv, [Next]_vars, \A h \in TrimesterHandlers : ~TrimesterWrite(h), NEW z \in Years
    PROVE  \/ SameLife(z) /\ trimesters'[z] = trimesters[z]
           \/ \E h \in YearHandlers : Born(z, h) \/ Gone(z, h)
  <1>1. CASE UNCHANGED <<years, trimesters>>
    BY <1>1 DEF SameLife, Exists
  <1>2. ASSUME NEW h \in YearHandlers,
               \/ CreateCheck(h) \/ UpdateRequest(h) \/ RemoveRequest(h) \/ CreateBegin(h)
               \/ UpdateBegin(h) \/ RemoveBegin(h) \/ RemoveRow(h) \/ RemoveDeadlock(h)
               \/ YearInvalidate(h) \/ YearAborts(h)
        PROVE  UNCHANGED <<years, trimesters>>
    BY <1>2 DEF CreateCheck, UpdateRequest, RemoveRequest, CreateBegin, UpdateBegin, RemoveBegin,
                RemoveRow, RemoveDeadlock, YearInvalidate, YearAborts, RolledBack, db
  <1>3. ASSUME NEW h \in TrimesterHandlers,
               TrimesterRead(h) \/ TrimesterStep(h) \/ TrimesterAborts(h)
        PROVE  UNCHANGED <<years, trimesters>>
    BY <1>3 DEF TrimesterRead, TrimesterStep, TrimesterSiblings, CloseOthers, CloseOther,
                DeadlockAbort, TrimesterAborts, TrimesterInvalidate, db
  <1>4. ASSUME NEW r \in Readers, FindMiss(r) \/ FindStep(r) PROVE UNCHANGED <<years, trimesters>>
    BY <1>4 DEF FindMiss, FindStep, FindQuery, FindStore, db
  <1>5. CASE CacheExpires \/ OtherServices \/ UNCHANGED vars
    BY <1>1, <1>5 DEF CacheExpires, OtherServices, vars, db
  <1> QED
    BY <1>1, <1>2, <1>3, <1>4, <1>5, CreateLife, UpdateLife, RemoveLife
    DEF Next, YearStep, YearsInv

\* The trimesters of a year that is new or gone are in order and closed.
LEMMA BornOrGone ==
    ASSUME YearsInv, NEW h \in YearHandlers, NEW z \in Years, Born(z, h) \/ Gone(z, h)
    PROVE  \A o, s \in Orders :
              /\ o < s => trimesters'[z][o].end <= trimesters'[z][s].start
              /\ ~trimesters'[z][o].open
  <1>1. CASE Born(z, h)
    <2>1. yReq[h].data \in NewYears /\ yReq[h].data.start < yReq[h].data.end
      BY <1>1 DEF Born, CreateCommit, YearsInv, TypeInv, RequestsOK
    <2>2. yReq[h].data.start \in Days /\ yReq[h].data.end \in Days
      BY <2>1, CalendarAssumption DEF YearPatch
    <2>3. trimesters'[z] = DefaultTrimesters(yReq[h].data.start, yReq[h].data.end)
      BY <1>1 DEF Born
    <2> QED BY <2>1, <2>2, <2>3, DefaultTrimestersOrdered
  <1>2. CASE Gone(z, h)
    BY <1>2 DEF Gone, NoTrimesters, Orders
  <1> QED BY <1>1, <1>2


LEMMA PatchedFields ==
    ASSUME NEW row \in TrimesterRow, NEW d \in TrimesterPatch
    PROVE  /\ Patched(row, d).start = IF d.start = None THEN row.start ELSE d.start
           /\ Patched(row, d).end = IF d.end = None THEN row.end ELSE d.end
           /\ Patched(row, d).open = IF d.open = None THEN row.open ELSE d.open
  BY DEF Patched, TrimesterRow

\* The row that a write leaves: its own trimester is patched, the dates of the
\* others stay, and those that it closes are closed.
LEMMA WrittenTrimesters ==
    ASSUME TrimestersInv, NEW h \in TrimesterHandlers, TrimesterWrite(h), Exists(tReq[h].year),
           NEW r, r = tReq[h]
    PROVE  /\ r \in TrimesterRequest /\ r.year \in Years /\ r.data \in TrimesterPatch
           /\ trimesters[r.year] \in [Orders -> TrimesterRow]
           /\ trimesters'[r.year][r.order] = Patched(trimesters[r.year][r.order], r.data)
           /\ \A o \in Orders \ {r.order} :
                 /\ trimesters'[r.year][o].start = trimesters[r.year][o].start
                 /\ trimesters'[r.year][o].end = trimesters[r.year][o].end
                 /\ trimesters'[r.year][o].open => trimesters[r.year][o].open /\ o \notin r.closing
           /\ \A z \in Years : z # r.year => trimesters'[z] = trimesters[z]
  <1>1. r \in TrimesterRequest /\ r.pc = "write" /\ r.year \in Years /\ r.data \in TrimesterPatches
    BY DEF TrimesterWrite, TrimestersInv, YearsInv, TypeInv, TypeOK, RequestsOK
  <1>2. r.data \in TrimesterPatch /\ r.order \in Orders /\ r.order \notin r.closing
    BY <1>1, CalendarAssumption DEF TrimesterRequest, TrimestersInv, OwnIsKept
  <1>3. PICK t \in [Orders -> TrimesterRow] : t = trimesters[r.year]
    BY <1>1 DEF TrimestersInv, YearsInv, TypeInv, TypeOK
  <1>4. PICK u : u = [o \in Orders |->
                        CASE o = r.order     -> Patched(t[o], r.data)
                          [] o \in r.closing -> [t[o] EXCEPT !.open = FALSE]
                          [] OTHER           -> t[o]]
    OBVIOUS
  <1>5. trimesters' = [trimesters EXCEPT ![r.year] = u]
    BY <1>3, <1>4 DEF TrimesterWrite
  <1>6. trimesters'[r.year] = u /\ \A z \in Years : z # r.year => trimesters'[z] = trimesters[z]
    BY <1>1, <1>5 DEF TrimestersInv, YearsInv, TypeInv, TypeOK
  <1>7. u[r.order] = Patched(t[r.order], r.data)
    BY <1>2, <1>4
  <1>8. ASSUME NEW o \in Orders, o # r.order
        PROVE  /\ u[o].start = t[o].start /\ u[o].end = t[o].end
               /\ u[o].open => t[o].open /\ o \notin r.closing
    <2>1. t[o] \in TrimesterRow
      BY <1>3
    <2>2. CASE o \in r.closing
      <3>1. u[o] = [t[o] EXCEPT !.open = FALSE]
        BY <1>4, <1>8, <2>2
      <3>2. u[o].start = t[o].start /\ u[o].end = t[o].end /\ u[o].open = FALSE
        BY <2>1, <3>1 DEF TrimesterRow
      <3> QED BY <3>2
    <2>3. CASE o \notin r.closing
      <3>1. u[o] = t[o]
        BY <1>4, <1>8, <2>3
      <3> QED BY <2>3, <3>1
    <2> QED BY <2>2, <2>3
  <1> QED BY <1>1, <1>2, <1>3, <1>6, <1>7, <1>8

\* A write whose neighbours have not moved leaves its year in order.
LEMMA WriteKeepsDates ==
    ASSUME TrimestersInv, TrimestersOrdered, NEW h \in TrimesterHandlers, TrimesterWrite(h),
           Exists(tReq[h].year), ~MovedMeanwhile(h)
    PROVE  \A o, s \in Orders : o < s =>
              trimesters'[tReq[h].year][o].end <= trimesters'[tReq[h].year][s].start
  <1>0. PICK r : r = tReq[h]
    OBVIOUS
  <1>1. /\ r \in TrimesterRequest /\ r.year \in Years /\ r.data \in TrimesterPatch
        /\ trimesters[r.year] \in [Orders -> TrimesterRow]
        /\ trimesters'[r.year][r.order] = Patched(trimesters[r.year][r.order], r.data)
        /\ \A o \in Orders \ {r.order} :
              /\ trimesters'[r.year][o].start = trimesters[r.year][o].start
              /\ trimesters'[r.year][o].end = trimesters[r.year][o].end
    BY <1>0, WrittenTrimesters
  <1>2. PICK t \in [Orders -> TrimesterRow] : t = trimesters[r.year]
    BY <1>1
  <1>3. PICK u : u = trimesters'[r.year]
    OBVIOUS
  <1>4. u[r.order].start = r.start /\ u[r.order].end = r.end
    BY <1>0, <1>1, <1>3 DEF MovedMeanwhile
  <1>5. \A s \in Orders \ {r.order} : /\ s < r.order => r.start >= t[s].end
                                      /\ s > r.order => r.end <= t[s].start
    BY <1>0, <1>2 DEF MovedMeanwhile, FitsBetweenSiblings
  <1>6. \A o, s \in Orders : o < s => t[o].end <= t[s].start
    BY <1>0, <1>1, <1>2 DEF TrimestersOrdered
  <1>7. r.start \in Int /\ \A s \in Orders : t[s].end \in Int
    BY <1>1, <1>2, CalendarAssumption DEF TrimesterRequest, TrimesterRow, Days
  <1> SUFFICES ASSUME NEW o \in Orders, NEW s \in Orders, o < s PROVE u[o].end <= u[s].start
    BY <1>0, <1>3
  <1>8. o \in Int /\ s \in Int /\ r.order \in Int
    BY <1>1 DEF Orders, TrimesterRequest
  <1>9. CASE o = r.order
    <2>1. s # r.order /\ s > r.order
      BY <1>8, <1>9
    <2> QED BY <1>1, <1>2, <1>3, <1>4, <1>5, <1>9, <2>1
  <1>10. CASE s = r.order
    <2>1. o # r.order /\ o < r.order
      BY <1>8, <1>10
    <2> QED BY <1>1, <1>2, <1>3, <1>4, <1>5, <1>7, <1>10, <2>1
  <1>11. CASE o # r.order /\ s # r.order
    BY <1>1, <1>2, <1>3, <1>6, <1>11
  <1> QED BY <1>9, <1>10, <1>11

\* A write beside which no trimester has been opened leaves one open at most.
LEMMA WriteKeepsOne ==
    ASSUME TrimestersInv, AtMostOneOpen, NEW h \in TrimesterHandlers, TrimesterWrite(h),
           Exists(tReq[h].year), ~OpenedMeanwhile(h)
    PROVE  \A o, s \in Orders :
              trimesters'[tReq[h].year][o].open /\ trimesters'[tReq[h].year][s].open => o = s
  <1>0. PICK r : r = tReq[h]
    OBVIOUS
  <1>1. /\ r \in TrimesterRequest /\ r.year \in Years /\ r.data \in TrimesterPatch
        /\ trimesters[r.year] \in [Orders -> TrimesterRow]
        /\ trimesters'[r.year][r.order] = Patched(trimesters[r.year][r.order], r.data)
        /\ \A o \in Orders \ {r.order} :
              trimesters'[r.year][o].open => trimesters[r.year][o].open /\ o \notin r.closing
    BY <1>0, WrittenTrimesters
  <1>2. PICK t \in [Orders -> TrimesterRow] : t = trimesters[r.year]
    BY <1>1
  <1>3. PICK u : u = trimesters'[r.year]
    OBVIOUS
  <1>4. r.order \in Orders
    BY <1>1 DEF TrimesterRequest
  <1>5. \A o, s \in Orders : t[o].open /\ t[s].open => o = s
    BY <1>1, <1>2 DEF AtMostOneOpen, OpenOf
  <1>6. u[r.order].open = IF r.data.open = None THEN t[r.order].open ELSE r.data.open
    BY <1>1, <1>2, <1>3, <1>4, PatchedFields
  <1>7. CASE r.data.open = TRUE
    <2>1. \A o \in Orders : t[o].open => o \in r.closing \cup {r.order}
      BY <1>0, <1>2, <1>7 DEF OpenedMeanwhile, OpenOf
    <2>2. \A o \in Orders : u[o].open => o = r.order
      BY <1>1, <1>2, <1>3, <2>1
    <2> QED BY <1>0, <1>3, <2>2
  <1>8. CASE r.data.open # TRUE
    <2>1. r.data.open \in {FALSE, None}
      BY <1>1, <1>8 DEF TrimesterPatch
    <2>2. u[r.order].open => t[r.order].open
      BY <1>6, <2>1
    <2>3. \A o \in Orders : u[o].open => t[o].open
      BY <1>1, <1>2, <1>3, <2>2
    <2> QED BY <1>0, <1>3, <1>5, <2>3
  <1> QED BY <1>7, <1>8

\* An update that goes on closes the others only.
LEMMA OwnGoesOn ==
    ASSUME TypeInv, OwnIsKept, NEW h \in TrimesterHandlers,
           TrimesterRead(h) \/ TrimesterSiblings(h) \/ CloseOthers(h) \/ CloseOther(h)
    PROVE  OwnIsKept'
  <1>0. tReq \in [TrimesterHandlers -> TrimesterRequest]
    BY DEF TypeInv, TypeOK
  <1>1. PICK r \in TrimesterRequest : r = tReq[h] /\ r.order \notin r.closing
    BY <1>0 DEF OwnIsKept
  <1>2. CASE TrimesterRead(h)
    <2>1. PICK y \in Years, o \in Orders, d \in TrimesterPatches :
             tReq' = [tReq EXCEPT ![h] =
                [pc |-> "siblings", year |-> y, order |-> o, data |-> d,
                 start |-> Patched(trimesters[y][o], d).start,
                 end |-> Patched(trimesters[y][o], d).end, closing |-> {}]]
      BY <1>2 DEF TrimesterRead
    <2>2. \A g \in TrimesterHandlers \ {h} : tReq'[g] = tReq[g]
      BY <1>0, <2>1
    <2>3. tReq'[h].order = o /\ tReq'[h].closing = {}
      BY <1>0, <2>1
    <2> QED BY <2>2, <2>3 DEF OwnIsKept
  <1>3. CASE TrimesterSiblings(h)
    <2>1. PICK pc : \/ tReq' = [tReq EXCEPT ![h] = IdleTrimester]
                    \/ tReq' = [tReq EXCEPT ![h] = [r EXCEPT !.pc = pc]]
      <3>1. PICK pc : pc = IF r.data.open = TRUE THEN "closeOthers" ELSE "write"
        OBVIOUS
      <3> QED BY <1>1, <1>3, <3>1 DEF TrimesterSiblings
    <2>2. IdleTrimester.order \notin IdleTrimester.closing
      BY DEF IdleTrimester
    <2>3. [r EXCEPT !.pc = pc].order \notin [r EXCEPT !.pc = pc].closing
      BY <1>1 DEF TrimesterRequest
    <2> QED BY <1>0, <2>1, <2>2, <2>3 DEF OwnIsKept
  <1>4. CASE CloseOthers(h) \/ CloseOther(h)
    <2>1. PICK c : /\ r.order \notin c
                   /\ \/ UNCHANGED tReq
                      \/ tReq' = [tReq EXCEPT ![h] = [r EXCEPT !.pc = "write", !.closing = c]]
                      \/ tReq' = [tReq EXCEPT ![h] = [r EXCEPT !.closing = c]]
      <3>1. CASE CloseOthers(h)
        BY <1>0, <1>1, <3>1 DEF CloseOthers, OtherOpen
      <3>2. CASE CloseOther(h)
        BY <1>0, <1>1, <3>2 DEF CloseOther
      <3> QED BY <1>4, <3>1, <3>2
    <2>2. ASSUME NEW q, \/ q = [r EXCEPT !.pc = "write", !.closing = c]
                        \/ q = [r EXCEPT !.closing = c]
          PROVE  q.order \notin q.closing
      BY <2>1, <2>2 DEF TrimesterRequest
    <2> QED BY <1>0, <2>1, <2>2 DEF OwnIsKept
  <1> QED BY <1>2, <1>3, <1>4

LEMMA OwnEnds ==
    ASSUME TypeInv, OwnIsKept, NEW h \in TrimesterHandlers,
           TrimesterWrite(h) \/ TrimesterAborts(h) \/ TrimesterInvalidate(h)
    PROVE  OwnIsKept'
  <1>0. tReq \in [TrimesterHandlers -> TrimesterRequest]
    BY DEF TypeInv, TypeOK
  <1>1. PICK pc : tReq' = [tReq EXCEPT ![h] = [IdleTrimester EXCEPT !.pc = pc]]
    <2>1. IdleTrimester = [IdleTrimester EXCEPT !.pc = "idle"]
      BY DEF IdleTrimester
    <2> QED BY <2>1 DEF TrimesterWrite, TrimesterAborts, TrimesterInvalidate
  <1>2. PICK q : q = [IdleTrimester EXCEPT !.pc = pc]
    OBVIOUS
  <1>3. q.order \notin q.closing
    BY <1>2 DEF IdleTrimester
  <1> QED BY <1>0, <1>1, <1>2, <1>3 DEF OwnIsKept

LEMMA TrimestersInit == Init => TrimestersInv
  BY YearsInvInit DEF Init, TrimestersInv, OwnIsKept, IdleTrimester

LEMMA TrimestersNext == TrimestersInv /\ [Next]_vars => TrimestersInv'
  <1> SUFFICES ASSUME TrimestersInv, [Next]_vars PROVE TrimestersInv'
    OBVIOUS
  <1>1. YearsInv' /\ TypeInv /\ OwnIsKept
    BY YearsInvNext DEF TrimestersInv, YearsInv
  <1>2. UNCHANGED tReq => OwnIsKept'
    BY <1>1 DEF OwnIsKept
  <1>3. ASSUME NEW h \in YearHandlers,
               \/ CreateCheck(h) \/ UpdateRequest(h) \/ RemoveRequest(h)
               \/ YearStep(h) \/ YearAborts(h)
        PROVE  UNCHANGED tReq
    BY <1>3 DEF CreateCheck, UpdateRequest, RemoveRequest, YearStep, CreateBegin, CreateCommit,
                UpdateBegin, UpdateCommit, RemoveBegin, RemoveRow, RemoveCommit, RemoveDeadlock,
                YearInvalidate, YearAborts
  <1>4. ASSUME NEW r \in Readers, FindMiss(r) \/ FindStep(r) PROVE UNCHANGED tReq
    BY <1>4 DEF FindMiss, FindStep, FindQuery, FindStore
  <1>5. CacheExpires \/ OtherServices \/ UNCHANGED vars => UNCHANGED tReq
    BY DEF CacheExpires, OtherServices, vars
  <1>6. ASSUME NEW h \in TrimesterHandlers,
               TrimesterRead(h) \/ TrimesterStep(h) \/ TrimesterAborts(h)
        PROVE  OwnIsKept'
    BY <1>1, <1>6, OwnGoesOn, OwnEnds DEF TrimesterStep, DeadlockAbort
  <1>7. OwnIsKept'
    BY <1>2, <1>3, <1>4, <1>5, <1>6 DEF Next
  <1> QED BY <1>1, <1>7 DEF TrimestersInv

\* Where no update writes, trimesters keep their order and stay as open as they
\* were, or are those of a year that is new or gone.
LEMMA TablesStay ==
    ASSUME TrimestersInv, [Next]_vars, \A h \in TrimesterHandlers : ~TrimesterWrite(h)
    PROVE  (AtMostOneOpen => AtMostOneOpen') /\ (TrimestersOrdered => TrimestersOrdered')
  <1>1. ASSUME NEW z \in Years
        PROVE  \/ (Exists(z))' = Exists(z) /\ trimesters'[z] = trimesters[z]
               \/ \A o, s \in Orders :
                     /\ o < s => trimesters'[z][o].end <= trimesters'[z][s].start
                     /\ ~trimesters'[z][o].open
    BY TrimestersOfYear, BornOrGone DEF TrimestersInv, SameLife, Exists
  <1>2. ASSUME AtMostOneOpen PROVE AtMostOneOpen'
    BY <1>1, <1>2 DEF AtMostOneOpen, OpenOf
  <1>3. ASSUME TrimestersOrdered PROVE TrimestersOrdered'
    BY <1>1, <1>3 DEF TrimestersOrdered
  <1> QED BY <1>2, <1>3

\* A write to a year that is there is a write to that year only; to one that is
\* not there, it is none.
LEMMA WriteElsewhere ==
    ASSUME TrimestersInv, NEW h \in TrimesterHandlers, TrimesterWrite(h)
    PROVE  /\ years' = years
           /\ \A z \in Years : z # tReq[h].year \/ ~Exists(tReq[h].year) =>
                 trimesters'[z] = trimesters[z]
  BY WrittenTrimesters DEF TrimesterWrite

\* However updates overlap, a second trimester of a year is opened only by the
\* write of an update beside which another has been opened since it looked for
\* those to close: TrimestersService.update lets no other step do it.
THEOREM SecondOpensUnseen ==
    Spec => [][AtMostOneOpen =>
                  AtMostOneOpen' \/ \E h \in TrimesterHandlers : TrimesterWrite(h) /\ OpenedMeanwhile(h)]_vars
  <1> DEFINE Kept == AtMostOneOpen =>
                 AtMostOneOpen' \/ \E h \in TrimesterHandlers : TrimesterWrite(h) /\ OpenedMeanwhile(h)
  <1>1. ASSUME TrimestersInv, [Next]_vars, AtMostOneOpen, NEW h \in TrimesterHandlers,
               TrimesterWrite(h), ~OpenedMeanwhile(h)
        PROVE  AtMostOneOpen'
    <2>1. ASSUME NEW z \in Years, NEW o \in Orders, NEW s \in Orders,
                 trimesters'[z][o].open, trimesters'[z][s].open
          PROVE  o = s
      <3>1. CASE z = tReq[h].year /\ Exists(tReq[h].year)
        BY <1>1, <2>1, <3>1, WriteKeepsOne
      <3>2. CASE trimesters'[z] = trimesters[z]
        BY <1>1, <2>1, <3>2 DEF AtMostOneOpen, OpenOf
      <3> QED BY <1>1, <3>1, <3>2, WriteElsewhere
    <2> QED BY <2>1 DEF AtMostOneOpen, OpenOf
  <1>2. TrimestersInv /\ [Next]_vars => [Kept]_vars
    BY <1>1, TablesStay
  <1> QED BY TrimestersInit, TrimestersNext, <1>2, PTL DEF Spec

\* However updates overlap, trimesters come to overlap only by the write of an
\* update whose own dates or neighbours have moved since it checked them.
THEOREM OverlapUnseen ==
    Spec => [][TrimestersOrdered =>
                  TrimestersOrdered' \/ \E h \in TrimesterHandlers : TrimesterWrite(h) /\ MovedMeanwhile(h)]_vars
  <1> DEFINE Kept == TrimestersOrdered =>
                 TrimestersOrdered' \/ \E h \in TrimesterHandlers : TrimesterWrite(h) /\ MovedMeanwhile(h)
  <1>1. ASSUME TrimestersInv, [Next]_vars, TrimestersOrdered, NEW h \in TrimesterHandlers,
               TrimesterWrite(h), ~MovedMeanwhile(h)
        PROVE  TrimestersOrdered'
    <2>1. ASSUME NEW z \in Years, NEW o \in Orders, NEW s \in Orders, (Exists(z))', o < s
          PROVE  trimesters'[z][o].end <= trimesters'[z][s].start
      <3>0. Exists(z)
        BY <1>1, <2>1, WriteElsewhere DEF Exists
      <3>1. CASE z = tReq[h].year /\ Exists(tReq[h].year)
        BY <1>1, <2>1, <3>1, WriteKeepsDates
      <3>2. CASE trimesters'[z] = trimesters[z]
        BY <1>1, <2>1, <3>0, <3>2 DEF TrimestersOrdered
      <3> QED BY <1>1, <3>1, <3>2, WriteElsewhere
    <2> QED BY <2>1 DEF TrimestersOrdered
  <1>2. TrimestersInv /\ [Next]_vars => [Kept]_vars
    BY <1>1, TablesStay
  <1> QED BY TrimestersInit, TrimestersNext, <1>2, PTL DEF Spec

-----------------------------------------------------------------------------
(***************************************************************************)
(* The cached year                                                         *)
(*                                                                         *)
(* CacheIsFresh is no invariant, and EntryIsAccountedFor is not either.    *)
(* Every commit leaves its request about to invalidate, and a request      *)
(* leaves that point by invalidating or by failing there.                  *)
(***************************************************************************)

\* An entry stays accounted for while the rows and the entry stay and every
\* invalidation that is due remains so.
LEMMA AccountStays ==
    ASSUME EntryIsAccountedFor, UNCHANGED <<years, trimesters, cache>>,
           \A h \in YearHandlers : yReq[h].pc = "invalidate" => yReq'[h].pc = "invalidate",
           \A h \in TrimesterHandlers : tReq[h].pc = "invalidate" => tReq'[h].pc = "invalidate"
    PROVE  EntryIsAccountedFor'
  <1>1. CASE InvalidationDue
    BY <1>1 DEF InvalidationDue, EntryIsAccountedFor
  <1>2. CASE CacheIsFresh
    BY <1>2 DEF CacheIsFresh, OpenOf, EntryIsAccountedFor
  <1> QED BY <1>1, <1>2 DEF EntryIsAccountedFor

\* The steps of a request for a year.
LEMMA AccountOfYear ==
    ASSUME TypeInv, EntryIsAccountedFor, ~InvalidationLost, NEW h \in YearHandlers,
           \/ CreateCheck(h) \/ UpdateRequest(h) \/ RemoveRequest(h)
           \/ YearStep(h) \/ YearAborts(h)
    PROVE  EntryIsAccountedFor'
  <1>1. yReq \in [YearHandlers -> YearRequest]
    BY DEF TypeInv, TypeOK
  <1>2. [IdleYear EXCEPT !.pc = "invalidate"].pc = "invalidate"
    BY DEF IdleYear
  <1>3. [IdleYear EXCEPT !.pc = "failed"].pc = "failed"
    BY DEF IdleYear
  <1>4. ASSUME yReq' = [yReq EXCEPT ![h] = [IdleYear EXCEPT !.pc = "invalidate"]]
        PROVE  EntryIsAccountedFor'
    <2>1. yReq'[h].pc = "invalidate"
      BY <1>1, <1>2, <1>4
    <2> QED BY <2>1 DEF EntryIsAccountedFor, InvalidationDue
  <1>5. ASSUME NEW r, yReq' = [yReq EXCEPT ![h] = r], yReq[h].pc # "invalidate",
               UNCHANGED <<years, trimesters, cache, tReq>>
        PROVE  EntryIsAccountedFor'
    BY <1>1, <1>5, AccountStays
  <1>6. CASE CreateCheck(h) \/ UpdateRequest(h) \/ RemoveRequest(h)
    <2>1. yReq[h].pc # "invalidate" /\ UNCHANGED <<years, trimesters, cache, tReq>>
      BY <1>6 DEF CreateCheck, UpdateRequest, RemoveRequest, Over, db
    <2>2. \E r : yReq' = [yReq EXCEPT ![h] = r]
      BY <1>6 DEF CreateCheck, UpdateRequest, RemoveRequest
    <2> QED BY <1>5, <2>1, <2>2
  <1>7. CASE CreateBegin(h) \/ UpdateBegin(h) \/ RemoveBegin(h)
    <2>1. yReq[h].pc # "invalidate" /\ UNCHANGED <<years, trimesters, cache, tReq>>
      BY <1>7 DEF CreateBegin, UpdateBegin, RemoveBegin, db
    <2>2. \A g \in YearHandlers \ {h} : yReq'[g] = yReq[g]
      BY <1>1, <1>7 DEF CreateBegin, UpdateBegin, RemoveBegin
    <2> QED BY <2>1, <2>2, AccountStays
  <1>8. CASE CreateCommit(h)
    BY <1>4, <1>5, <1>8 DEF CreateCommit, RolledBack
  <1>9. CASE UpdateCommit(h)
    BY <1>4, <1>9 DEF UpdateCommit
  <1>10. CASE RemoveCommit(h)
    BY <1>4, <1>5, <1>10 DEF RemoveCommit
  <1>11. CASE RemoveRow(h)
    BY <1>11, AccountStays DEF RemoveRow, db
  <1>12. CASE RemoveDeadlock(h) \/ YearAborts(h)
    <2>1. /\ yReq' = [yReq EXCEPT ![h] = [IdleYear EXCEPT !.pc = "failed"]]
          /\ UNCHANGED <<years, trimesters, cache, tReq>>
      BY <1>12 DEF RemoveDeadlock, YearAborts, RolledBack
    <2>2. yReq[h].pc # "invalidate"
      BY <1>1, <1>3, <2>1 DEF InvalidationLost
    <2> QED BY <1>5, <2>1, <2>2
  <1>13. CASE YearInvalidate(h)
    BY <1>13 DEF YearInvalidate, EntryIsAccountedFor, CacheIsFresh
  <1> QED BY <1>6, <1>7, <1>8, <1>9, <1>10, <1>11, <1>12, <1>13 DEF YearStep

\* The steps of an update of a trimester.
LEMMA AccountOfTrimester ==
    ASSUME TypeInv, EntryIsAccountedFor, ~InvalidationLost, NEW h \in TrimesterHandlers,
           TrimesterRead(h) \/ TrimesterStep(h) \/ TrimesterAborts(h)
    PROVE  EntryIsAccountedFor'
  <1>1. tReq \in [TrimesterHandlers -> TrimesterRequest]
    BY DEF TypeInv, TypeOK
  <1>2. [IdleTrimester EXCEPT !.pc = "invalidate"].pc = "invalidate"
    BY DEF IdleTrimester
  <1>3. [IdleTrimester EXCEPT !.pc = "failed"].pc = "failed"
    BY DEF IdleTrimester
  <1>4. CASE TrimesterWrite(h) /\ Exists(tReq[h].year)
    <2>1. tReq' = [tReq EXCEPT ![h] = [IdleTrimester EXCEPT !.pc = "invalidate"]]
      BY <1>4 DEF TrimesterWrite
    <2>2. tReq'[h].pc = "invalidate"
      BY <1>1, <1>2, <2>1
    <2> QED BY <2>2 DEF EntryIsAccountedFor, InvalidationDue
  <1>5. ASSUME tReq[h].pc # "invalidate", UNCHANGED <<years, trimesters, cache, yReq>>,
               \A g \in TrimesterHandlers \ {h} : tReq'[g] = tReq[g]
        PROVE  EntryIsAccountedFor'
    BY <1>5, AccountStays
  <1>6. CASE \/ TrimesterRead(h) \/ TrimesterSiblings(h) \/ CloseOthers(h) \/ CloseOther(h)
             \/ TrimesterWrite(h) /\ ~Exists(tReq[h].year)
    <2>1. tReq[h].pc # "invalidate" /\ UNCHANGED <<years, trimesters, cache, yReq>>
      BY <1>6 DEF TrimesterRead, TrimesterSiblings, CloseOthers, CloseOther, TrimesterWrite,
                  Over, db
    <2>2. \A g \in TrimesterHandlers \ {h} : tReq'[g] = tReq[g]
      BY <1>1, <1>6 DEF TrimesterRead, TrimesterSiblings, CloseOthers, CloseOther, TrimesterWrite
    <2> QED BY <1>5, <2>1, <2>2
  <1>7. CASE DeadlockAbort(h) \/ TrimesterAborts(h)
    <2>1. /\ tReq' = [tReq EXCEPT ![h] = [IdleTrimester EXCEPT !.pc = "failed"]]
          /\ UNCHANGED <<years, trimesters, cache, yReq>>
      BY <1>7 DEF DeadlockAbort, TrimesterAborts, db
    <2>2. tReq[h].pc # "invalidate"
      BY <1>1, <1>3, <2>1 DEF InvalidationLost
    <2>3. \A g \in TrimesterHandlers \ {h} : tReq'[g] = tReq[g]
      BY <1>1, <2>1
    <2> QED BY <1>5, <2>1, <2>2, <2>3
  <1>8. CASE TrimesterInvalidate(h)
    BY <1>8 DEF TrimesterInvalidate, EntryIsAccountedFor, CacheIsFresh
  <1> QED BY <1>4, <1>6, <1>7, <1>8 DEF TrimesterStep

\* An entry of the cache ceases to be fresh or about to be invalidated only by
\* a late findCurrentActive or by a request that fails before it invalidates:
\* every commit of the two services is followed by its invalidation.
THEOREM StaleByRaceOrCrash == Spec => StaleOnlyByRaceOrCrash
  <1> DEFINE Kept == EntryIsAccountedFor =>
                        EntryIsAccountedFor' \/ EntryIsStored \/ InvalidationLost
  <1>1. ASSUME TypeInv, [Next]_vars, EntryIsAccountedFor, ~EntryIsStored, ~InvalidationLost
        PROVE  EntryIsAccountedFor'
    <2>1. ASSUME NEW r \in Readers, FindMiss(r) \/ FindQuery(r) PROVE EntryIsAccountedFor'
      BY <1>1, <2>1, AccountStays DEF FindMiss, FindQuery, db
    <2>2. ASSUME NEW r \in Readers, FindStore(r) PROVE FALSE
      <3>1. IdleReader.pc = "idle"
        BY DEF IdleReader
      <3>2. fill[r].pc = "store" /\ fill'[r] = IdleReader
        BY <1>1, <2>2 DEF FindStore, TypeInv, TypeOK
      <3> QED BY <1>1, <3>1, <3>2 DEF EntryIsStored
    <2>3. CASE CacheExpires
      BY <2>3 DEF CacheExpires, EntryIsAccountedFor, CacheIsFresh
    <2>4. CASE OtherServices \/ UNCHANGED vars
      BY <1>1, <2>4, AccountStays DEF OtherServices, vars, db
    <2> QED
      BY <1>1, <2>1, <2>2, <2>3, <2>4, AccountOfYear, AccountOfTrimester DEF Next, FindStep
  <1>2. TypeInv /\ [Next]_vars => [Kept]_vars
    BY <1>1
  <1> QED BY TypeInit, TypeNext, <1>2, PTL DEF Spec, StaleOnlyByRaceOrCrash
=============================================================================
