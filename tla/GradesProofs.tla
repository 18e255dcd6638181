----------------------------- MODULE GradesProofs -----------------------------
(***************************************************************************)
(* Theorems about Grades, for any students, requests and request bodies.   *)
(***************************************************************************)
EXTENDS Grades, FiniteSetTheorems, TLAPS

-----------------------------------------------------------------------------
(***************************************************************************)
(* Scores                                                                  *)
(***************************************************************************)
\* Null is not a number.
LEMMA NullFacts == /\ \A n \in Nat : n # None /\ n # Absent
                   /\ None # Absent
                   /\ \A s \in GradeStatus : s # None /\ s # Absent
                   /\ None \notin Row /\ None \notin AuditRow
                   /\ None \notin ChangeRequest
  BY GradesAssumption, NullAssumption

\* The bounds that a row of scores respects, field by field.
LEMMA ScoreBounds ==
    ASSUME NEW s \in Scores
    PROVE  /\ s["ser"] \in 0..10 \cup {None}
           /\ s["saber"] \in 0..45 \cup {None}
           /\ s["hacer"] \in 0..40 \cup {None}
           /\ s["auto"] \in 0..5 \cup {None}
           /\ s["recovery"] \in 0..100 \cup {None}
  <1>1. \A f \in Fields : s[f] \in 0..100 \cup {None}
    BY DEF Scores
  <1>2. \A f \in Fields : s[f] \in Nat => s[f] <= Limit[f]
    BY DEF Scores, InLimits
  <1>3. /\ Limit["ser"] = 10 /\ Limit["saber"] = 45 /\ Limit["hacer"] = 40
        /\ Limit["auto"] = 5 /\ Limit["recovery"] = 100
    BY DEF Limit
  <1>4. {"ser", "saber", "hacer", "auto", "recovery"} = Fields
    BY DEF Fields, Dimensions
  <1> QED BY <1>1, <1>2, <1>3, <1>4

\* The points of a score that is null count as none.
LEMMA PointsBound ==
    ASSUME NEW n \in Nat, NEW x \in 0..n \cup {None}
    PROVE  Points(x) \in 0..n
  BY NullFacts DEF Points

\* calculateGradeScores keeps within its limits and follows the law.
LEMMA GradedRow ==
    ASSUME NEW s \in Scores, NEW st \in GradeStatus
    PROVE  CalculateGradeScores(s, st) \in Row /\ Law070(CalculateGradeScores(s, st))
  <1> DEFINE total == Points(s["ser"]) + Points(s["saber"])
                         + Points(s["hacer"]) + Points(s["auto"])
             ungraded == \A d \in Dimensions : s[d] = None
             With(r, tt, f) == [scores |-> [s EXCEPT !["recovery"] = r],
                                total |-> tt, final |-> f, status |-> st]
  <1>1. total \in 0..100
    <2>1. /\ Points(s["ser"]) \in 0..10 /\ Points(s["saber"]) \in 0..45
          /\ Points(s["hacer"]) \in 0..40 /\ Points(s["auto"]) \in 0..5
      BY ScoreBounds, PointsBound
    <2> QED BY <2>1
  <1>2. s["recovery"] \in 0..100 \cup {None}
    BY ScoreBounds
  <1>3. PICK r, tt, f :
           /\ CalculateGradeScores(s, st) = With(r, tt, f)
           /\ \/ /\ ungraded
                 /\ tt = None /\ f = None /\ r = s["recovery"]
              \/ /\ ~ungraded /\ (total >= PassMark \/ s["recovery"] = None)
                 /\ tt = total /\ f = total /\ r = None
              \/ /\ ~ungraded /\ total < PassMark /\ s["recovery"] # None
                 /\ tt = total /\ r = s["recovery"]
                 /\ f = IF s["recovery"] < PassMark THEN s["recovery"] ELSE PassMark
    <2>1. CASE ungraded
      <3>1. CalculateGradeScores(s, st) = With(s["recovery"], None, None)
        BY <2>1 DEF CalculateGradeScores
      <3> QED BY <2>1, <3>1
    <2>2. CASE ~ungraded /\ (total >= PassMark \/ s["recovery"] = None)
      <3>1. CalculateGradeScores(s, st) = With(None, total, total)
        BY <2>2 DEF CalculateGradeScores
      <3> QED BY <2>2, <3>1
    <2>3. CASE ~ungraded /\ ~(total >= PassMark \/ s["recovery"] = None)
      <3>1. CalculateGradeScores(s, st) = With(s["recovery"], total,
               IF s["recovery"] < PassMark THEN s["recovery"] ELSE PassMark)
        BY <2>3 DEF CalculateGradeScores
      <3>2. total < PassMark /\ s["recovery"] # None
        BY <1>1, <2>3 DEF PassMark
      <3> QED BY <2>3, <3>1, <3>2
    <2> QED BY <2>1, <2>2, <2>3
  <1> DEFINE t == [s EXCEPT !["recovery"] = r]
  <1>4. t \in Scores
    <2>1. r \in {None, s["recovery"]}
      BY <1>3
    <2>2. t \in [Fields -> 0..100 \cup {None}]
      BY <2>1, <1>2 DEF Scores
    <2>3. \A x \in Fields : t[x] \in {None, s[x]}
      BY <2>1 DEF Scores
    <2>4. InLimits(t)
      BY <2>3, NullFacts DEF Scores, InLimits
    <2> QED BY <2>2, <2>4 DEF Scores
  <1>5. /\ t["recovery"] = r
        /\ \A d \in Dimensions : t[d] = s[d]
    BY DEF Scores, Fields, Dimensions
  <1>6. CalculateGradeScores(s, st) = [scores |-> t, total |-> tt, final |-> f, status |-> st]
    BY <1>3
  <1> HIDE DEF With, t
  <1>7. tt \in 0..100 \cup {None} /\ f \in 0..100 \cup {None}
    BY <1>1, <1>2, <1>3 DEF PassMark
  <1>8. CalculateGradeScores(s, st) \in Row
    BY <1>4, <1>6, <1>7 DEF Row
  <1>9. Points(t["ser"]) + Points(t["saber"]) + Points(t["hacer"]) + Points(t["auto"]) = total
    BY <1>5 DEF Dimensions
  <1> HIDE DEF total
  <1>10. (\A d \in Dimensions : t[d] = None) <=> ungraded
    BY <1>5
  <1> HIDE DEF ungraded
  <1>11. Law070([scores |-> t, total |-> tt, final |-> f, status |-> st])
    BY <1>1, <1>2, <1>3, <1>5, <1>9, <1>10, NullFacts DEF Law070, PassMark
  <1> QED BY <1>6, <1>8, <1>11

\* An edit of a row, or of none, makes a row that follows the law.
LEMMA EditedRow ==
    ASSUME NEW item \in Item, NEW row \in Row \cup {None}
    PROVE  Edited(item, row) \in Row /\ Law070(Edited(item, row))
  <1> DEFINE s == [f \in Fields |->
                      IF item.scores[f] # Absent THEN item.scores[f]
                      ELSE IF row = None THEN None ELSE row.scores[f]]
             st == IF item.status # Absent THEN item.status
                   ELSE IF row = None THEN "DRAFT" ELSE row.status
  <1>1. /\ item.scores \in [Fields -> 0..100 \cup {None, Absent}]
        /\ InLimits(item.scores)
        /\ item.status \in GradeStatus \cup {Absent}
    BY DEF Item, Patch
  <1>2. row # None => /\ row.scores \in [Fields -> 0..100 \cup {None}]
                      /\ InLimits(row.scores)
                      /\ row.status \in GradeStatus
    BY DEF Row, Scores
  <1>3. s \in Scores
    <2>1. s \in [Fields -> 0..100 \cup {None}]
      BY <1>1, <1>2
    <2>2. \A f \in Fields : s[f] \in Nat => s[f] <= Limit[f]
      BY <1>1, <1>2, NullFacts DEF InLimits
    <2> QED BY <2>1, <2>2 DEF Scores, InLimits
  <1>4. st \in GradeStatus
    BY <1>1, <1>2 DEF GradeStatus
  <1>5. Edited(item, row) = CalculateGradeScores(s, st)
    BY DEF Edited
  <1> QED BY <1>3, <1>4, <1>5, GradedRow

\* An approved correction makes a row that follows the law, is published and
\* has the scores that were proposed.
LEMMA CorrectedRow ==
    ASSUME NEW p \in Scores, NEW row \in Row
    PROVE  /\ Corrected(p, row) \in Row
           /\ Law070(Corrected(p, row))
           /\ Corrected(p, row).status = "PUBLISHED"
           /\ \A d \in Dimensions : p[d] # None => Corrected(p, row).scores[d] = p[d]
  <1> DEFINE s == [f \in Fields |-> IF p[f] # None THEN p[f] ELSE row.scores[f]]
  <1>1. /\ row.scores \in Scores
        /\ p \in Scores
    BY DEF Row
  <1>2. s \in Scores
    <2>1. s \in [Fields -> 0..100 \cup {None}]
      BY <1>1 DEF Scores
    <2>2. \A f \in Fields : s[f] \in Nat => s[f] <= Limit[f]
      BY <1>1 DEF Scores, InLimits
    <2> QED BY <2>1, <2>2 DEF Scores, InLimits
  <1>3. Corrected(p, row) = CalculateGradeScores(s, "PUBLISHED")
    BY DEF Corrected
  <1>4. CalculateGradeScores(s, "PUBLISHED").status = "PUBLISHED"
    BY DEF CalculateGradeScores
  <1>5. \A d \in Dimensions : CalculateGradeScores(s, "PUBLISHED").scores[d] = s[d]
    BY <1>2 DEF CalculateGradeScores, Scores, Fields, Dimensions
  <1>6. \A d \in Dimensions : p[d] # None => s[d] = p[d]
    BY DEF Fields
  <1> QED BY <1>2, <1>3, <1>4, <1>5, <1>6, GradedRow DEF GradeStatus

-----------------------------------------------------------------------------
(***************************************************************************)
(* The last item of a list for a student                                   *)
(***************************************************************************)
\* A non-empty set of indices has a last one.  Of the sets of indices from i
\* on, for i in the set, one is minimal: that of the last.
LEMMA LastIndex ==
    ASSUME NEW n \in Nat, NEW S, S \subseteq 1..n, S # {}
    PROVE  Last(S) \in S
  <1> DEFINE From(i) == {j \in S : i <= j}
             Tails == {From(i) : i \in S}
  <1>1. Tails \subseteq FiniteSubsetsOf(S)
    <2>1. IsFiniteSet(S)
      <3>1. IsFiniteSet(1..n)
        BY FS_Interval, 1 \in Int, n \in Int
      <3> QED BY <3>1, FS_Subset
    <2>2. FiniteSubsetsOf(S) = SUBSET S
      BY <2>1, FS_FiniteSubsetsOfFinite
    <2> QED BY <2>2
  <1>2. PICK X \in Tails : \A Y \in Tails : <<Y, X>> \notin StrictSubsetOrdering(S)
    <2>1. Tails # {}
      OBVIOUS
    <2> HIDE DEF Tails
    <2> QED BY <1>1, <2>1, FS_StrictSubsetOrderingWellFounded, WFMin
  <1>3. PICK i \in S : X = From(i)
    BY <1>2
  <1>4. ASSUME NEW j \in S, ~(j <= i) PROVE FALSE
    <2>1. /\ S \subseteq Int
          /\ i < j
      BY <1>4
    <2>2. From(j) \in Tails
      OBVIOUS
    <2>3. From(j) \subseteq X /\ i \in X \ From(j) /\ X \subseteq S
      <3>1. \A k \in S : j <= k => i <= k
        BY <2>1
      <3>2. i <= i /\ ~(j <= i)
        BY <2>1
      <3> QED BY <1>3, <3>1, <3>2
    <2>4. <<From(j), X>> \in StrictSubsetOrdering(S)
      BY <2>3 DEF StrictSubsetOrdering
    <2> QED BY <1>2, <2>2, <2>4
  <1>5. \E k \in S : \A j \in S : j <= k
    BY <1>4
  <1> QED BY <1>5 DEF Last

-----------------------------------------------------------------------------
(***************************************************************************)
(* What a handler is about to write                                        *)
(***************************************************************************)
\* The row that an item of a handler makes.
LEMMA ItemRow ==
    ASSUME TypeOK, NEW h \in Handlers, NEW i \in DOMAIN req[h].items
    PROVE  /\ req[h].items[i] \in Item
           /\ NewRow(h, i) \in Row
           /\ Law070(NewRow(h, i))
  <1>1. req[h].items \in Seq(Item) /\ req[h].snapshot \in [Enrollments -> Row \cup {None}]
    BY DEF TypeOK, Handler
  <1>2. req[h].items[i] \in Item
    BY <1>1
  <1>3. req[h].snapshot[req[h].items[i].e] \in Row \cup {None}
    BY <1>1, <1>2 DEF Item
  <1> QED BY <1>2, <1>3, EditedRow DEF NewRow

\* The row that a commit stores for a student.
LEMMA LastRow ==
    ASSUME TypeOK, NEW h \in Handlers, NEW e \in Enrollments, ItemsFor(h, e) # {}
    PROVE  /\ NewRow(h, Last(ItemsFor(h, e))) \in Row
           /\ Law070(NewRow(h, Last(ItemsFor(h, e))))
  <1>1. req[h].items \in Seq(Item)
    BY DEF TypeOK, Handler
  <1>2. ItemsFor(h, e) \subseteq 1..Len(req[h].items) /\ Len(req[h].items) \in Nat
    BY <1>1 DEF ItemsFor
  <1>3. Last(ItemsFor(h, e)) \in ItemsFor(h, e)
    BY <1>2, LastIndex
  <1>4. Last(ItemsFor(h, e)) \in DOMAIN req[h].items
    BY <1>3 DEF ItemsFor
  <1> QED BY <1>4, ItemRow

\* An alert names a student and a failing grade.
LEMMA AlertsToSend ==
    ASSUME TypeOK, NEW h \in Handlers
    PROVE  ToNotify(h) \subseteq Alert
  <1> SUFFICES ASSUME NEW i \in Saved(h), Failing(NewRow(h, i))
               PROVE  Notified(h, i) \in Alert
    BY DEF ToNotify
  <1>1. i \in DOMAIN req[h].items
    BY DEF Saved, ItemsFor
  <1>2. NewRow(h, i).final \in 0..100
    BY <1>1, ItemRow DEF Row, Failing
  <1>3. req[h].items[i].e \in Enrollments
    BY <1>1, ItemRow DEF Item
  <1> QED BY <1>2, <1>3 DEF Notified, Alert

-----------------------------------------------------------------------------
(***************************************************************************)
(* The inductive invariant                                                 *)
(***************************************************************************)
\* The request that a handler creates is of a graded student, and its id is
\* free: of all handlers, only this one will create it.
CreationOK(h) ==
    req[h].pc = "create" =>
        /\ req[h].id \in Requests
        /\ requests[req[h].id] = None
        /\ req[h].request \in ChangeRequest
        /\ grade[req[h].request.e] # None
        /\ \A g \in Handlers :
              req[g].pc = "create" /\ req[g].id = req[h].id => g = h

\* The request that a handler resolves may have been resolved by another one
\* since it was read, but it still asks for what it asked.
ResolutionOK(h) ==
    req[h].pc \in {"resolve", "resolveCommit"} =>
        /\ req[h].id \in Requests
        /\ req[h].request \in ChangeRequest
        /\ req[h].snapshot[req[h].request.e] \in Row
        /\ requests[req[h].id] \in ChangeRequest
        /\ requests[req[h].id].e = req[h].request.e
        /\ requests[req[h].id].proposed = req[h].request.proposed

RequestedAreGraded ==
    \A r \in Requests : requests[r] # None => grade[requests[r].e] # None

Inv == /\ TypeOK
       /\ RequestedAreGraded
       /\ \A h \in Handlers : CreationOK(h) /\ ResolutionOK(h)

LEMMA InitInv == Init => Inv
  <1> SUFFICES ASSUME Init PROVE Inv
    OBVIOUS
  <1>1. Idle \in Handler
    BY DEF Idle, Handler, NoRows, RequestStatus
  <1>2. TypeOK
    BY <1>1 DEF Init, TypeOK, NoRows
  <1>3. \A h \in Handlers : req[h].pc = "idle"
    BY DEF Init, Idle
  <1>4. RequestedAreGraded
    BY DEF Init, RequestedAreGraded
  <1> QED BY <1>2, <1>3, <1>4 DEF Inv, CreationOK, ResolutionOK

\* A handler that takes a step leaves the others as they were.
LEMMA OneHandler ==
    ASSUME TypeOK, NEW h \in Handlers, NEW r \in Handler,
           req' = [req EXCEPT ![h] = r]
    PROVE  /\ req' \in [Handlers -> Handler]
           /\ req'[h] = r
           /\ \A g \in Handlers : g # h => req'[g] = req[g]
  BY DEF TypeOK

\* The fields of a handler.
LEMMA HandlerFields ==
    ASSUME TypeOK, NEW h \in Handlers
    PROVE  /\ req[h] \in Handler
           /\ req[h].items \in Seq(Item)
           /\ req[h].valid \subseteq Enrollments
           /\ req[h].snapshot \in [Enrollments -> Row \cup {None}]
           /\ req[h].notify \subseteq Alert
           /\ req[h].request \in ChangeRequest \cup {None}
           /\ req[h].id \in Requests \cup {None}
           /\ req[h].decision \in RequestStatus
  BY DEF TypeOK, Handler

LEMMA IdleHandler == Idle \in Handler /\ Idle.pc = "idle"
  BY DEF Idle, Handler, NoRows, RequestStatus

\* A step that neither creates nor resolves a request, and takes no grade
\* away, disturbs no other handler.
LEMMA QuietStep ==
    ASSUME Inv, TypeOK', NEW h \in Handlers,
           \A g \in Handlers : g # h => req'[g] = req[g],
           req'[h].pc \notin {"create", "resolve", "resolveCommit"},
           requests' = requests,
           \A e \in Enrollments : grade[e] # None => grade'[e] # None
    PROVE  Inv'
  <1>1. \A r \in Requests : requests[r] # None => requests[r].e \in Enrollments
    BY DEF Inv, TypeOK, ChangeRequest
  <1>2. RequestedAreGraded'
    BY <1>1 DEF Inv, RequestedAreGraded
  <1>3. ASSUME NEW g \in Handlers PROVE CreationOK(g)' /\ ResolutionOK(g)'
    <2>1. CASE g = h
      BY <2>1 DEF CreationOK, ResolutionOK
    <2>2. CASE g # h
      <3>1. req'[g] = req[g] /\ CreationOK(g) /\ ResolutionOK(g)
        BY <2>2 DEF Inv
      <3>2. ResolutionOK(g)'
        BY <3>1 DEF ResolutionOK
      <3>3. req[g].pc = "create" => req[g].request.e \in Enrollments
        BY <3>1 DEF CreationOK, ChangeRequest
      <3>4. \A k \in Handlers : req'[k].pc = "create" => req'[k] = req[k]
        OBVIOUS
      <3>5. CreationOK(g)'
        BY <3>1, <3>3, <3>4 DEF CreationOK
      <3> QED BY <3>2, <3>5
    <2> QED BY <2>1, <2>2
  <1> QED BY <1>2, <1>3 DEF Inv

\* The same for a step that changes nothing but its handler.
LEMMA HandlerStep ==
    ASSUME Inv, NEW h \in Handlers, NEW r \in Handler,
           r.pc \notin {"create", "resolve", "resolveCommit"},
           req' = [req EXCEPT ![h] = r],
           UNCHANGED <<env, db>>, alerts' \in SUBSET Alert
    PROVE  Inv'
  <1>1. TypeOK
    BY DEF Inv
  <1>2. /\ req' \in [Handlers -> Handler]
        /\ req'[h] = r
        /\ \A g \in Handlers : g # h => req'[g] = req[g]
    BY <1>1, OneHandler
  <1>3. TypeOK'
    BY <1>1, <1>2 DEF TypeOK, env, db
  <1>4. requests' = requests /\ grade' = grade
    BY DEF db
  <1> QED BY <1>2, <1>3, <1>4, QuietStep

\* Checks and reads of an edit.
LEMMA UpsertCheckInv ==
    ASSUME Inv, NEW h \in Handlers, UpsertCheck(h)
    PROVE  Inv'
  <1>1. PICK item \in Upserts :
           req' = [req EXCEPT ![h].pc = "read", ![h].items = <<item>>,
                              ![h].valid = {item.e}]
    BY DEF UpsertCheck
  <1> DEFINE r == [req[h] EXCEPT !.pc = "read", !.items = <<item>>, !.valid = {item.e}]
  <1>2. req[h] \in Handler /\ TypeOK
    BY HandlerFields DEF Inv
  <1>3. req' = [req EXCEPT ![h] = r]
    BY <1>1, <1>2 DEF TypeOK
  <1>4. item \in Item /\ item.e \in Enrollments /\ <<item>> \in Seq(Item)
    BY GradesAssumption DEF Item
  <1>5. r \in Handler /\ r.pc = "read"
    BY <1>2, <1>4 DEF Handler
  <1> HIDE DEF r
  <1>6. UNCHANGED <<env, db>> /\ alerts' \in SUBSET Alert
    BY <1>2 DEF UpsertCheck, TypeOK
  <1> QED BY <1>3, <1>5, <1>6, HandlerStep

\* The rows that a handler reads.
LEMMA ReadInv ==
    ASSUME Inv, NEW h \in Handlers, UpsertRead(h) \/ BulkRead(h)
    PROVE  Inv'
  <1> DEFINE r == [req[h] EXCEPT !.pc = "commit", !.snapshot = RowsOf(h)]
  <1>1. req[h] \in Handler /\ TypeOK
    BY HandlerFields DEF Inv
  <1>2. req' = [req EXCEPT ![h] = r]
    BY <1>1 DEF UpsertRead, BulkRead, TypeOK
  <1>3. RowsOf(h) \in [Enrollments -> Row \cup {None}]
    BY <1>1 DEF RowsOf, TypeOK
  <1>4. r \in Handler /\ r.pc = "commit"
    BY <1>1, <1>3 DEF Handler
  <1> HIDE DEF r
  <1>5. UNCHANGED <<env, db>> /\ alerts' \in SUBSET Alert
    BY <1>1 DEF UpsertRead, BulkRead, TypeOK
  <1> QED BY <1>2, <1>4, <1>5, HandlerStep

\* Checks of a list of edits.
LEMMA BulkCheckInv ==
    ASSUME Inv, NEW h \in Handlers, BulkCheck(h)
    PROVE  Inv'
  <1>1. PICK items \in Bulks :
           req' = [req EXCEPT ![h].pc = "filter", ![h].items = items]
    BY DEF BulkCheck
  <1> DEFINE r == [req[h] EXCEPT !.pc = "filter", !.items = items]
  <1>2. req[h] \in Handler /\ TypeOK
    BY HandlerFields DEF Inv
  <1>3. req' = [req EXCEPT ![h] = r]
    BY <1>1, <1>2 DEF TypeOK
  <1>4. items \in Seq(Item)
    BY GradesAssumption
  <1>5. r \in Handler /\ r.pc = "filter"
    BY <1>2, <1>4 DEF Handler
  <1> HIDE DEF r
  <1>6. UNCHANGED <<env, db>> /\ alerts' \in SUBSET Alert
    BY <1>2 DEF BulkCheck, TypeOK
  <1> QED BY <1>3, <1>5, <1>6, HandlerStep

\* A handler that ends, for whatever reason, with its rows and alerts as they are.
LEMMA EndsInv ==
    ASSUME Inv, NEW h \in Handlers, Ends(h), UNCHANGED <<env, db>>,
           alerts' \in SUBSET Alert
    PROVE  Inv'
  BY IdleHandler, HandlerStep DEF Ends

LEMMA BulkFilterInv ==
    ASSUME Inv, NEW h \in Handlers, BulkFilter(h)
    PROVE  Inv'
  <1> DEFINE valid == {req[h].items[i].e : i \in DOMAIN req[h].items} \cap gradable
             r == [req[h] EXCEPT !.pc = "bulkRead", !.valid = valid]
  <1>1. req[h] \in Handler /\ TypeOK
    BY HandlerFields DEF Inv
  <1>2. UNCHANGED <<env, db>> /\ alerts' \in SUBSET Alert
    BY <1>1 DEF BulkFilter, TypeOK
  <1>3. CASE Ends(h)
    BY <1>2, <1>3, EndsInv
  <1>4. CASE req' = [req EXCEPT ![h].pc = "bulkRead", ![h].valid = valid]
    <2>1. req' = [req EXCEPT ![h] = r]
      BY <1>1, <1>4 DEF TypeOK
    <2>2. valid \subseteq Enrollments
      BY <1>1 DEF TypeOK
    <2> HIDE DEF valid
    <2>3. r \in Handler /\ r.pc = "bulkRead"
      BY <1>1, <2>2 DEF Handler
    <2> HIDE DEF r
    <2> QED BY <1>2, <2>1, <2>3, HandlerStep
  <1> QED BY <1>3, <1>4 DEF BulkFilter

\* Alerts are sent one by one, or lost.
LEMMA SendAlertInv ==
    ASSUME Inv, NEW h \in Handlers, SendAlert(h)
    PROVE  Inv'
  <1>1. PICK a \in req[h].notify :
          /\ alerts' \in {alerts, alerts \cup {a}}
          /\ IF req[h].notify = {a} THEN Ends(h)
             ELSE req' = [req EXCEPT ![h].notify = @ \ {a}]
    BY DEF SendAlert
  <1> DEFINE r == [req[h] EXCEPT !.notify = @ \ {a}]
  <1>2. req[h] \in Handler /\ req[h].notify \subseteq Alert /\ TypeOK
    BY HandlerFields DEF Inv
  <1>3. UNCHANGED <<env, db>> /\ alerts' \in SUBSET Alert
    BY <1>1, <1>2 DEF SendAlert, TypeOK
  <1>4. CASE Ends(h)
    BY <1>3, <1>4, EndsInv
  <1>5. CASE req' = [req EXCEPT ![h].notify = @ \ {a}]
    <2>1. req' = [req EXCEPT ![h] = r]
      BY <1>2, <1>5 DEF TypeOK
    <2>2. r \in Handler /\ r.pc = "alert"
      BY <1>2 DEF Handler, SendAlert
    <2> HIDE DEF r
    <2> QED BY <1>3, <2>1, <2>2, HandlerStep
  <1> QED BY <1>1, <1>4, <1>5

\* What the commit of edits stores, for the students of the list and the others.
LEMMA EditedRows ==
    ASSUME TypeOK, NEW h \in Handlers, EditCommit(h), NEW e \in Enrollments
    PROVE  \/ grade'[e] = grade[e] /\ audit'[e] = audit[e]
           \/ /\ grade'[e] \in Row /\ Law070(grade'[e])
              /\ audit'[e] \in AuditRow
              /\ audit'[e].new = grade'[e]
  <1> DEFINE row == NewRow(h, Last(ItemsFor(h, e)))
  <1>1. /\ grade'[e] = IF ItemsFor(h, e) = {} THEN grade[e] ELSE row
        /\ audit'[e] = IF ItemsFor(h, e) = {} THEN audit[e]
                       ELSE AuditOf("edit", req[h].snapshot[e], row)
    BY DEF EditCommit
  <1>2. CASE ItemsFor(h, e) = {}
    BY <1>1, <1>2
  <1>3. CASE ItemsFor(h, e) # {}
    <2>1. row \in Row /\ Law070(row)
      BY <1>3, LastRow
    <2>2. req[h].snapshot[e] \in Row \cup {None}
      BY HandlerFields
    <2> HIDE DEF row
    <2>3. /\ AuditOf("edit", req[h].snapshot[e], row) \in AuditRow
          /\ AuditOf("edit", req[h].snapshot[e], row).new = row
      BY <2>1, <2>2 DEF AuditOf, AuditRow
    <2> QED BY <1>1, <1>3, <2>1, <2>3
  <1> QED BY <1>2, <1>3

LEMMA EditCommitInv ==
    ASSUME Inv, NEW h \in Handlers, EditCommit(h)
    PROVE  Inv'
  <1> DEFINE alerting == [Idle EXCEPT !.pc = "alert", !.notify = ToNotify(h)]
  <1>1. TypeOK
    BY DEF Inv
  <1>2. Idle \in Handler /\ alerting \in Handler
    <2>1. ToNotify(h) \subseteq Alert
      BY <1>1, AlertsToSend
    <2> QED BY <2>1, IdleHandler DEF Handler
  <1>3. PICK r \in {Idle, alerting} : req' = [req EXCEPT ![h] = r]
    BY DEF EditCommit, Ends
  <1>4. r \in Handler /\ r.pc \in {"idle", "alert"}
    BY <1>2, <1>3, IdleHandler DEF Idle
  <1>5. /\ req' \in [Handlers -> Handler]
        /\ req'[h] = r
        /\ \A g \in Handlers : g # h => req'[g] = req[g]
    BY <1>1, <1>3, <1>4, OneHandler
  <1>6. /\ grade' \in [Enrollments -> Row \cup {None}]
        /\ audit' \in [Enrollments -> AuditRow \cup {None}]
    <2>1. \A e \in Enrollments : /\ grade'[e] \in Row \cup {None}
                                 /\ audit'[e] \in AuditRow \cup {None}
      BY <1>1, EditedRows DEF TypeOK
    <2>2. /\ grade' = [e \in Enrollments |-> grade'[e]]
          /\ audit' = [e \in Enrollments |-> audit'[e]]
      BY DEF EditCommit
    <2> QED BY <2>1, <2>2
  <1>7. TypeOK'
    BY <1>1, <1>5, <1>6 DEF TypeOK, EditCommit, env
  <1>8. requests' = requests
    BY DEF EditCommit
  <1>9. \A e \in Enrollments : grade[e] # None => grade'[e] # None
    BY <1>1, EditedRows, NullFacts
  <1>10. req'[h].pc \notin {"create", "resolve", "resolveCommit"}
    BY <1>4, <1>5
  <1> QED BY <1>5, <1>7, <1>8, <1>9, <1>10, QuietStep

-----------------------------------------------------------------------------
\* A correction is asked for.
LEMMA RequestCheckInv ==
    ASSUME Inv, NEW h \in Handlers, RequestCheck(h)
    PROVE  Inv'
  <1>1. PICK id \in Requests, e \in Enrollments, p \in Proposals :
          /\ requests[id] = None
          /\ \A g \in Handlers : req[g].id # id
          /\ grade[e] # None
          /\ req' = [req EXCEPT ![h].pc = "create", ![h].id = id, ![h].request =
                [e |-> e, proposed |-> p, status |-> "PENDING"]]
    BY DEF RequestCheck
  <1> DEFINE q == [e |-> e, proposed |-> p, status |-> "PENDING"]
             r == [req[h] EXCEPT !.pc = "create", !.id = id, !.request = q]
  <1>2. req[h] \in Handler /\ TypeOK
    BY HandlerFields DEF Inv
  <1>3. q \in ChangeRequest /\ q.e = e
    BY GradesAssumption DEF ChangeRequest, RequestStatus
  <1> HIDE DEF q
  <1>4. req' = [req EXCEPT ![h] = r]
    BY <1>1, <1>2 DEF TypeOK, q
  <1>5. r \in Handler /\ r.pc = "create" /\ r.id = id /\ r.request = q
    BY <1>2, <1>3 DEF Handler
  <1> HIDE DEF r
  <1>6. /\ req' \in [Handlers -> Handler]
        /\ req'[h] = r
        /\ \A g \in Handlers : g # h => req'[g] = req[g]
    BY <1>2, <1>4, <1>5, OneHandler
  <1>7. TypeOK'
    BY <1>2, <1>6 DEF TypeOK, RequestCheck, env, db
  <1>8. requests' = requests /\ grade' = grade
    BY DEF RequestCheck, db
  <1>9. RequestedAreGraded'
    BY <1>8 DEF Inv, RequestedAreGraded
  <1>10. ASSUME NEW g \in Handlers PROVE CreationOK(g)' /\ ResolutionOK(g)'
    <2>1. CASE g = h
      <3>1. \A k \in Handlers : k # h => req'[k].id # id
        BY <1>1, <1>6
      <3> QED BY <1>1, <1>3, <1>5, <1>6, <1>8, <2>1, <3>1 DEF CreationOK, ResolutionOK
    <2>2. CASE g # h
      <3>1. req'[g] = req[g] /\ CreationOK(g) /\ ResolutionOK(g)
        BY <1>6, <2>2 DEF Inv
      <3>2. ResolutionOK(g)'
        BY <1>8, <3>1 DEF ResolutionOK
      <3>3. req'[g].id # req'[h].id
        BY <1>1, <1>5, <1>6, <3>1
      <3>4. CreationOK(g)'
        BY <1>6, <1>8, <3>1, <3>3 DEF CreationOK
      <3> QED BY <3>2, <3>4
    <2> QED BY <2>1, <2>2
  <1> QED BY <1>7, <1>9, <1>10 DEF Inv

LEMMA RequestCreateInv ==
    ASSUME Inv, NEW h \in Handlers, RequestCreate(h)
    PROVE  Inv'
  <1> DEFINE id == req[h].id
             q == req[h].request
  <1>1. TypeOK /\ CreationOK(h)
    BY DEF Inv
  <1>2. /\ id \in Requests /\ requests[id] = None
        /\ q \in ChangeRequest /\ q.e \in Enrollments /\ grade[q.e] # None
        /\ \A g \in Handlers : req[g].pc = "create" /\ req[g].id = id => g = h
    BY <1>1 DEF RequestCreate, CreationOK, ChangeRequest
  <1>3. /\ req' \in [Handlers -> Handler]
        /\ req'[h] = Idle
        /\ \A g \in Handlers : g # h => req'[g] = req[g]
    BY <1>1, IdleHandler, OneHandler DEF RequestCreate, Ends
  <1>4. /\ requests' = [requests EXCEPT ![id] = q]
        /\ requests' \in [Requests -> ChangeRequest \cup {None}]
        /\ grade' = grade
    BY <1>1, <1>2 DEF RequestCreate, TypeOK
  <1> HIDE DEF id, q
  <1>5. TypeOK'
    BY <1>1, <1>3, <1>4 DEF TypeOK, RequestCreate, env
  <1>6. /\ requests'[id] = q
        /\ \A r \in Requests : r # id => requests'[r] = requests[r]
    BY <1>1, <1>2, <1>4 DEF TypeOK
  <1>7. RequestedAreGraded'
    BY <1>2, <1>4, <1>6 DEF Inv, RequestedAreGraded
  <1>8. ASSUME NEW g \in Handlers PROVE CreationOK(g)' /\ ResolutionOK(g)'
    <2>1. CASE g = h
      BY <1>3, <2>1, IdleHandler DEF CreationOK, ResolutionOK
    <2>2. CASE g # h
      <3>1. req'[g] = req[g] /\ CreationOK(g) /\ ResolutionOK(g)
        BY <1>3, <2>2 DEF Inv
      <3>2. ResolutionOK(g)'
        BY <1>2, <1>6, <3>1, NullFacts DEF ResolutionOK
      <3>3. req[g].pc = "create" => req[g].id # id
        BY <1>2, <2>2
      <3>4. \A k \in Handlers : req'[k].pc = "create" => req'[k] = req[k]
        BY <1>3, IdleHandler
      <3>5. CreationOK(g)'
        BY <1>4, <1>6, <3>1, <3>3, <3>4 DEF CreationOK
      <3> QED BY <3>2, <3>5
    <2> QED BY <2>1, <2>2
  <1> QED BY <1>5, <1>7, <1>8 DEF Inv

\* A request is read with the grade it corrects: a graded student's.
LEMMA ResolveReadInv ==
    ASSUME Inv, NEW h \in Handlers, ResolveRead(h)
    PROVE  Inv'
  <1>1. PICK id \in Requests, d \in RequestStatus :
          /\ requests[id] # None
          /\ req' = [req EXCEPT ![h] = [Idle EXCEPT
                !.pc = "resolve", !.id = id, !.decision = d,
                !.request = requests[id],
                !.snapshot = [NoRows EXCEPT ![requests[id].e] = grade[requests[id].e]]]]
    BY DEF ResolveRead
  <1> DEFINE q == requests[id]
             rows == [NoRows EXCEPT ![q.e] = grade[q.e]]
             r == [Idle EXCEPT !.pc = "resolve", !.id = id, !.decision = d,
                               !.request = q, !.snapshot = rows]
  <1>2. TypeOK
    BY DEF Inv
  <1>3. q \in ChangeRequest /\ q.e \in Enrollments /\ grade[q.e] \in Row
    BY <1>1, <1>2 DEF Inv, TypeOK, ChangeRequest, RequestedAreGraded
  <1>4. rows \in [Enrollments -> Row \cup {None}] /\ rows[q.e] \in Row
    BY <1>3 DEF NoRows
  <1>5. req' = [req EXCEPT ![h] = r]
    BY <1>1
  <1> HIDE DEF rows
  <1>6. /\ r \in Handler /\ r.pc = "resolve" /\ r.id = id
        /\ r.request = q /\ r.snapshot = rows
    BY <1>3, <1>4, IdleHandler DEF Handler
  <1> HIDE DEF r
  <1>7. /\ req' \in [Handlers -> Handler]
        /\ req'[h] = r
        /\ \A g \in Handlers : g # h => req'[g] = req[g]
    BY <1>2, <1>5, <1>6, OneHandler
  <1>8. TypeOK'
    BY <1>2, <1>7 DEF TypeOK, ResolveRead, env, db
  <1>9. requests' = requests /\ grade' = grade
    BY DEF ResolveRead, db
  <1>10. RequestedAreGraded'
    BY <1>9 DEF Inv, RequestedAreGraded
  <1>11. ASSUME NEW g \in Handlers PROVE CreationOK(g)' /\ ResolutionOK(g)'
    <2>1. CASE g = h
      BY <1>3, <1>4, <1>6, <1>7, <1>9, <2>1 DEF CreationOK, ResolutionOK
    <2>2. CASE g # h
      <3>1. req'[g] = req[g] /\ CreationOK(g) /\ ResolutionOK(g)
        BY <1>7, <2>2 DEF Inv
      <3>2. ResolutionOK(g)'
        BY <1>9, <3>1 DEF ResolutionOK
      <3>3. \A k \in Handlers : req'[k].pc = "create" => req'[k] = req[k]
        BY <1>6, <1>7
      <3>4. CreationOK(g)'
        BY <1>9, <3>1, <3>3 DEF CreationOK
      <3> QED BY <3>2, <3>4
    <2> QED BY <2>1, <2>2
  <1> QED BY <1>8, <1>10, <1>11 DEF Inv

\* The correction that a resolution stores.
LEMMA ResolutionRow ==
    ASSUME Inv, NEW h \in Handlers, req[h].pc \in {"resolve", "resolveCommit"}
    PROVE  LET q == req[h].request IN
           /\ q \in ChangeRequest /\ q.e \in Enrollments
           /\ Resolution(h) \in Row
           /\ Law070(Resolution(h))
           /\ Resolution(h).status = "PUBLISHED"
           /\ \A d \in Dimensions :
                 q.proposed[d] # None => Resolution(h).scores[d] = q.proposed[d]
  <1>1. req[h].request \in ChangeRequest /\ req[h].snapshot[req[h].request.e] \in Row
    BY DEF Inv, ResolutionOK
  <1>2. req[h].request.e \in Enrollments /\ req[h].request.proposed \in Scores
    BY <1>1 DEF ChangeRequest
  <1> QED BY <1>1, <1>2, CorrectedRow DEF Resolution

LEMMA ResolveAlertInv ==
    ASSUME Inv, NEW h \in Handlers, ResolveAlert(h)
    PROVE  Inv'
  <1> DEFINE r == [req[h] EXCEPT !.pc = "resolveCommit"]
  <1>1. req[h] \in Handler /\ TypeOK /\ req[h].pc = "resolve"
    BY HandlerFields DEF Inv, ResolveAlert
  <1>2. req' = [req EXCEPT ![h] = r]
    BY <1>1 DEF ResolveAlert, Goes
  <1>3. /\ r \in Handler /\ r.pc = "resolveCommit" /\ r.id = req[h].id
        /\ r.request = req[h].request /\ r.snapshot = req[h].snapshot
    BY <1>1 DEF Handler
  <1> HIDE DEF r
  <1>4. /\ req' \in [Handlers -> Handler]
        /\ req'[h] = r
        /\ \A g \in Handlers : g # h => req'[g] = req[g]
    BY <1>1, <1>2, <1>3, OneHandler
  <1>5. alerts' \in SUBSET Alert
    <2> DEFINE alert == [e |-> req[h].request.e, final |-> Resolution(h).final]
    <2>1. \/ alerts' = alerts
          \/ Failing(Resolution(h)) /\ alerts' = alerts \cup {alert}
      BY DEF ResolveAlert
    <2>2. /\ req[h].request.e \in Enrollments
          /\ Resolution(h).final \in 0..100 \cup {None}
      BY <1>1, ResolutionRow DEF Row
    <2>3. Failing(Resolution(h)) => alert \in Alert
      BY <2>2 DEF Failing, Alert
    <2> QED BY <1>1, <2>1, <2>3 DEF TypeOK
  <1>6. TypeOK'
    BY <1>1, <1>4, <1>5 DEF TypeOK, ResolveAlert, env, db
  <1>7. requests' = requests /\ grade' = grade
    BY DEF ResolveAlert, db
  <1>8. RequestedAreGraded'
    BY <1>7 DEF Inv, RequestedAreGraded
  <1>9. ASSUME NEW g \in Handlers PROVE CreationOK(g)' /\ ResolutionOK(g)'
    <2>1. CreationOK(g) /\ ResolutionOK(g)
      BY DEF Inv
    <2>2. CASE g = h
      <3>1. ResolutionOK(g)'
        BY <1>1, <1>3, <1>4, <1>7, <2>1, <2>2 DEF ResolutionOK
      <3> QED BY <1>3, <1>4, <2>2, <3>1 DEF CreationOK
    <2>3. CASE g # h
      <3>1. \A k \in Handlers : req'[k].pc = "create" => req'[k] = req[k]
        BY <1>3, <1>4
      <3>2. CreationOK(g)'
        BY <1>4, <1>7, <2>1, <2>3, <3>1 DEF CreationOK
      <3> QED BY <1>4, <1>7, <2>1, <2>3, <3>2 DEF ResolutionOK
    <2> QED BY <2>2, <2>3
  <1> QED BY <1>6, <1>8, <1>9 DEF Inv

\* What a resolution does to its request and to the grade of its student.
LEMMA Resolved ==
    ASSUME Inv, NEW h \in Handlers, ResolveCommit(h)
    PROVE  LET id == req[h].id
               q  == req[h].request IN
           /\ id \in Requests /\ requests[id] \in ChangeRequest
           /\ requests[id].e = q.e /\ requests[id].proposed = q.proposed
           /\ requests'[id] = [requests[id] EXCEPT !.status = req[h].decision]
           /\ \A r \in Requests : r # id => requests'[r] = requests[r]
           /\ IF req[h].decision = "APPROVED"
              THEN /\ grade'[q.e] = Resolution(h)
                   /\ audit'[q.e] \in AuditRow
                   /\ audit'[q.e].by = "approval"
                   /\ audit'[q.e].new = Resolution(h)
                   /\ \A e \in Enrollments :
                         e # q.e => grade'[e] = grade[e] /\ audit'[e] = audit[e]
              ELSE grade' = grade /\ audit' = audit
  <1> DEFINE id == req[h].id
             q == req[h].request
  <1>1. TypeOK /\ req[h].pc = "resolveCommit"
    BY DEF Inv, ResolveCommit
  <1>2. /\ id \in Requests /\ q \in ChangeRequest
        /\ requests[id] \in ChangeRequest
        /\ requests[id].e = q.e /\ requests[id].proposed = q.proposed
    BY <1>1 DEF Inv, ResolutionOK
  <1>3. /\ requests'[id] = [requests[id] EXCEPT !.status = req[h].decision]
        /\ \A r \in Requests : r # id => requests'[r] = requests[r]
    BY <1>1, <1>2 DEF ResolveCommit, TypeOK
  <1>4. q.e \in Enrollments /\ Resolution(h) \in Row
    BY <1>1, ResolutionRow
  <1>5. CASE req[h].decision = "APPROVED"
    <2> DEFINE a == AuditOf("approval", req[h].snapshot[q.e], Resolution(h))
    <2>1. req[h].snapshot[q.e] \in Row \cup {None}
      BY <1>1, <1>4, HandlerFields
    <2>2. a \in AuditRow /\ a.by = "approval" /\ a.new = Resolution(h)
      BY <1>4, <2>1 DEF AuditOf, AuditRow
    <2>3. /\ grade' = [grade EXCEPT ![q.e] = Resolution(h)]
          /\ audit' = [audit EXCEPT ![q.e] = a]
      BY <1>5 DEF ResolveCommit
    <2> HIDE DEF a
    <2>4. /\ grade'[q.e] = Resolution(h) /\ audit'[q.e] = a
          /\ \A e \in Enrollments :
                e # q.e => grade'[e] = grade[e] /\ audit'[e] = audit[e]
      BY <1>1, <1>4, <2>3 DEF TypeOK
    <2> QED BY <1>2, <1>3, <1>5, <2>2, <2>4
  <1>6. CASE req[h].decision # "APPROVED"
    BY <1>2, <1>3, <1>6 DEF ResolveCommit
  <1> QED BY <1>5, <1>6

LEMMA ResolveCommitInv ==
    ASSUME Inv, NEW h \in Handlers, ResolveCommit(h)
    PROVE  Inv'
  <1> DEFINE id == req[h].id
             q == req[h].request
  <1>1. TypeOK /\ req[h].pc = "resolveCommit" /\ req[h].decision \in RequestStatus
    BY HandlerFields DEF Inv, ResolveCommit
  <1>2. Resolution(h) \in Row /\ q.e \in Enrollments
    BY <1>1, ResolutionRow
  <1>3. /\ req' \in [Handlers -> Handler]
        /\ req'[h] = Idle
        /\ \A g \in Handlers : g # h => req'[g] = req[g]
    BY <1>1, IdleHandler, OneHandler DEF ResolveCommit, Ends
  <1>4. /\ id \in Requests
        /\ requests[id] \in ChangeRequest /\ requests'[id] \in ChangeRequest
        /\ requests'[id].e = requests[id].e
        /\ requests'[id].proposed = requests[id].proposed
        /\ \A r \in Requests : r # id => requests'[r] = requests[r]
    BY <1>1, Resolved DEF ChangeRequest
  <1>5. requests' \in [Requests -> ChangeRequest \cup {None}]
    BY <1>1, <1>4 DEF ResolveCommit, TypeOK
  <1>6. /\ \A e \in Enrollments : grade'[e] = grade[e] \/ grade'[e] \in Row
        /\ \A e \in Enrollments : audit'[e] = audit[e] \/ audit'[e] \in AuditRow
    BY <1>2, Resolved
  <1>7. /\ grade' \in [Enrollments -> Row \cup {None}]
        /\ audit' \in [Enrollments -> AuditRow \cup {None}]
    <2>1. /\ grade' = [e \in Enrollments |-> grade'[e]]
          /\ audit' = [e \in Enrollments |-> audit'[e]]
      BY <1>1 DEF ResolveCommit, TypeOK
    <2> QED BY <1>1, <1>6, <2>1 DEF TypeOK
  <1> HIDE DEF id, q
  <1>8. TypeOK'
    BY <1>1, <1>3, <1>5, <1>7 DEF TypeOK, ResolveCommit, env
  <1>9. \A r \in Requests : requests'[r] # None =>
           requests[r] \in ChangeRequest /\ requests'[r].e = requests[r].e
    BY <1>1, <1>4 DEF TypeOK
  <1>10. \A r \in Requests : requests[r] = None => requests'[r] = None
    BY <1>4, NullFacts
  <1>11. \A e \in Enrollments : grade[e] # None => grade'[e] # None
    BY <1>6, NullFacts
  <1>12. RequestedAreGraded'
    BY <1>9, <1>11, NullFacts DEF Inv, RequestedAreGraded, ChangeRequest
  <1>13. ASSUME NEW g \in Handlers PROVE CreationOK(g)' /\ ResolutionOK(g)'
    <2>1. CASE g = h
      BY <1>3, <2>1, IdleHandler DEF CreationOK, ResolutionOK
    <2>2. CASE g # h
      <3>1. req'[g] = req[g] /\ CreationOK(g) /\ ResolutionOK(g)
        BY <1>3, <2>2 DEF Inv
      <3>2. ResolutionOK(g)'
        BY <1>4, <3>1 DEF ResolutionOK
      <3>3. req[g].pc = "create" => req[g].request.e \in Enrollments
        BY <3>1 DEF CreationOK, ChangeRequest
      <3>4. \A k \in Handlers : req'[k].pc = "create" => req'[k] = req[k]
        BY <1>3, IdleHandler
      <3>5. CreationOK(g)'
        BY <1>10, <1>11, <3>1, <3>3, <3>4 DEF CreationOK
      <3> QED BY <3>2, <3>5
    <2> QED BY <2>1, <2>2
  <1> QED BY <1>8, <1>12, <1>13 DEF Inv

-----------------------------------------------------------------------------
(***************************************************************************)
(* Theorems                                                                *)
(***************************************************************************)
LEMMA NextInv == Inv /\ [Next]_vars => Inv'
  <1> SUFFICES ASSUME Inv, [Next]_vars PROVE Inv'
    OBVIOUS
  <1>1. TypeOK
    BY DEF Inv
  <1>2. CASE UNCHANGED <<db, req>> /\ open' \in BOOLEAN
                /\ gradable' \in SUBSET Enrollments /\ alerts' = alerts
    BY <1>2 DEF Inv, TypeOK, RequestedAreGraded, CreationOK, ResolutionOK, db
  <1>3. CASE OtherServices
    <2>1. open' \in BOOLEAN /\ gradable' \in SUBSET Enrollments
      BY <1>1, <1>3 DEF OtherServices, TypeOK
    <2> QED BY <1>2, <1>3, <2>1 DEF OtherServices
  <1>4. CASE UNCHANGED vars
    BY <1>1, <1>2, <1>4 DEF vars, db, TypeOK
  <1>5. ASSUME NEW h \in Handlers,
               Start(h) \/ EditStep(h) \/ RequestStep(h) \/ Abort(h)
        PROVE  Inv'
    <2>1. CASE Start(h)
      BY <2>1, UpsertCheckInv, BulkCheckInv, RequestCheckInv, ResolveReadInv DEF Start
    <2>2. CASE EditStep(h)
      BY <2>2, ReadInv, BulkFilterInv, EditCommitInv, SendAlertInv DEF EditStep
    <2>3. CASE RequestStep(h)
      BY <2>3, RequestCreateInv, ResolveAlertInv, ResolveCommitInv DEF RequestStep
    <2>4. CASE Abort(h)
      BY <1>1, <2>4, EndsInv DEF Abort, TypeOK
    <2> QED BY <1>5, <2>1, <2>2, <2>3, <2>4
  <1> QED BY <1>3, <1>4, <1>5 DEF Next

LEMMA Invariance == Spec => []Inv
  BY InitInv, NextInv, PTL DEF Spec

\* Whatever the requests and their order, no row leaves its type: no stored score
\* exceeds its limit, no total or final grade exceeds 100, and no correction is
\* computed from a grade that does not exist.
THEOREM TypeCorrect == Spec => []TypeOK
  <1>1. Inv => TypeOK
    BY DEF Inv
  <1> QED BY <1>1, Invariance, PTL

\* The rows that a step leaves: as they were, or new, lawful and audited.
LEMMA StoredRows ==
    ASSUME Inv, [Next]_vars, NEW e \in Enrollments
    PROVE  \/ grade'[e] = grade[e] /\ audit'[e] = audit[e]
           \/ /\ grade'[e] \in Row /\ Law070(grade'[e])
              /\ audit'[e] \in AuditRow
              /\ audit'[e].new = grade'[e]
  <1>1. TypeOK
    BY DEF Inv
  <1>2. CASE \E h \in Handlers : EditCommit(h)
    BY <1>1, <1>2, EditedRows
  <1>3. CASE \E h \in Handlers : ResolveCommit(h)
    <2>1. PICK h \in Handlers : ResolveCommit(h)
      BY <1>3
    <2>2. /\ Resolution(h) \in Row /\ Law070(Resolution(h))
          /\ req[h].request.e \in Enrollments
      BY <2>1, ResolutionRow DEF ResolveCommit
    <2> QED BY <2>1, <2>2, Resolved
  <1>4. CASE UNCHANGED <<grade, audit>>
    BY <1>4
  <1>5. \/ UNCHANGED <<grade, audit>>
        \/ \E h \in Handlers : EditCommit(h) \/ ResolveCommit(h)
    BY DEF Next, Start, EditStep, RequestStep, UpsertCheck, BulkCheck, RequestCheck,
           ResolveRead, UpsertRead, BulkFilter, BulkRead, SendAlert, RequestCreate,
           ResolveAlert, Abort, OtherServices, vars, db
  <1> QED BY <1>2, <1>3, <1>4, <1>5

\* Every stored grade satisfies Law 070: for all edits, lists of edits and
\* corrections within the limits of the DTOs, in any interleaving.
THEOREM LawKept == Spec => []GradesFollowTheLaw
  <1>1. Init => GradesFollowTheLaw
    BY DEF Init, NoRows, GradesFollowTheLaw
  <1>2. Inv /\ GradesFollowTheLaw /\ [Next]_vars => GradesFollowTheLaw'
    BY StoredRows DEF GradesFollowTheLaw
  <1> QED BY <1>1, <1>2, Invariance, PTL DEF Spec

\* The newest audit row of every grade tells what is stored, whichever of the
\* concurrent edits and approvals of one grade commits last.
THEOREM AuditKept == Spec => []AuditTellsTheGrade
  <1>1. Init => AuditTellsTheGrade
    BY DEF Init, NoRows, AuditTellsTheGrade
  <1>2. Inv /\ AuditTellsTheGrade /\ [Next]_vars => AuditTellsTheGrade'
    BY StoredRows, NullFacts DEF AuditTellsTheGrade
  <1> QED BY <1>1, <1>2, Invariance, PTL DEF Spec

LEMMA ApprovalStep == Inv /\ [Next]_vars => ApprovalEffect
  <1> SUFFICES ASSUME Inv, [Next]_vars PROVE ApprovalEffect
    OBVIOUS
  <1>1. CASE \E h \in Handlers : ResolveCommit(h)
    <2>1. PICK h \in Handlers : ResolveCommit(h)
      BY <1>1
    <2> DEFINE id == req[h].id
               q == req[h].request
    <2>2. /\ id \in Requests /\ requests[id] \in ChangeRequest
          /\ requests[id].e = q.e /\ requests[id].proposed = q.proposed
          /\ \A r \in Requests : r # id => requests'[r] = requests[r]
      BY <2>1, Resolved
    <2>3. requests'[id].status = req[h].decision
      BY <2>1, <2>2, Resolved DEF ChangeRequest
    <2>4. req[h].decision # "APPROVED" => grade' = grade
      BY <2>1, Resolved
    <2>5. req[h].decision = "APPROVED" =>
             audit'[q.e].by = "approval" /\ grade'[q.e] = Resolution(h)
      BY <2>1, Resolved
    <2>6. /\ Resolution(h).status = "PUBLISHED"
          /\ \A d \in Dimensions :
                q.proposed[d] # None => Resolution(h).scores[d] = q.proposed[d]
      BY <2>1, ResolutionRow DEF ResolveCommit
    <2> HIDE DEF id, q
    <2> QED BY <2>2, <2>3, <2>4, <2>5, <2>6 DEF ApprovalEffect
  <1>2. CASE \E h \in Handlers : RequestCreate(h)
    <2>1. PICK h \in Handlers : RequestCreate(h)
      BY <1>2
    <2>2. req[h].id \in Requests /\ requests[req[h].id] = None
      BY <2>1 DEF Inv, CreationOK, RequestCreate
    <2>3. \A r \in Requests : r # req[h].id => requests'[r] = requests[r]
      BY <2>1 DEF RequestCreate, Inv, TypeOK
    <2> QED BY <2>2, <2>3 DEF ApprovalEffect
  <1>3. CASE UNCHANGED requests
    BY <1>3 DEF ApprovalEffect
  <1>4. \/ UNCHANGED requests
        \/ \E h \in Handlers : RequestCreate(h) \/ ResolveCommit(h)
    BY DEF Next, Start, EditStep, RequestStep, UpsertCheck, BulkCheck, RequestCheck,
           ResolveRead, UpsertRead, BulkFilter, BulkRead, EditCommit, SendAlert,
           ResolveAlert, Abort, OtherServices, vars, db
  <1> QED BY <1>1, <1>2, <1>3, <1>4

\* No request becomes APPROVED but in the step that publishes its proposal,
\* for any number of handlers that resolve it, edit its grade or fail.
THEOREM Approvals == Spec => ApprovalTakesEffect
  <1>1. Inv /\ [Next]_vars => [ApprovalEffect]_vars
    BY ApprovalStep
  <1> QED BY <1>1, Invariance, PTL DEF Spec, ApprovalTakesEffect

\* An alert is of the one result that the handler commits for its student.
LEMMA AlertOfCommit ==
    ASSUME TypeOK, NEW h \in Handlers, EditCommit(h), NEW a \in ToNotify(h),
           \A i, j \in ItemsFor(h, a.e) : i = j
    PROVE  grade'[a.e].final = a.final /\ grade'[a.e].status = "PUBLISHED"
  <1>1. PICK i \in Saved(h) : /\ a = Notified(h, i)
                             /\ NewRow(h, i).status = "PUBLISHED"
    BY DEF ToNotify
  <1>2. a.e = req[h].items[i].e /\ a.final = NewRow(h, i).final
    BY <1>1 DEF Notified
  <1>3. a.e \in Enrollments /\ i \in ItemsFor(h, a.e)
    BY <1>2 DEF Saved, ItemsFor
  <1>4. Last(ItemsFor(h, a.e)) = i
    <2>1. /\ ItemsFor(h, a.e) \subseteq 1..Len(req[h].items)
          /\ Len(req[h].items) \in Nat
      BY HandlerFields DEF ItemsFor
    <2>2. Last(ItemsFor(h, a.e)) \in ItemsFor(h, a.e)
      BY <1>3, <2>1, LastIndex
    <2> QED BY <1>3, <2>2
  <1>5. grade'[a.e] = NewRow(h, Last(ItemsFor(h, a.e)))
    BY <1>3 DEF EditCommit
  <1> QED BY <1>1, <1>2, <1>4, <1>5

\* Only the commit of an edit adds alerts to those a handler has to send.
LEMMA NewAlerts ==
    ASSUME TypeOK, [Next]_vars, NEW h \in Handlers, req'[h].notify \ req[h].notify # {}
    PROVE  EditCommit(h) /\ req'[h].notify = ToNotify(h)
  <1>1. PICK g \in Handlers : Start(g) \/ EditStep(g) \/ RequestStep(g) \/ Abort(g)
    BY DEF Next, OtherServices, vars
  <1>2. \A k \in Handlers : req[k] \in Handler
    BY HandlerFields
  <1>3. Idle.notify = {}
    BY DEF Idle
  <1>4. ASSUME Ends(g) PROVE FALSE
    BY <1>2, <1>3, <1>4 DEF Ends, TypeOK
  <1>5. CASE Start(g)
    <2>1. CASE UpsertCheck(g)
      BY <1>2, <2>1 DEF UpsertCheck, TypeOK, Handler
    <2>2. CASE BulkCheck(g)
      BY <1>2, <2>2 DEF BulkCheck, TypeOK, Handler
    <2>3. CASE RequestCheck(g)
      BY <1>2, <2>3 DEF RequestCheck, TypeOK, Handler
    <2>4. CASE ResolveRead(g)
      <3>1. PICK r : req' = [req EXCEPT ![g] = r] /\ r.notify = {}
        BY <2>4 DEF ResolveRead, Idle
      <3> QED BY <1>2, <3>1 DEF TypeOK
    <2> QED BY <1>5, <2>1, <2>2, <2>3, <2>4 DEF Start
  <1>6. CASE EditStep(g) /\ ~EditCommit(g)
    <2>1. CASE UpsertRead(g)
      BY <1>2, <2>1 DEF UpsertRead, TypeOK, Handler
    <2>2. CASE BulkFilter(g)
      <3>1. PICK S : req' = [req EXCEPT ![g].pc = "bulkRead", ![g].valid = S]
        BY <1>4, <2>2 DEF BulkFilter
      <3> QED BY ONLY <1>2, <3>1, TypeOK, h \in Handlers, g \in Handlers,
                      req'[h].notify \ req[h].notify # {} DEF TypeOK, Handler
    <2>3. CASE BulkRead(g)
      BY <1>2, <2>3 DEF BulkRead, TypeOK, Handler
    <2>4. CASE SendAlert(g)
      <3>1. PICK a : req' = [req EXCEPT ![g].notify = @ \ {a}]
        BY <1>4, <2>4 DEF SendAlert
      <3> QED BY ONLY <1>2, <3>1, TypeOK, h \in Handlers, g \in Handlers,
                      req'[h].notify \ req[h].notify # {} DEF TypeOK, Handler
    <2> QED BY <1>6, <2>1, <2>2, <2>3, <2>4 DEF EditStep
  <1>7. CASE RequestStep(g)
    <2>1. CASE ResolveAlert(g)
      BY <1>2, <2>1 DEF ResolveAlert, Goes, TypeOK, Handler
    <2> QED BY <1>4, <1>7, <2>1 DEF RequestStep, RequestCreate, ResolveCommit
  <1>8. CASE Abort(g)
    BY <1>4, <1>8 DEF Abort
  <1>9. CASE EditCommit(g)
    <2>1. req' = [req EXCEPT ![g] = [Idle EXCEPT !.pc = "alert", !.notify = ToNotify(g)]]
      BY <1>4, <1>9 DEF EditCommit
    <2>2. [Idle EXCEPT !.pc = "alert", !.notify = ToNotify(g)].notify = ToNotify(g)
      BY DEF Idle
    <2>3. h = g
      BY <2>1 DEF TypeOK
    <2> QED BY <1>9, <2>1, <2>2, <2>3 DEF TypeOK
  <1> QED BY <1>1, <1>5, <1>6, <1>7, <1>8, <1>9

\* What is sent is what a commit has handed over, or what a resolution foretells.
LEMMA SentAlerts ==
    ASSUME TypeOK, [Next]_vars, NEW a \in alerts' \ alerts
    PROVE  \E h \in Handlers : a \in req[h].notify \cup Foretold(h)'
  <1>1. \E h \in Handlers : SendAlert(h) \/ ResolveAlert(h)
    BY DEF Next, Start, EditStep, RequestStep, UpsertCheck, BulkCheck, RequestCheck,
           ResolveRead, UpsertRead, BulkFilter, BulkRead, EditCommit, RequestCreate,
           ResolveCommit, Abort, OtherServices, vars
  <1>2. PICK h \in Handlers : SendAlert(h) \/ ResolveAlert(h)
    BY <1>1
  <1>3. CASE SendAlert(h)
    BY <1>3 DEF SendAlert
  <1>4. CASE ResolveAlert(h)
    <2>1. /\ req[h].decision = "APPROVED" /\ Failing(Resolution(h))
          /\ a = [e |-> req[h].request.e, final |-> Resolution(h).final]
      BY <1>4 DEF ResolveAlert
    <2>2. /\ req'[h].pc = "resolveCommit" /\ req'[h].decision = req[h].decision
          /\ req'[h].request = req[h].request /\ req'[h].snapshot = req[h].snapshot
      BY <1>4, HandlerFields DEF ResolveAlert, Goes, TypeOK, Handler
    <2>3. Resolution(h)' = Resolution(h)
      BY <2>2 DEF Resolution
    <2> QED BY <2>1, <2>2, <2>3 DEF Foretold
  <1> QED BY <1>2, <1>3, <1>4

\* What a resolution foretells is what its commit publishes.
LEMMA ForetoldHolds ==
    ASSUME Inv, [Next]_vars, NEW h \in Handlers, NEW a \in Foretold(h) \ Foretold(h)', ~Abort(h)
    PROVE  Published(a)'
  <1>1. /\ req[h].pc = "resolveCommit" /\ req[h].decision = "APPROVED"
        /\ a = [e |-> req[h].request.e, final |-> Resolution(h).final]
    BY DEF Foretold
  <1>2. req'[h] # req[h]
    BY DEF Foretold, Resolution
  <1>3. PICK g \in Handlers : Start(g) \/ EditStep(g) \/ RequestStep(g) \/ Abort(g)
    BY <1>2 DEF Next, OtherServices, vars
  <1>4. TypeOK
    BY DEF Inv
  <1>5. CASE g # h
    <2>1. req'[h] = req[h]
      BY <1>3, <1>4, <1>5 DEF TypeOK, Start, EditStep, RequestStep, UpsertCheck, BulkCheck,
           RequestCheck, ResolveRead, UpsertRead, BulkFilter, BulkRead, EditCommit, SendAlert,
           RequestCreate, ResolveAlert, ResolveCommit, Abort, Goes, Ends
    <2> QED BY <1>2, <2>1
  <1>6. CASE g = h
    <2>1. ResolveCommit(h)
      BY <1>1, <1>3, <1>6 DEF Start, EditStep, RequestStep, UpsertCheck, BulkCheck, RequestCheck,
           ResolveRead, UpsertRead, BulkFilter, BulkRead, EditCommit, SendAlert, RequestCreate,
           ResolveAlert
    <2>2. /\ Resolution(h).status = "PUBLISHED" /\ req[h].request.e \in Enrollments
      BY <1>1, ResolutionRow
    <2>3. grade'[req[h].request.e] = Resolution(h)
      BY <1>1, <2>1, Resolved
    <2> QED BY <1>1, <2>2, <2>3 DEF Published
  <1> QED BY <1>5, <1>6

\* For any lists of edits, corrections and failures, a family is told of what a
\* commit has published, or of a correction before the commit that publishes
\* it; that commit follows as announced, unless the transaction fails.
THEOREM AlertsAreTrue == Spec => AlertsToldOrForetold
  <1>1. Inv => TypeOK
    BY DEF Inv
  <1>2. ASSUME Inv, [Next]_vars PROVE AlertsAreOfGrades
    <2>1. ASSUME NEW h \in Handlers, NEW a \in req'[h].notify \ req[h].notify,
                 \A i, j \in ItemsFor(h, a.e) : i = j
          PROVE  Published(a)'
      <3>1. EditCommit(h) /\ a \in ToNotify(h)
        BY <1>1, <1>2, <2>1, NewAlerts
      <3> QED BY <1>1, <1>2, <2>1, <3>1, AlertOfCommit DEF Published
    <2>2. \A h \in Handlers : \A a \in Foretold(h) \ Foretold(h)' : Published(a)' \/ Abort(h)
      BY <1>2, ForetoldHolds
    <2>3. \A a \in alerts' \ alerts : \E h \in Handlers : a \in req[h].notify \cup Foretold(h)'
      BY <1>1, <1>2, SentAlerts
    <2> QED BY <2>1, <2>2, <2>3 DEF AlertsAreOfGrades
  <1>3. Inv /\ [Next]_vars => [AlertsAreOfGrades]_vars
    BY <1>2
  <1> QED BY <1>3, Invariance, PTL DEF Spec, AlertsToldOrForetold
================================================================================
