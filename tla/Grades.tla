-------------------------------- MODULE Grades --------------------------------
(***************************************************************************)
(* One gradebook sheet: the grades of a teacher assignment in a trimester, *)
(* their audit trail, the requests to correct a grade and the alerts sent  *)
(* to families.                                                            *)
(*                                                                         *)
(*   api/src/grades/grades.service.ts                                      *)
(*                                                                         *)
(* A request is a handler that reads and checks, holds what it read and    *)
(* writes later, in a READ COMMITTED transaction.  Writers of one row      *)
(* follow each other by its row lock, so the writes of a transaction are   *)
(* modelled at its commit; a deadlock, a timeout or a lost connection      *)
(* aborts it (Abort).                                                      *)
(***************************************************************************)
EXTENDS Integers, Sequences

CONSTANTS
    Enrollments,    \* students of the sheet
    Requests,       \* ids of grade_change_requests rows
    Handlers,       \* concurrent requests of the grades service
    BulkHandlers,   \* those that may be given a list
    Upserts,        \* the UpsertGradeDto values requests may carry
    Bulks,          \* the lists of them that bulk requests may carry
    Proposals,      \* the scores that change requests may propose
    None,           \* null; no row
    Absent          \* undefined: a field that the request does not name

Dimensions == {"ser", "saber", "hacer", "auto"}
Fields     == Dimensions \cup {"recovery"}
PassMark   == 51
Limit      == [ser |-> 10, saber |-> 45, hacer |-> 40, auto |-> 5, recovery |-> 100]

GradeStatus   == {"DRAFT", "PUBLISHED", "LOCKED"}
RequestStatus == {"PENDING", "APPROVED", "REJECTED"}

\* Scores within the limits that the DTOs validate.
InLimits(s) == \A f \in Fields : s[f] \in Nat => s[f] <= Limit[f]
Scores == {s \in [Fields -> 0..100 \cup {None}] : InLimits(s)}
Patch  == {s \in [Fields -> 0..100 \cup {None, Absent}] : InLimits(s)}
Item   == [e: Enrollments, scores: Patch, status: GradeStatus \cup {Absent}]

ASSUME GradesAssumption ==
    /\ None # Absent
    /\ {None, Absent} \cap (Nat \cup GradeStatus \cup Enrollments \cup Requests) = {}
    /\ Upserts \subseteq Item
    /\ Bulks \subseteq Seq(Item)
    /\ Proposals \subseteq Scores
    /\ BulkHandlers \subseteq Handlers

VARIABLES
    open,       \* the trimester is open
    gradable,   \* enrollments of the classroom that are INSCRITO or OBSERVADO
    grade,      \* the grades row of each enrollment
    audit,      \* the newest grade_audits row of each grade
    requests,   \* rows of grade_change_requests
    alerts,     \* grade-alert jobs put in the notifications queue
    req         \* state of each handler

db   == <<grade, audit, requests>>
env  == <<open, gradable>>
vars == <<open, gradable, grade, audit, requests, alerts, req>>

(***************************************************************************)
(* Scores                                                                  *)
(***************************************************************************)
Points(score) == IF score = None THEN 0 ELSE score

Row == [scores: Scores, total: 0..100 \cup {None}, final: 0..100 \cup {None},
        status: GradeStatus]

CalculateGradeScores_RecoveryKept(s, status) ==
    LET total == Points(s["ser"]) + Points(s["saber"]) + Points(s["hacer"]) + Points(s["auto"])
        row(t, final) == [scores |-> s, total |-> t, final |-> final, status |-> status]
    IN  IF \A d \in Dimensions : s[d] = None THEN row(None, None)
        ELSE row(total, IF s["recovery"] # None /\ s["recovery"] < PassMark
                        THEN s["recovery"] ELSE total)

\* calculateGradeScores, and the row that its callers store: no total without a
\* dimension; a passing total leaves no recovery; a recovery exam counts up to
\* the pass mark.
CalculateGradeScores(s, status) ==
    LET total == Points(s["ser"]) + Points(s["saber"]) + Points(s["hacer"]) + Points(s["auto"])
        row(recovery, t, final) ==
            [scores |-> [s EXCEPT !["recovery"] = recovery],
             total |-> t, final |-> final, status |-> status]
    IN  IF \A d \in Dimensions : s[d] = None THEN row(s["recovery"], None, None)
        ELSE IF total >= PassMark \/ s["recovery"] = None THEN row(None, total, total)
        ELSE row(s["recovery"], total,
                 IF s["recovery"] < PassMark THEN s["recovery"] ELSE PassMark)

Edited_NoDefaultStatus(item, row) ==
    CalculateGradeScores(
        [f \in Fields |->
            IF item.scores[f] # Absent THEN item.scores[f]
            ELSE IF row = None THEN None ELSE row.scores[f]],
        item.status)
\* An edit replaces the fields it names, by null too, and keeps the others
\* of the row that was read (null when there was none).
Edited(item, row) ==
    CalculateGradeScores(
        [f \in Fields |->
            IF item.scores[f] # Absent THEN item.scores[f]
            ELSE IF row = None THEN None ELSE row.scores[f]],
        IF item.status # Absent THEN item.status
        ELSE IF row = None THEN "DRAFT" ELSE row.status)

\* An approved proposal replaces the scores it proposes and publishes.
Corrected(proposed, row) ==
    CalculateGradeScores(
        [f \in Fields |->
            IF proposed[f] # None THEN proposed[f] ELSE row.scores[f]],
        "PUBLISHED")

Failing(row) == row.final # None /\ row.final < PassMark

(***************************************************************************)
(* State                                                                   *)
(***************************************************************************)
AuditRow == [by: {"edit", "approval"}, old: Row \cup {None}, new: Row]
ChangeRequest == [e: Enrollments, proposed: Scores, status: RequestStatus]
Alert == [e: Enrollments, final: 0..100]

ASSUME NullAssumption == None \notin Row \cup AuditRow \cup ChangeRequest

Handler ==
    [pc: {"idle", "read", "filter", "bulkRead", "commit", "alert",
          "create", "resolve", "resolveCommit"},
     items: Seq(Item),                          \* the edits of the request
     valid: SUBSET Enrollments,                 \* the students it may grade
     snapshot: [Enrollments -> Row \cup {None}],  \* the rows it has read
     notify: SUBSET Alert,                      \* alerts still to be sent
     request: ChangeRequest \cup {None},        \* the one created or resolved
     id: Requests \cup {None},
     decision: RequestStatus]

NoRows == [e \in Enrollments |-> None]
Idle == [pc |-> "idle", items |-> <<>>, valid |-> {}, snapshot |-> NoRows, notify |-> {},
         request |-> None, id |-> None, decision |-> "PENDING"]

TypeOK ==
    /\ open \in BOOLEAN
    /\ gradable \in SUBSET Enrollments
    /\ grade \in [Enrollments -> Row \cup {None}]
    /\ audit \in [Enrollments -> AuditRow \cup {None}]
    /\ requests \in [Requests -> ChangeRequest \cup {None}]
    /\ alerts \in SUBSET Alert
    /\ req \in [Handlers -> Handler]

Init ==
    /\ open = TRUE
    /\ gradable = Enrollments
    /\ grade = NoRows
    /\ audit = NoRows
    /\ requests = [r \in Requests |-> None]
    /\ alerts = {}
    /\ req = [h \in Handlers |-> Idle]

Goes(h, pc) == req' = [req EXCEPT ![h].pc = pc]
Ends(h)     == req' = [req EXCEPT ![h] = Idle]

-----------------------------------------------------------------------------
(***************************************************************************)
(* upsertGrade: checks, reads the row, then upserts it with its audit      *)
(***************************************************************************)
EditAllowed_NoCheck == TRUE
EditAllowed == open

UpsertCheck(h) ==
    /\ req[h].pc = "idle"
    /\ EditAllowed
    /\ \E item \in Upserts :
          req' = [req EXCEPT ![h].pc = "read", ![h].items = <<item>>,
                             ![h].valid = {item.e}]
    /\ UNCHANGED <<env, db, alerts>>

\* The items of a handler for student e, and the rows that it reads for them.
ItemsFor(h, e) ==
    {i \in DOMAIN req[h].items : req[h].items[i].e = e /\ e \in req[h].valid}
RowsOf(h) == [e \in Enrollments |-> IF ItemsFor(h, e) = {} THEN None ELSE grade[e]]

UpsertRead(h) ==
    /\ req[h].pc = "read"
    /\ req' = [req EXCEPT ![h].pc = "commit", ![h].snapshot = RowsOf(h)]
    /\ UNCHANGED <<env, db, alerts>>

(***************************************************************************)
(* updateBulkGrades: checks, drops the students that may not be graded,    *)
(* then reads and upserts the others in one transaction                    *)
(***************************************************************************)
BulkCheck(h) ==
    /\ h \in BulkHandlers
    /\ req[h].pc = "idle"
    /\ EditAllowed
    /\ \E items \in Bulks :
          req' = [req EXCEPT ![h].pc = "filter", ![h].items = items]
    /\ UNCHANGED <<env, db, alerts>>

BulkFilter(h) ==
    LET listed == {req[h].items[i].e : i \in DOMAIN req[h].items}
    IN  /\ req[h].pc = "filter"
        /\ \/ listed \cap gradable = {} /\ Ends(h)
           \/ /\ listed \cap gradable # {}
              /\ req' = [req EXCEPT ![h].pc = "bulkRead",
                                    ![h].valid = listed \cap gradable]
        /\ UNCHANGED <<env, db, alerts>>

BulkRead(h) ==
    /\ req[h].pc = "bulkRead"
    /\ req' = [req EXCEPT ![h].pc = "commit", ![h].snapshot = RowsOf(h)]
    /\ UNCHANGED <<env, db, alerts>>

(***************************************************************************)
(* The commit of either: every item is merged with the row read before the *)
(* first was written, so of two items for a student the last one stands.   *)
(***************************************************************************)
NewRow(h, i) == Edited(req[h].items[i], req[h].snapshot[req[h].items[i].e])
Last(indices)  == CHOOSE i \in indices : \A j \in indices : j <= i

AuditOf_BeforeNormalising(by, old, new) ==
    [by |-> by, old |-> old,
     new |-> IF old = None THEN new
             ELSE [new EXCEPT !.scores["recovery"] = old.scores["recovery"]]]
AuditOf(by, old, new) == [by |-> by, old |-> old, new |-> new]

Notified(h, i) == [e |-> req[h].items[i].e, final |-> NewRow(h, i).final]
Saved(h) == UNION {ItemsFor(h, e) : e \in Enrollments}
ToNotify_Drafts(h) ==
    {Notified(h, i) : i \in {j \in Saved(h) : Failing(NewRow(h, j))}}
\* The families to alert: of failing grades that are published.
ToNotify(h) ==
    {Notified(h, i) : i \in {j \in Saved(h) :
        Failing(NewRow(h, j)) /\ NewRow(h, j).status = "PUBLISHED"}}

EditCommit(h) ==
    LET row(e) == NewRow(h, Last(ItemsFor(h, e))) IN
    /\ req[h].pc = "commit"
    /\ grade' = [e \in Enrollments |->
          IF ItemsFor(h, e) = {} THEN grade[e] ELSE row(e)]
    /\ audit' = [e \in Enrollments |->
          IF ItemsFor(h, e) = {} THEN audit[e]
          ELSE AuditOf("edit", req[h].snapshot[e], row(e))]
    /\ IF ToNotify(h) = {} THEN Ends(h)
       ELSE req' = [req EXCEPT ![h] =
               [Idle EXCEPT !.pc = "alert", !.notify = ToNotify(h)]]
    /\ UNCHANGED <<env, requests, alerts>>

\* safeSendGradeAlert, one by one; a queue that fails is logged and ignored.
SendAlert(h) ==
    /\ req[h].pc = "alert"
    /\ \E a \in req[h].notify :
          /\ alerts' \in {alerts, alerts \cup {a}}
          /\ IF req[h].notify = {a} THEN Ends(h)
             ELSE req' = [req EXCEPT ![h].notify = @ \ {a}]
    /\ UNCHANGED <<env, db>>

-----------------------------------------------------------------------------
(***************************************************************************)
(* createChangeRequest                                                     *)
(***************************************************************************)
PendingFor(e) ==
    {r \in Requests : requests[r] # None /\ requests[r].e = e
                                         /\ requests[r].status = "PENDING"}

\* The id of the row to create is drawn among those no one else will use.
RequestCheck(h) ==
    /\ req[h].pc = "idle"
    /\ \E r \in Requests, e \in Enrollments, p \in Proposals :
          /\ requests[r] = None
          /\ \A g \in Handlers : req[g].id # r
          /\ grade[e] # None
          /\ PendingFor(e) = {}
          /\ req' = [req EXCEPT ![h].pc = "create", ![h].id = r, ![h].request =
                [e |-> e, proposed |-> p, status |-> "PENDING"]]
    /\ UNCHANGED <<env, db, alerts>>

RequestCreate(h) ==
    /\ req[h].pc = "create"
    /\ requests' = [requests EXCEPT ![req[h].id] = req[h].request]
    /\ Ends(h)
    /\ UNCHANGED <<env, grade, audit, alerts>>

(***************************************************************************)
(* resolveChangeRequest: reads the request with its grade, then resolves   *)
(* in a transaction that, on approval, updates the grade.  The alert is    *)
(* sent from inside the transaction.                                       *)
(***************************************************************************)
ResolveRead(h) ==
    /\ req[h].pc = "idle"
    /\ \E r \in Requests, d \in RequestStatus :
          /\ requests[r] # None
          /\ requests[r].status = "PENDING"
          /\ req' = [req EXCEPT ![h] = [Idle EXCEPT
                !.pc = "resolve", !.id = r, !.decision = d,
                !.request = requests[r],
                !.snapshot = [NoRows EXCEPT ![requests[r].e] = grade[requests[r].e]]]]
    /\ UNCHANGED <<env, db, alerts>>

Resolution(h) == Corrected(req[h].request.proposed, req[h].snapshot[req[h].request.e])

ResolveAlert(h) ==
    /\ req[h].pc = "resolve"
    /\ Goes(h, "resolveCommit")
    /\ IF req[h].decision = "APPROVED" /\ Failing(Resolution(h))
       THEN alerts' \in {alerts, alerts \cup
               {[e |-> req[h].request.e, final |-> Resolution(h).final]}}
       ELSE alerts' = alerts
    /\ UNCHANGED <<env, db>>

ResolveCommit_ApprovalOnly(h) ==
    /\ req[h].pc = "resolveCommit"
    /\ requests' = [requests EXCEPT ![req[h].id].status = req[h].decision]
    /\ Ends(h)
    /\ UNCHANGED <<env, grade, audit, alerts>>
ResolveCommit(h) ==
    LET e == req[h].request.e IN
    /\ req[h].pc = "resolveCommit"
    /\ requests' = [requests EXCEPT ![req[h].id].status = req[h].decision]
    /\ IF req[h].decision = "APPROVED"
       THEN /\ grade' = [grade EXCEPT ![e] = Resolution(h)]
            /\ audit' = [audit EXCEPT ![e] =
                  AuditOf("approval", req[h].snapshot[e], Resolution(h))]
       ELSE UNCHANGED <<grade, audit>>
    /\ Ends(h)
    /\ UNCHANGED <<env, alerts>>

-----------------------------------------------------------------------------
\* A request fails or its process stops: what is not committed is gone, but an
\* alert that has been sent is not.
Abort(h) ==
    /\ req[h].pc # "idle"
    /\ Ends(h)
    /\ UNCHANGED <<env, db, alerts>>

\* TrimestersService.update and EnrollmentsService.update.
OtherServices ==
    /\ \/ open' = ~open /\ UNCHANGED gradable
       \/ /\ \E e \in Enrollments : gradable' = IF e \in gradable
                                                THEN gradable \ {e}
                                                ELSE gradable \cup {e}
          /\ UNCHANGED open
    /\ UNCHANGED <<db, alerts, req>>

EditStep(h) == \/ UpsertRead(h) \/ BulkFilter(h) \/ BulkRead(h)
               \/ EditCommit(h) \/ SendAlert(h)
RequestStep(h) == RequestCreate(h) \/ ResolveAlert(h) \/ ResolveCommit(h)
Start(h) == UpsertCheck(h) \/ BulkCheck(h) \/ RequestCheck(h) \/ ResolveRead(h)

Next ==
    \/ \E h \in Handlers : Start(h) \/ EditStep(h) \/ RequestStep(h) \/ Abort(h)
    \/ OtherServices

Spec == Init /\ [][Next]_vars

\* A request that has been accepted goes on; nobody promises new ones.
FairSpec == Spec /\ \A h \in Handlers : WF_vars(EditStep(h) \/ RequestStep(h))

-----------------------------------------------------------------------------
(***************************************************************************)
(* Properties                                                              *)
(***************************************************************************)

\* The rules of Law 070 on one row, whatever edits and corrections made it.
Law070(row) ==
    LET s == row.scores IN
    /\ row.total = None <=> \A d \in Dimensions : s[d] = None
    /\ row.final = None <=> row.total = None
    /\ row.total # None =>
          /\ row.total = Points(s["ser"]) + Points(s["saber"])
                            + Points(s["hacer"]) + Points(s["auto"])
          /\ row.total >= PassMark => row.final = row.total
          /\ row.total < PassMark => row.final <= PassMark
          /\ s["recovery"] = None => row.final = row.total
          /\ s["recovery"] # None =>
                /\ row.total < PassMark
                /\ row.final = PassMark \/ row.final = s["recovery"]
                /\ row.final = PassMark <=> s["recovery"] >= PassMark

\* Every stored grade satisfies the law: a null, an absent field, a recovery
\* left over from an earlier failing total or a correction merged with an old
\* row never leave a total, final or recovery that disagree.
GradesFollowTheLaw ==
    \A e \in Enrollments : grade[e] # None => Law070(grade[e])

\* The newest audit row of a grade tells what is stored, however the writers
\* interleave and fail: no grade changes without its audit, nor the converse.
AuditTellsTheGrade ==
    \A e \in Enrollments :
        /\ grade[e] = None <=> audit[e] = None
        /\ grade[e] # None => audit[e].new = grade[e]

ApprovalEffect ==
    \A r \in Requests :
        requests[r] # None /\ requests'[r] # requests[r] =>
           LET q == requests[r]
           IN  IF requests'[r].status = "APPROVED"
               THEN /\ audit'[q.e].by = "approval"
                    /\ grade'[q.e].status = "PUBLISHED"
                    /\ \A d \in Dimensions :
                          q.proposed[d] # None =>
                             grade'[q.e].scores[d] = q.proposed[d]
               ELSE grade' = grade

\* A request becomes APPROVED in the step that publishes its proposal, with
\* the audit of an approval; one resolved otherwise changes no grade.
ApprovalTakesEffect == [][ApprovalEffect]_vars

\* What a resolution has told the family of, and has not committed yet.
Foretold(h) ==
    IF req[h].pc = "resolveCommit" /\ req[h].decision = "APPROVED" /\ Failing(Resolution(h))
    THEN {[e |-> req[h].request.e, final |-> Resolution(h).final]} ELSE {}

Published(a) == grade[a.e].final = a.final /\ grade[a.e].status = "PUBLISHED"

AlertsAreOfGrades ==
    /\ \A a \in alerts' \ alerts : \E h \in Handlers : a \in req[h].notify \cup Foretold(h)'
    /\ \A h \in Handlers : \A a \in req'[h].notify \ req[h].notify :
          (\A i, j \in ItemsFor(h, a.e) : i = j) => Published(a)'
    /\ \A h \in Handlers : \A a \in Foretold(h) \ Foretold(h)' : Published(a)' \/ Abort(h)

\* Families are told of what a commit has published, with one exception.  What
\* an edit hands to the queue it has just stored as PUBLISHED, never a draft
\* (of a list that names a student twice, the first result is handed over as
\* well).  A correction is announced from inside its transaction: the commit
\* stores what was announced, whoever else resolves or edits in between, unless
\* the transaction fails.  The family has been told then of a correction that
\* is not stored, and nothing takes it back.
AlertsToldOrForetold == [][AlertsAreOfGrades]_vars

\* A trimester closed for good settles its sheet: the edits that were checked
\* before the closing finish, and from then on only approvals change a grade.
ClosedSheetSettles ==
    <>[]~open => <>[][\A e \in Enrollments :
                         audit'[e] # audit[e] => audit'[e].by = "approval"]_vars

\* A resolved request stays as it was resolved.
ResolvedOnce ==
    [][\A r \in Requests :
          requests[r] # None /\ requests[r].status # "PENDING"
             => requests'[r] = requests[r]]_vars
================================================================================
