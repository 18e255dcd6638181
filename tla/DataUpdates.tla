------------------------------ MODULE DataUpdates ------------------------------
(***************************************************************************)
(* The digital update of RUDE files.                                       *)
(*                                                                         *)
(*   api/src/data-updates/data-updates.service.ts                          *)
(*   api/src/data-updates/data-updates-transaction.service.ts              *)
(*                                                                         *)
(* A family proposes a form by a link; a reviewer rejects it, or approves  *)
(* it: one transaction merges it into the student's file and the rows of   *)
(* the tutors it names, counts the update and closes the request.  Brothers *)
(* and sisters share tutors.  A transaction holds the lock of each row it  *)
(* writes, and what it writes becomes visible at its commit.               *)
(***************************************************************************)
EXTENDS Integers, Sequences, FiniteSets

CONSTANTS
    Enrollments,    \* enrollments of the year, one to a student
    Guardians,      \* tutors, by identity card
    Forms,          \* the proposals that families send
    Requests,       \* ids of data_update_requests rows
    Handlers,       \* concurrent requests to the API
    Max,            \* maxRudeUpdatesPerYear
    None            \* no row, nothing merged yet, a free lock

\* A form is about a student and names tutors, with card and name, in order.
Form == [e: Enrollments, tutors: Seq(Guardians)]
Row  == [form: Forms, status: {"PENDING", "APPROVED", "REJECTED"}]

ASSUME DataUpdatesAssumption ==
    /\ Forms \subseteq Form
    /\ Enrollments \cap Guardians = {}
    /\ Max \in Nat \ {0}
    /\ None \notin Forms \cup Handlers \cup Requests \cup Row

VARIABLES
    request,    \* the rows of data_update_requests
    file,       \* the form merged last into the file of a student
    tutor,      \* the form merged last into the row of a tutor
    count,      \* rudeUpdateCount of each enrollment
    holder,     \* who holds the lock of the row of a student or a tutor
    hand        \* state of each handler

files == <<file, tutor, count>>
vars  == <<request, file, tutor, count, holder, hand>>

Handler == [pc: {"idle", "find", "write", "verify", "student", "tutors", "reject"},
            q: Requests \cup {None}, form: Forms \cup {None},
            next: Nat]                  \* the tutor to deal with
Idle == [pc |-> "idle", q |-> None, form |-> None, next |-> 1]

TypeOK ==
    /\ request \in [Requests -> Row \cup {None}]
    /\ file \in [Enrollments -> Forms \cup {None}]
    /\ tutor \in [Guardians -> Forms \cup {None}]
    /\ count \in [Enrollments -> Nat]
    /\ holder \in [Enrollments \cup Guardians -> Handlers \cup {None}]
    /\ hand \in [Handlers -> Handler]

Init ==
    /\ request = [q \in Requests |-> None]
    /\ file = [e \in Enrollments |-> None]
    /\ tutor = [g \in Guardians |-> None]
    /\ count = [e \in Enrollments |-> 0]
    /\ holder = [x \in Enrollments \cup Guardians |-> None]
    /\ hand = [h \in Handlers |-> Idle]

IsPending(q) == request[q] # None /\ request[q].status = "PENDING"
Goes(h, r)   == hand' = [hand EXCEPT ![h] = r]
Released(h)  == [x \in DOMAIN holder |-> IF holder[x] = h THEN None ELSE holder[x]]
\* A row that the transaction has written is its own: a form may name a tutor twice.
Free_OutsideTransaction(h, x) == holder[x] = None
Free(h, x) == holder[x] \in {None, h}
\* The handler ends; if it had a transaction, that leaves nothing behind.
Ends(h) == holder' = Released(h) /\ Goes(h, Idle)

-----------------------------------------------------------------------------
(***************************************************************************)
(* submitUpdate                                                            *)
(***************************************************************************)
\* The bound on the requests: a family starts only while an id will be left.
BoundOfRequests ==
    Cardinality({h \in Handlers : hand[h].pc \in {"find", "write"}})
        < Cardinality({q \in Requests : request[q] = None})

\* validateCampaignAndLimits.  A campaign that is closed, a year that is over and
\* a student who has left refuse a family at any time, which changes nothing.
SubmitCheck(h) ==
    /\ hand[h].pc = "idle"
    /\ BoundOfRequests
    /\ \E f \in Forms :
          /\ count[f.e] < Max
          /\ Goes(h, [Idle EXCEPT !.pc = "find", !.form = f])
    /\ UNCHANGED <<request, files, holder>>

\* findFirst: a pending request of the enrollment, in whatever order, if any.
SubmitFind(h) ==
    LET pending == {q \in Requests : IsPending(q) /\ request[q].form.e = hand[h].form.e} IN
    /\ hand[h].pc = "find"
    /\ \E q \in IF pending = {} THEN {None} ELSE pending :
          Goes(h, [hand[h] EXCEPT !.pc = "write", !.q = q])
    /\ UNCHANGED <<request, files, holder>>

NewRow_NoDefault(f) == [form |-> f, status |-> None]
NewRow(f) == [form |-> f, status |-> "PENDING"]

\* The form replaces that of the request found, by id alone; a family that had
\* none pending creates one.
SubmitWrite(h) ==
    LET r == hand[h] IN
    /\ r.pc = "write"
    /\ \/ r.q # None /\ request' = [request EXCEPT ![r.q].form = r.form]
       \/ /\ r.q = None
          /\ \E q \in Requests :
                /\ request[q] = None
                /\ request' = [request EXCEPT ![q] = NewRow(r.form)]
    /\ Goes(h, Idle)
    /\ UNCHANGED <<files, holder>>

-----------------------------------------------------------------------------
(***************************************************************************)
(* approveUpdate and executeApprovalTransaction                            *)
(***************************************************************************)
\* The proposal to be merged is the one read here, before the transaction.
ApproveRead(h) ==
    /\ hand[h].pc = "idle"
    /\ \E q \in Requests :
          /\ IsPending(q)
          /\ Goes(h, [Idle EXCEPT !.pc = "verify", !.q = q,
                                  !.form = request[q].form])
    /\ UNCHANGED <<request, files, holder>>

\* The transaction reads the status again, without locking the row.
ApproveVerify(h) ==
    /\ hand[h].pc = "verify"
    /\ IF IsPending(hand[h].q) THEN Goes(h, [hand[h] EXCEPT !.pc = "student"])
       ELSE Goes(h, Idle)
    /\ UNCHANGED <<request, files, holder>>

\* The updates of the student and of the RUDE record; then one upsert a tutor.
ApproveStudent(h) ==
    /\ hand[h].pc = "student"
    /\ Free(h, hand[h].form.e)
    /\ holder' = [holder EXCEPT ![hand[h].form.e] = h]
    /\ Goes(h, [hand[h] EXCEPT !.pc = "tutors"])
    /\ UNCHANGED <<request, files>>

ApproveTutor(h) ==
    LET r == hand[h] IN
    /\ r.pc = "tutors"
    /\ r.next <= Len(r.form.tutors)
    /\ Free(h, r.form.tutors[r.next])
    /\ holder' = [holder EXCEPT ![r.form.tutors[r.next]] = h]
    /\ Goes(h, [r EXCEPT !.next = @ + 1])
    /\ UNCHANGED <<request, files>>

\* The counter is incremented in the database, whatever it is by then.
Counted_FromRequests(e) ==
    Cardinality({q \in Requests : request[q] # None /\ request[q].form.e = e
                                    /\ request[q].status = "APPROVED"})
Counted_NotYet(e) == count[e]
Counted(e) == count[e] + 1

\* The rows of tutors that the transaction has written.
Written_FirstOnly(f) == {f.tutors[i] : i \in DOMAIN f.tutors \cap {1}}
Written(f) == {f.tutors[i] : i \in DOMAIN f.tutors}

\* The request becomes APPROVED by id, whatever its status is by then.
ApproveCommit(h) ==
    LET r == hand[h] IN
    /\ r.pc = "tutors"
    /\ r.next > Len(r.form.tutors)
    /\ file' = [file EXCEPT ![r.form.e] = r.form]
    /\ tutor' = [g \in Guardians |-> IF g \in Written(r.form) THEN r.form ELSE tutor[g]]
    /\ count' = [count EXCEPT ![r.form.e] = Counted(r.form.e)]
    /\ request' = [request EXCEPT ![r.q].status = "APPROVED"]
    /\ Ends(h)

-----------------------------------------------------------------------------
(***************************************************************************)
(* rejectUpdate and markPhysicalDelivery                                   *)
(***************************************************************************)
RejectRead(h) ==
    /\ hand[h].pc = "idle"
    /\ \E q \in Requests :
          /\ IsPending(q)
          /\ Goes(h, [Idle EXCEPT !.pc = "reject", !.q = q])
    /\ UNCHANGED <<request, files, holder>>

RejectWrite(h) ==
    /\ hand[h].pc = "reject"
    /\ request' = [request EXCEPT ![hand[h].q].status = "REJECTED"]
    /\ Goes(h, Idle)
    /\ UNCHANGED <<files, holder>>

\* The family has delivered the form on paper: the digital way is closed to it.
MarkPhysicalDelivery(e) ==
    /\ count' = [count EXCEPT ![e] = Max + 1]
    /\ UNCHANGED <<request, file, tutor, holder, hand>>

-----------------------------------------------------------------------------
(***************************************************************************)
(* Failures and the rest of the API                                        *)
(***************************************************************************)
WaitsFor(h, g) ==
    LET r == hand[h] IN
    /\ g # h
    /\ \/ r.pc = "student" /\ holder[r.form.e] = g
       \/ /\ r.pc = "tutors" /\ r.next <= Len(r.form.tutors)
          /\ holder[r.form.tutors[r.next]] = g
\* PostgreSQL finds the cycle of those who wait for each other, and aborts one.
Deadlocked(h) ==
    \E cycle \in SUBSET Handlers :
        /\ h \in cycle
        /\ \A k \in cycle : /\ \E g \in cycle : WaitsFor(k, g)
                            /\ \E g \in cycle : WaitsFor(g, k)
DeadlockAbort(h) ==
    /\ Deadlocked(h)
    /\ Ends(h)
    /\ UNCHANGED <<request, files>>

\* A transaction that expires, a card number that another student has, a
\* connection or a process that is lost.
Abort(h) ==
    /\ hand[h].pc # "idle"
    /\ Ends(h)
    /\ UNCHANGED <<request, files>>

\* Requests are never deleted; an old one that nobody handles plays no part any
\* more, and its name stands for the next one.
Forget(q) ==
    /\ request[q] # None /\ ~IsPending(q)
    /\ \A h \in Handlers : hand[h].q # q
    /\ request' = [request EXCEPT ![q] = None]
    /\ UNCHANGED <<files, holder, hand>>

Step(h) == \/ SubmitFind(h) \/ SubmitWrite(h) \/ ApproveVerify(h) \/ ApproveStudent(h)
           \/ ApproveTutor(h) \/ ApproveCommit(h) \/ RejectWrite(h) \/ DeadlockAbort(h)

Next ==
    \/ \E h \in Handlers : \/ SubmitCheck(h) \/ ApproveRead(h) \/ RejectRead(h)
                           \/ Step(h) \/ Abort(h)
    \/ \E e \in Enrollments : MarkPhysicalDelivery(e)
    \/ \E q \in Requests : Forget(q)

Spec == Init /\ [][Next]_vars

\* A request that has started goes on, and PostgreSQL serves those who wait
\* for a lock in order: strong fairness, since others may take it in between.
FairSpec == Spec /\ \A h \in Handlers : SF_vars(Step(h))

-----------------------------------------------------------------------------
(***************************************************************************)
(* Properties                                                              *)
(***************************************************************************)

\* The merge is seen whole or not at all: when a tutor's row changes, a student's
\* file and all the tutors of the same form change with it, and its request is
\* APPROVED.  Transactions that fail half way, or deadlock
\* over the tutors of brothers and sisters, leave none of it.
NamedBy(f) == {f.tutors[i] : i \in DOMAIN f.tutors}
Merged(f) ==
    /\ file' = [file EXCEPT ![f.e] = f]
    /\ tutor' = [g \in Guardians |-> IF g \in NamedBy(f) THEN f ELSE tutor[g]]
    /\ \E q \in Requests : request'[q] # None /\ request'[q].form.e = f.e
                            /\ request'[q].status = "APPROVED"
MergesAreWhole ==
    [][file' # file \/ tutor' # tutor => \E f \in Forms : Merged(f)]_vars

\* A family at its limit, by updates or by delivery on paper, stays there: an
\* approval that was under way while the paper arrived does not reopen it.
LimitIsFinal ==
    [][\A e \in Enrollments : count[e] >= Max => count'[e] >= Max]_vars

\* However many requests a family sends and reviewers approve in parallel, its
\* updates come to an end: the count that each merge raises is the count that
\* each submission reads.
UpdatesEnd ==
    <>[][\A h \in Handlers : ~ApproveCommit(h)]_vars

\* No reviewer waits for ever, though two approvals that share tutors named in
\* opposite orders lock each other out.
EveryRequestEnds ==
    \A h \in Handlers : hand[h].pc # "idle" ~> hand[h].pc = "idle"
=============================================================================
