--------------------------- MODULE DataUpdatesProofs ---------------------------
(***************************************************************************)
(* Theorems about DataUpdates, for any students, tutors, forms and         *)
(* requests.                                                               *)
(***************************************************************************)
EXTENDS DataUpdates, TLAPS

-----------------------------------------------------------------------------
(***************************************************************************)
(* The invariant                                                           *)
(***************************************************************************)
\* A handler carries what its next statement needs.
HandOK(r) ==
    /\ r.pc \in {"find", "write", "verify", "student", "tutors"} => r.form \in Forms
    /\ r.pc \in {"verify", "student", "tutors", "reject"} => r.q \in Requests
    /\ r.next # 0

\* The request that a handler has found is there, and is about the same student
\* as the form that goes with it: others may replace the form, by another of that
\* student, and nobody forgets a request that somebody handles.
Refers(r) ==
    r.q # None =>
        /\ request[r.q] # None
        /\ r.form # None => request[r.q].form.e = r.form.e

Inv == TypeOK /\ \A h \in Handlers : HandOK(hand[h]) /\ Refers(hand[h])

LEMMA NullFacts ==
    None \notin Forms /\ None \notin Handlers /\ None \notin Requests
  BY DataUpdatesAssumption

LEMMA FormFacts ==
    ASSUME NEW f \in Forms
    PROVE  /\ f.e \in Enrollments /\ f.tutors \in Seq(Guardians) /\ Len(f.tutors) \in Nat
           /\ \A i \in 1..Len(f.tutors) : f.tutors[i] \in Guardians
  <1>1. f \in Form
    BY DataUpdatesAssumption
  <1>2. f.e \in Enrollments /\ f.tutors \in Seq(Guardians)
    BY <1>1 DEF Form
  <1> QED BY <1>2

LEMMA IdleHand == Idle \in Handler /\ HandOK(Idle) /\ Idle.q = None
  BY DEF Idle, Handler, HandOK

\* The handlers after a step of one of them.
LEMMA HandGoes ==
    ASSUME Inv, NEW h \in Handlers, NEW r \in Handler, HandOK(r), Goes(h, r)
    PROVE  /\ hand' \in [Handlers -> Handler]
           /\ \A g \in Handlers : HandOK(hand'[g])
           /\ \A g \in Handlers : hand'[g] = IF g = h THEN r ELSE hand[g]
  <1>1. hand' = [hand EXCEPT ![h] = r] /\ hand \in [Handlers -> Handler]
    BY DEF Goes, Inv, TypeOK
  <1>2. \A g \in Handlers : hand'[g] = IF g = h THEN r ELSE hand[g]
    BY <1>1
  <1> QED BY <1>1, <1>2 DEF Inv

\* A step that changes no row: locks, and where a handler is.
LEMMA QuietStep ==
    ASSUME Inv, NEW h \in Handlers, NEW r \in Handler, HandOK(r), Refers(r), Goes(h, r),
           UNCHANGED <<request, files>>,
           holder' \in [Enrollments \cup Guardians -> Handlers \cup {None}]
    PROVE  Inv'
  <1>1. /\ hand' \in [Handlers -> Handler]
        /\ \A g \in Handlers : HandOK(hand'[g])
        /\ \A g \in Handlers : hand'[g] = IF g = h THEN r ELSE hand[g]
    BY HandGoes
  <1>2. TypeOK'
    BY <1>1 DEF Inv, TypeOK, files
  <1>3. \A g \in Handlers : Refers(hand[g])'
    BY <1>1 DEF Inv, Refers
  <1> QED BY <1>1, <1>2, <1>3 DEF Inv

\* A step that changes rows of requests, but not whom they are about, and that
\* leaves its handler idle.
LEMMA RowStep ==
    ASSUME Inv, NEW h \in Handlers, Goes(h, Idle),
           request' \in [Requests -> Row \cup {None}],
           \A q \in Requests : request[q] # None =>
              request'[q] # None /\ request'[q].form.e = request[q].form.e,
           file' \in [Enrollments -> Forms \cup {None}],
           tutor' \in [Guardians -> Forms \cup {None}],
           count' \in [Enrollments -> Nat],
           holder' \in [Enrollments \cup Guardians -> Handlers \cup {None}]
    PROVE  Inv'
  <1>1. /\ hand' \in [Handlers -> Handler]
        /\ \A g \in Handlers : HandOK(hand'[g])
        /\ \A g \in Handlers : hand'[g] = IF g = h THEN Idle ELSE hand[g]
    BY HandGoes, IdleHand
  <1>2. TypeOK'
    BY <1>1 DEF TypeOK
  <1>3. \A g \in Handlers : Refers(hand[g])'
    <2> SUFFICES ASSUME NEW g \in Handlers, hand'[g].q # None
                 PROVE  /\ request'[hand'[g].q] # None
                        /\ hand'[g].form # None
                              => request'[hand'[g].q].form.e = hand'[g].form.e
      BY DEF Refers
    <2>1. hand'[g] = hand[g]
      BY <1>1, IdleHand
    <2>2. hand[g].q \in Requests
      BY <2>1 DEF Inv, TypeOK, Handler
    <2>3. /\ request[hand[g].q] # None
          /\ hand[g].form # None => request[hand[g].q].form.e = hand[g].form.e
      BY <2>1 DEF Inv, Refers
    <2> QED BY <2>1, <2>2, <2>3
  <1> QED BY <1>1, <1>2, <1>3 DEF Inv

LEMMA LocksTyped ==
    ASSUME TypeOK, NEW h \in Handlers
    PROVE  /\ Released(h) \in [Enrollments \cup Guardians -> Handlers \cup {None}]
           /\ \A x \in Enrollments \cup Guardians :
                 [holder EXCEPT ![x] = h] \in [Enrollments \cup Guardians -> Handlers \cup {None}]
  BY DEF Released, TypeOK

LEMMA HandFacts ==
    ASSUME Inv, NEW h \in Handlers
    PROVE  /\ hand[h] \in Handler /\ HandOK(hand[h]) /\ Refers(hand[h])
           /\ TypeOK /\ request \in [Requests -> Row \cup {None}]
  BY DEF Inv, TypeOK

-----------------------------------------------------------------------------
(***************************************************************************)
(* Submissions                                                             *)
(***************************************************************************)
LEMMA EndsQuiet ==
    ASSUME Inv, NEW h \in Handlers, Ends(h), UNCHANGED <<request, files>>
    PROVE  Inv'
  BY QuietStep, IdleHand, LocksTyped DEF Ends, Refers, Inv

LEMMA SubmitCheckStep ==
    ASSUME Inv, NEW h \in Handlers, SubmitCheck(h)
    PROVE  Inv'
  <1>1. PICK f \in Forms : Goes(h, [Idle EXCEPT !.pc = "find", !.form = f])
    BY DEF SubmitCheck
  <1>2. PICK n : n = [Idle EXCEPT !.pc = "find", !.form = f]
    OBVIOUS
  <1>3. n \in Handler /\ HandOK(n) /\ n.q = None
    <2>1. n = [pc |-> "find", q |-> None, form |-> f, next |-> 1]
      BY <1>2 DEF Idle
    <2> QED BY ONLY <2>1, f \in Forms DEF Handler, HandOK
  <1>4. Goes(h, n) /\ UNCHANGED <<request, files, holder>>
    BY <1>1, <1>2 DEF SubmitCheck
  <1> QED BY <1>3, <1>4, QuietStep DEF Refers, Inv, TypeOK

LEMMA SubmitFindStep ==
    ASSUME Inv, NEW h \in Handlers, SubmitFind(h)
    PROVE  Inv'
  <1>1. PICK pending : pending = {q \in Requests : IsPending(q) /\ request[q].form.e = hand[h].form.e}
    OBVIOUS
  <1>2. PICK q \in IF pending = {} THEN {None} ELSE pending :
           Goes(h, [hand[h] EXCEPT !.pc = "write", !.q = q])
    BY <1>1 DEF SubmitFind
  <1>3. PICK n : n = [hand[h] EXCEPT !.pc = "write", !.q = q]
    OBVIOUS
  <1>4. hand[h].pc = "find" /\ UNCHANGED <<request, files, holder>>
    BY DEF SubmitFind
  <1>5. q = None \/ (q \in Requests /\ request[q] # None /\ request[q].form.e = hand[h].form.e)
    BY <1>1, <1>2 DEF IsPending
  <1>6. /\ n \in Handler /\ HandOK(n) /\ n.q = q /\ n.form = hand[h].form
    BY <1>3, <1>4, <1>5, HandFacts DEF Handler, HandOK
  <1>7. Refers(n)
    BY <1>5, <1>6 DEF Refers
  <1>8. Goes(h, n)
    BY <1>2, <1>3
  <1> QED BY <1>4, <1>6, <1>7, <1>8, QuietStep DEF Inv, TypeOK

\* A form in the row of a request, new or replaced.
LEMMA NewRowFacts ==
    ASSUME NEW f \in Forms
    PROVE  NewRow(f) \in Row /\ NewRow(f) # None
  BY DataUpdatesAssumption DEF NewRow, Row

LEMMA SubmitWriteStep ==
    ASSUME Inv, NEW h \in Handlers, SubmitWrite(h)
    PROVE  Inv'
  <1>1. PICK r : r = hand[h]
    OBVIOUS
  <1>2. /\ r \in Handler /\ r.form \in Forms /\ Refers(r) /\ r.form # None
        /\ request \in [Requests -> Row \cup {None}]
    BY <1>1, HandFacts, NullFacts DEF SubmitWrite, HandOK
  <1>3. Goes(h, Idle) /\ UNCHANGED <<files, holder>>
    BY DEF SubmitWrite
  <1>4. /\ request' \in [Requests -> Row \cup {None}]
        /\ \A q \in Requests : request[q] # None =>
              request'[q] # None /\ request'[q].form.e = request[q].form.e
    <2>1. CASE r.q # None /\ request' = [request EXCEPT ![r.q].form = r.form]
      <3>1. r.q \in Requests /\ request[r.q] # None /\ request[r.q].form.e = r.form.e
        BY <1>2, <2>1 DEF Handler, Refers
      <3>2. request[r.q] \in Row
        BY <1>2, <3>1
      <3>3. PICK n : n = [request[r.q] EXCEPT !.form = r.form]
        OBVIOUS
      <3>4. n \in Row /\ n.form = r.form
        BY <1>2, <3>2, <3>3 DEF Row
      <3>5. request' = [request EXCEPT ![r.q] = n]
        BY <2>1, <3>3
      <3>6. n # None
        BY <3>4, DataUpdatesAssumption
      <3> QED BY <1>2, <3>1, <3>4, <3>5, <3>6
    <2>2. CASE \E q \in Requests : request[q] = None
                                    /\ request' = [request EXCEPT ![q] = NewRow(r.form)]
      <3>1. PICK q \in Requests : request[q] = None
                                    /\ request' = [request EXCEPT ![q] = NewRow(r.form)]
        BY <2>2
      <3>2. PICK n : n = NewRow(r.form)
        OBVIOUS
      <3>3. n \in Row
        BY <1>2, <3>2, NewRowFacts
      <3>4. request' = [request EXCEPT ![q] = n]
        BY <3>1, <3>2
      <3> QED BY <1>2, <3>1, <3>3, <3>4
    <2> QED BY <1>1, <2>1, <2>2 DEF SubmitWrite
  <1> QED BY <1>3, <1>4, HandFacts, RowStep DEF files, TypeOK

-----------------------------------------------------------------------------
(***************************************************************************)
(* Approvals and rejections                                                *)
(***************************************************************************)
LEMMA ReadStep ==
    ASSUME Inv, NEW h \in Handlers, ApproveRead(h) \/ RejectRead(h)
    PROVE  Inv'
  <1>1. CASE ApproveRead(h)
    <2>1. PICK q \in Requests :
             /\ IsPending(q)
             /\ Goes(h, [Idle EXCEPT !.pc = "verify", !.q = q, !.form = request[q].form])
      BY <1>1 DEF ApproveRead
    <2>2. PICK f : f = request[q].form
      OBVIOUS
    <2>3. PICK n : n = [Idle EXCEPT !.pc = "verify", !.q = q, !.form = f]
      OBVIOUS
    <2>4. f \in Forms /\ request[q] # None
      BY <2>1, <2>2, HandFacts DEF IsPending, Row
    <2>5. n \in Handler /\ HandOK(n) /\ n.q = q /\ n.form = f
      <3>1. n = [pc |-> "verify", q |-> q, form |-> f, next |-> 1]
        BY <2>3 DEF Idle
      <3> QED BY ONLY <2>4, <3>1, q \in Requests DEF Handler, HandOK
    <2>6. Goes(h, n) /\ Refers(n) /\ UNCHANGED <<request, files, holder>>
      BY <1>1, <2>1, <2>2, <2>3, <2>4, <2>5 DEF ApproveRead, Refers
    <2> QED BY <2>5, <2>6, QuietStep DEF Inv, TypeOK
  <1>2. CASE RejectRead(h)
    <2>1. PICK q \in Requests :
             /\ IsPending(q)
             /\ Goes(h, [Idle EXCEPT !.pc = "reject", !.q = q])
      BY <1>2 DEF RejectRead
    <2>2. PICK n : n = [Idle EXCEPT !.pc = "reject", !.q = q]
      OBVIOUS
    <2>3. n \in Handler /\ HandOK(n) /\ n.q = q /\ n.form = None
      <3>1. n = [pc |-> "reject", q |-> q, form |-> None, next |-> 1]
        BY <2>2 DEF Idle
      <3> QED BY ONLY <3>1, q \in Requests DEF Handler, HandOK
    <2>4. Goes(h, n) /\ Refers(n) /\ UNCHANGED <<request, files, holder>>
      BY <1>2, <2>1, <2>2, <2>3 DEF RejectRead, Refers, IsPending
    <2> QED BY <2>3, <2>4, QuietStep DEF Inv, TypeOK
  <1> QED BY <1>1, <1>2

\* A transaction that goes on with the same request and form.
LEMMA OnHand ==
    ASSUME NEW r \in Handler, HandOK(r), Refers(r), r.pc \in {"verify", "student", "tutors"},
           NEW pc \in {"student", "tutors"}, NEW next \in Nat \ {0}, NEW n,
           n = [r EXCEPT !.pc = pc, !.next = next]
    PROVE  n \in Handler /\ HandOK(n) /\ Refers(n)
  <1>1. n \in Handler /\ n.form = r.form /\ n.q = r.q /\ n.next = next /\ n.pc = pc
    BY DEF Handler
  <1>2. HandOK(n)
    BY <1>1 DEF HandOK
  <1> QED BY <1>1, <1>2 DEF Refers

LEMMA ApproveVerifyStep ==
    ASSUME Inv, NEW h \in Handlers, ApproveVerify(h)
    PROVE  Inv'
  <1>1. UNCHANGED <<request, files, holder>> /\ hand[h].pc = "verify"
    BY DEF ApproveVerify
  <1>2. CASE Goes(h, Idle)
    BY <1>1, <1>2, QuietStep, IdleHand DEF Refers, Inv, TypeOK
  <1>3. CASE ~Goes(h, Idle)
    <2>1. PICK n : n = [hand[h] EXCEPT !.pc = "student"]
      OBVIOUS
    <2>2. Goes(h, n)
      BY <1>3, <2>1 DEF ApproveVerify
    <2>3. /\ n \in Handler /\ n.form = hand[h].form /\ n.q = hand[h].q
          /\ n.next = hand[h].next /\ n.pc = "student"
      BY <2>1, HandFacts DEF Handler
    <2>4. HandOK(n) /\ Refers(n)
      BY <1>1, <2>3, HandFacts DEF HandOK, Refers
    <2> QED BY <1>1, <2>2, <2>3, <2>4, QuietStep DEF Inv, TypeOK
  <1> QED BY <1>2, <1>3

LEMMA ApproveStudentStep ==
    ASSUME Inv, NEW h \in Handlers, ApproveStudent(h)
    PROVE  Inv'
  <1>1. PICK n : n = [hand[h] EXCEPT !.pc = "tutors"]
    OBVIOUS
  <1>2. /\ hand[h].pc = "student" /\ Goes(h, n) /\ UNCHANGED <<request, files>>
        /\ holder' = [holder EXCEPT ![hand[h].form.e] = h]
    BY <1>1 DEF ApproveStudent
  <1>3. /\ n \in Handler /\ n.form = hand[h].form /\ n.q = hand[h].q
        /\ n.next = hand[h].next /\ n.pc = "tutors"
    BY <1>1, HandFacts DEF Handler
  <1>4. HandOK(n) /\ Refers(n)
    BY <1>2, <1>3, HandFacts DEF HandOK, Refers
  <1>5. hand[h].form.e \in Enrollments
    BY <1>2, HandFacts, FormFacts DEF HandOK
  <1>6. holder' \in [Enrollments \cup Guardians -> Handlers \cup {None}]
    BY <1>2, <1>5, HandFacts, LocksTyped
  <1> QED BY <1>2, <1>3, <1>4, <1>6, QuietStep

LEMMA ApproveTutorStep ==
    ASSUME Inv, NEW h \in Handlers, ApproveTutor(h)
    PROVE  Inv'
  <1>1. PICK r : r = hand[h]
    OBVIOUS
  <1>2. PICK n : n = [r EXCEPT !.next = r.next + 1]
    OBVIOUS
  <1>3. /\ r.pc = "tutors" /\ Goes(h, n) /\ UNCHANGED <<request, files>>
        /\ r.next <= Len(r.form.tutors)
        /\ holder' = [holder EXCEPT ![r.form.tutors[r.next]] = h]
    BY <1>1, <1>2 DEF ApproveTutor
  <1>4. r \in Handler /\ HandOK(r) /\ Refers(r)
    BY <1>1, HandFacts
  <1>5. r.form \in Forms /\ r.next \in Nat \ {0}
    BY <1>3, <1>4 DEF HandOK, Handler
  <1>6. /\ n \in Handler /\ n.form = r.form /\ n.q = r.q
        /\ n.next = r.next + 1 /\ n.pc = "tutors"
    BY <1>2, <1>3, <1>4, <1>5 DEF Handler
  <1>7. HandOK(n) /\ Refers(n)
    BY <1>3, <1>4, <1>5, <1>6 DEF HandOK, Refers
  <1>8. r.form.tutors[r.next] \in Guardians
    BY <1>3, <1>5, FormFacts
  <1>9. holder' \in [Enrollments \cup Guardians -> Handlers \cup {None}]
    BY <1>3, <1>8, HandFacts, LocksTyped
  <1> QED BY <1>3, <1>6, <1>7, <1>9, QuietStep

\* The status of a request that is there changes by its id.
LEMMA StatusRows ==
    ASSUME Inv, NEW q \in Requests, request[q] # None,
           NEW status \in {"PENDING", "APPROVED", "REJECTED"},
           request' = [request EXCEPT ![q].status = status]
    PROVE  /\ request' \in [Requests -> Row \cup {None}]
           /\ \A p \in Requests : request[p] # None =>
                 request'[p] # None /\ request'[p].form.e = request[p].form.e
           /\ request'[q].status = status
  <1>1. request \in [Requests -> Row \cup {None}]
    BY DEF Inv, TypeOK
  <1>2. request[q] \in Row
    BY <1>1
  <1>3. PICK n : n = [request[q] EXCEPT !.status = status]
    OBVIOUS
  <1>4. n \in Row /\ n.form = request[q].form /\ n.status = status
    BY <1>2, <1>3 DEF Row
  <1>5. n # None
    BY <1>4, DataUpdatesAssumption
  <1>6. request' = [request EXCEPT ![q] = n]
    BY <1>3
  <1> QED BY <1>1, <1>4, <1>5, <1>6

\* The commit of an approval: the merge of its form, whole.
LEMMA CommitFacts ==
    ASSUME Inv, NEW h \in Handlers, ApproveCommit(h)
    PROVE  LET r == hand[h] IN
           /\ r.form \in Forms /\ r.q \in Requests /\ request[r.q] # None
           /\ request[r.q].form.e = r.form.e
           /\ request' \in [Requests -> Row \cup {None}]
           /\ \A p \in Requests : request[p] # None =>
                 request'[p] # None /\ request'[p].form.e = request[p].form.e
           /\ request'[r.q].status = "APPROVED"
           /\ file' = [file EXCEPT ![r.form.e] = r.form]
           /\ tutor' = [g \in Guardians |-> IF g \in Written(r.form) THEN r.form ELSE tutor[g]]
           /\ count' = [count EXCEPT ![r.form.e] = count[r.form.e] + 1]
           /\ Ends(h)
  <1>1. PICK r : r = hand[h]
    OBVIOUS
  <1>2. /\ r.pc = "tutors"
        /\ file' = [file EXCEPT ![r.form.e] = r.form]
        /\ tutor' = [g \in Guardians |-> IF g \in Written(r.form) THEN r.form ELSE tutor[g]]
        /\ count' = [count EXCEPT ![r.form.e] = count[r.form.e] + 1]
        /\ request' = [request EXCEPT ![r.q].status = "APPROVED"]
        /\ Ends(h)
    BY <1>1 DEF ApproveCommit, Counted
  <1>3. r.form \in Forms /\ r.q \in Requests
    BY <1>1, <1>2, HandFacts DEF HandOK
  <1>4. request[r.q] # None /\ request[r.q].form.e = r.form.e
    BY <1>1, <1>3, HandFacts, NullFacts DEF Refers
  <1> QED BY <1>1, <1>2, <1>3, <1>4, StatusRows

LEMMA ApproveCommitStep ==
    ASSUME Inv, NEW h \in Handlers, ApproveCommit(h)
    PROVE  Inv'
  <1>1. PICK f : f = hand[h].form
    OBVIOUS
  <1>2. /\ f \in Forms
        /\ file' = [file EXCEPT ![f.e] = f]
        /\ tutor' = [g \in Guardians |-> IF g \in Written(f) THEN f ELSE tutor[g]]
        /\ count' = [count EXCEPT ![f.e] = count[f.e] + 1]
        /\ Ends(h)
    BY <1>1, CommitFacts
  <1>3. /\ file' \in [Enrollments -> Forms \cup {None}]
        /\ tutor' \in [Guardians -> Forms \cup {None}]
        /\ count' \in [Enrollments -> Nat]
    BY <1>2, FormFacts DEF Inv, TypeOK
  <1> QED BY <1>2, <1>3, CommitFacts, RowStep, HandFacts, LocksTyped DEF Ends

LEMMA RejectWriteStep ==
    ASSUME Inv, NEW h \in Handlers, RejectWrite(h)
    PROVE  Inv'
  <1>1. PICK q : q = hand[h].q
    OBVIOUS
  <1>2. /\ hand[h].pc = "reject" /\ request' = [request EXCEPT ![q].status = "REJECTED"]
        /\ Goes(h, Idle) /\ UNCHANGED <<files, holder>>
    BY <1>1 DEF RejectWrite
  <1>3. q \in Requests /\ request[q] # None
    BY <1>1, <1>2, HandFacts, NullFacts DEF HandOK, Refers
  <1>4. /\ request' \in [Requests -> Row \cup {None}]
        /\ \A p \in Requests : request[p] # None =>
              request'[p] # None /\ request'[p].form.e = request[p].form.e
    BY <1>2, <1>3, StatusRows
  <1> QED BY <1>2, <1>4, RowStep, HandFacts DEF files, TypeOK

-----------------------------------------------------------------------------
(***************************************************************************)
(* Every step keeps the invariant                                          *)
(***************************************************************************)
LEMMA OtherSteps ==
    ASSUME Inv, \/ \E e \in Enrollments : MarkPhysicalDelivery(e)
                \/ \E q \in Requests : Forget(q)
    PROVE  Inv'
  <1>1. ASSUME NEW e \in Enrollments, MarkPhysicalDelivery(e) PROVE Inv'
    <2>1. count' \in [Enrollments -> Nat]
      BY <1>1, DataUpdatesAssumption DEF MarkPhysicalDelivery, Inv, TypeOK
    <2> QED BY <1>1, <2>1 DEF MarkPhysicalDelivery, Inv, TypeOK, Refers
  <1>2. ASSUME NEW q \in Requests, Forget(q) PROVE Inv'
    <2>1. /\ \A h \in Handlers : hand[h].q # q
          /\ request' = [request EXCEPT ![q] = None]
          /\ UNCHANGED <<files, holder, hand>>
      BY <1>2 DEF Forget
    <2>2. TypeOK'
      BY <2>1 DEF Inv, TypeOK, files
    <2>3. \A h \in Handlers : Refers(hand[h])'
      <3> SUFFICES ASSUME NEW h \in Handlers PROVE Refers(hand[h])'
        OBVIOUS
      <3>1. hand[h].q # None => hand[h].q \in Requests
        BY DEF Inv, TypeOK, Handler
      <3>2. request'[hand[h].q] = request[hand[h].q] \/ hand[h].q = None
        BY <2>1, <3>1 DEF Inv, TypeOK
      <3> QED BY <2>1, <3>2 DEF Inv, Refers
    <2> QED BY <2>1, <2>2, <2>3 DEF Inv
  <1> QED BY <1>1, <1>2

LEMMA InvStep ==
    ASSUME Inv, [Next]_vars
    PROVE  Inv'
  <1>1. ASSUME NEW h \in Handlers, SubmitCheck(h) \/ SubmitFind(h) \/ SubmitWrite(h) PROVE Inv'
    BY <1>1, SubmitCheckStep, SubmitFindStep, SubmitWriteStep
  <1>2. ASSUME NEW h \in Handlers,
               ApproveRead(h) \/ ApproveVerify(h) \/ ApproveStudent(h) \/ ApproveTutor(h)
        PROVE  Inv'
    BY <1>2, ReadStep, ApproveVerifyStep, ApproveStudentStep, ApproveTutorStep
  <1>3. ASSUME NEW h \in Handlers, ApproveCommit(h) \/ RejectRead(h) \/ RejectWrite(h)
        PROVE  Inv'
    BY <1>3, ApproveCommitStep, ReadStep, RejectWriteStep
  <1>4. ASSUME NEW h \in Handlers, Abort(h) \/ DeadlockAbort(h) PROVE Inv'
    BY <1>4, EndsQuiet DEF Abort, DeadlockAbort
  <1>5. CASE UNCHANGED vars
    BY <1>5 DEF vars, files, Inv, TypeOK, Refers
  <1> QED BY <1>1, <1>2, <1>3, <1>4, <1>5, OtherSteps DEF Next, Step

LEMMA InvInit == Init => Inv
  BY IdleHand DEF Init, Inv, TypeOK, Refers

\* Every variable keeps to its type, whatever families and reviewers do at the
\* same time: no status is written to a request that is gone, no form or lock
\* goes to a stranger.
THEOREM TypeCorrect == Spec => []TypeOK
  <1>1. Inv => TypeOK
    BY DEF Inv
  <1> QED BY <1>1, InvInit, InvStep, PTL DEF Spec

-----------------------------------------------------------------------------
(***************************************************************************)
(* Merges and the limit                                                    *)
(***************************************************************************)
\* Only the commit of an approval writes to the files.
LEMMA FilesChange ==
    ASSUME Inv, [Next]_vars
    PROVE  \/ UNCHANGED <<file, tutor, count>>
           \/ \E h \in Handlers : ApproveCommit(h)
           \/ \E e \in Enrollments : MarkPhysicalDelivery(e)
  BY DEF Next, Step, SubmitCheck, SubmitFind, SubmitWrite, ApproveRead, ApproveVerify,
         ApproveStudent, ApproveTutor, RejectRead, RejectWrite, DeadlockAbort, Abort, Forget,
         vars, files

\* Whatever fails, deadlocks or interleaves: a file or a tutor's row changes only
\* with the whole of a form, the student's file and every tutor it names, and
\* together with a request about that student that is APPROVED.
THEOREM MergesAreKeptWhole == Spec => MergesAreWhole
  <1>1. Inv /\ [Next]_vars =>
           [file' # file \/ tutor' # tutor => \E f \in Forms : Merged(f)]_vars
    <2> SUFFICES ASSUME Inv, [Next]_vars, file' # file \/ tutor' # tutor
                 PROVE  \E f \in Forms : Merged(f)
      OBVIOUS
    <2>1. PICK h \in Handlers : ApproveCommit(h)
      BY FilesChange DEF MarkPhysicalDelivery
    <2>2. PICK f, q : f = hand[h].form /\ q = hand[h].q
      OBVIOUS
    <2>3. /\ f \in Forms /\ q \in Requests
          /\ request'[q] # None /\ request'[q].form.e = f.e
          /\ request'[q].status = "APPROVED"
          /\ file' = [file EXCEPT ![f.e] = f]
          /\ tutor' = [g \in Guardians |-> IF g \in NamedBy(f) THEN f ELSE tutor[g]]
      BY <2>1, <2>2, CommitFacts DEF Written, NamedBy
    <2> QED BY <2>3 DEF Merged
  <1> QED BY <1>1, InvInit, InvStep, PTL DEF Spec, MergesAreWhole

\* No approval, however late, takes a family that has reached its limit below it.
THEOREM LimitStaysFinal == Spec => LimitIsFinal
  <1>1. Inv /\ [Next]_vars =>
           [\A e \in Enrollments : count[e] >= Max => count'[e] >= Max]_vars
    <2> SUFFICES ASSUME Inv, [Next]_vars, NEW e \in Enrollments, count[e] >= Max
                 PROVE  count'[e] >= Max
      OBVIOUS
    <2>1. count \in [Enrollments -> Nat] /\ Max \in Nat
      BY DataUpdatesAssumption DEF Inv, TypeOK
    <2>2. CASE UNCHANGED count
      BY <2>2
    <2>3. ASSUME NEW h \in Handlers, ApproveCommit(h) PROVE count'[e] >= Max
      <3>1. PICK f : f = hand[h].form
        OBVIOUS
      <3>2. f.e \in Enrollments /\ count' = [count EXCEPT ![f.e] = count[f.e] + 1]
        BY <2>3, <3>1, CommitFacts, FormFacts
      <3> QED BY <2>1, <3>2
    <2>4. ASSUME NEW x \in Enrollments, MarkPhysicalDelivery(x) PROVE count'[e] >= Max
      BY <2>1, <2>4 DEF MarkPhysicalDelivery
    <2> QED BY <2>2, <2>3, <2>4, FilesChange
  <1> QED BY <1>1, InvInit, InvStep, PTL DEF Spec, LimitIsFinal
=============================================================================
