--------------------------- MODULE TimetablesProofs ---------------------------
(***************************************************************************)
(* Theorems about Timetables, for any assignments, teachers, spaces, hours *)
(* and requests, and in both scheduling modes.                             *)
(***************************************************************************)
EXTENDS Timetables, TLAPS

-----------------------------------------------------------------------------
(***************************************************************************)
(* The invariant                                                           *)
(***************************************************************************)
\* What the tables hold, without the requests.
Database ==
    /\ teacher \in [Assignments -> Teachers \cup {None}]
    /\ graded \in SUBSET {a \in Assignments : teacher[a] # None}
    /\ space \in [Spaces -> {"active", "inactive", "gone"}]
    /\ slot \in [Slots -> Lesson \cup {None}]
    /\ \A i \in Slots : slot[i] # None =>
          /\ teacher[slot[i].a] # None
          /\ slot[i].s # None => space[slot[i].s] # "gone"

\* A request that is past its first read carries what it needs to write.
RequestOK(r) ==
    /\ r.pc \in {"check", "create", "reassign"} => r.a \in Assignments /\ r.t \in Teachers
    /\ r.pc \in {"check", "create"} => r.hour \in Hours
    /\ r.pc = "remove" => r.a \in Assignments
    /\ r.pc \in {"moveCheck", "move"} => r.id \in Slots
    /\ r.pc \in {"moveCheck", "deactivate", "delete"} => r.s \in Spaces

Requests == req \in [Handlers -> Handler] /\ \A h \in Handlers : RequestOK(req[h])

Inv == Database /\ Requests

LEMMA InvTypes == Inv => TypeOK
  BY DEF Inv, Database, Requests, TypeOK

\* null is none of the things there are.
LEMMA NullFacts ==
    /\ None \notin Assignments /\ None \notin Teachers /\ None \notin Spaces
    /\ None \notin Hours /\ None \notin Slots /\ None \notin Lesson
  BY TimetablesAssumption

-----------------------------------------------------------------------------
(***************************************************************************)
(* Requests                                                                *)
(***************************************************************************)
LEMMA IdleRequest == Idle \in Handler /\ RequestOK(Idle)
  BY DEF Idle, Handler, RequestOK

\* A request that goes on to a record in order leaves all of them in order.
LEMMA RequestGoes ==
    ASSUME Requests, NEW h \in Handlers, NEW r,
           r \in Handler, RequestOK(r), Goes(h, r)
    PROVE  Requests'
  <1>1. req' = [req EXCEPT ![h] = r]
    BY DEF Goes
  <1>2. req' \in [Handlers -> Handler]
    BY <1>1 DEF Requests
  <1>3. \A g \in Handlers : req'[g] = r \/ req'[g] = req[g]
    BY <1>1 DEF Requests
  <1> QED BY <1>2, <1>3 DEF Requests

LEMMA RequestEnds ==
    ASSUME Requests, NEW h \in Handlers, Goes(h, Idle)
    PROVE  Requests'
  BY RequestGoes, IdleRequest

\* Every kind of record that a request goes on to.
LEMMA SpacesForType ==
    ASSUME NEW a \in Assignments
    PROVE  SpacesFor(a) \subseteq Spaces \cup {None}
  <1>1. ClassroomOf[a] \in Classrooms
    BY DEF Classrooms
  <1>2. BaseRoom[ClassroomOf[a]] \in Spaces \cup {None}
    BY <1>1, TimetablesAssumption
  <1> QED BY <1>2 DEF SpacesFor

LEMMA CheckRecord ==
    ASSUME NEW a \in Assignments, NEW hour \in Hours, NEW t \in Teachers,
           NEW s \in Spaces \cup {None}
    PROVE  LET r == [Idle EXCEPT !.pc = "check", !.a = a, !.hour = hour, !.t = t, !.s = s]
           IN  r \in Handler /\ RequestOK(r)
  BY DEF Idle, Handler, RequestOK

LEMMA ReassignRecord ==
    ASSUME NEW a \in Assignments, NEW t \in Teachers
    PROVE  LET r == [Idle EXCEPT !.pc = "reassign", !.a = a, !.t = t]
           IN  r \in Handler /\ RequestOK(r)
  BY DEF Idle, Handler, RequestOK

LEMMA RemoveRecord ==
    ASSUME NEW a \in Assignments
    PROVE  LET r == [Idle EXCEPT !.pc = "remove", !.a = a]
           IN  r \in Handler /\ RequestOK(r)
  BY DEF Idle, Handler, RequestOK

LEMMA MoveRecord ==
    ASSUME NEW i \in Slots, NEW hour \in Hours, NEW s \in Spaces \cup {None}
    PROVE  LET r == [Idle EXCEPT !.pc = IF s = None THEN "move" ELSE "moveCheck",
                                 !.id = i, !.hour = hour, !.s = s]
           IN  r \in Handler /\ RequestOK(r)
  BY DEF Idle, Handler, RequestOK

LEMMA SpaceRecord ==
    ASSUME NEW s \in Spaces, NEW to \in {"deactivate", "delete"}
    PROVE  LET r == [Idle EXCEPT !.pc = to, !.s = s]
           IN  r \in Handler /\ RequestOK(r)
  BY DEF Idle, Handler, RequestOK

\* A check that is passed moves the request to the write that it was for.
LEMMA CheckedRecord ==
    ASSUME NEW r \in Handler, RequestOK(r), NEW to,
           \/ r.pc = "check" /\ to = "create"
           \/ r.pc = "moveCheck" /\ to = "move"
    PROVE  LET n == [r EXCEPT !.pc = to] IN n \in Handler /\ RequestOK(n)
  BY DEF Handler, RequestOK

LEMMA StartStep ==
    ASSUME Inv, NEW h \in Handlers, Start(h)
    PROVE  Requests'
  <1>1. CASE ReassignRead(h)
    BY <1>1, ReassignRecord, RequestGoes DEF ReassignRead, Inv
  <1>2. CASE RemoveCount(h)
    BY <1>2, RemoveRecord, RequestGoes DEF RemoveCount, Inv
  <1>3. CASE CreateRead(h)
    <2>1. PICK a \in Assignments, hour \in Hours : \E s \in SpacesFor(a) :
             /\ teacher[a] # None
             /\ Goes(h, [Idle EXCEPT !.pc = "check", !.a = a, !.hour = hour,
                                     !.t = teacher[a], !.s = s])
      BY <1>3 DEF CreateRead
    <2>0. PICK s \in SpacesFor(a) :
             /\ teacher[a] # None
             /\ Goes(h, [Idle EXCEPT !.pc = "check", !.a = a, !.hour = hour,
                                     !.t = teacher[a], !.s = s])
      BY <2>1
    <2>2. teacher[a] \in Teachers /\ s \in Spaces \cup {None}
      BY <2>0, SpacesForType DEF Inv, Database
    <2> QED BY <2>0, <2>2, CheckRecord, RequestGoes DEF Inv
  <1>4. CASE MoveRead(h)
    <2>1. PICK i \in Lessons, s \in Spaces \cup {None} :
             Goes(h, [Idle EXCEPT !.pc = IF s = None THEN "move" ELSE "moveCheck",
                                  !.id = i, !.hour = slot[i].hour, !.s = s])
      BY <1>4 DEF MoveRead
    <2>2. i \in Slots /\ slot[i] \in Lesson
      BY DEF Lessons, Inv, Database
    <2>3. slot[i].hour \in Hours
      BY <2>2 DEF Lesson
    <2> QED BY <2>1, <2>2, <2>3, MoveRecord, RequestGoes DEF Inv
  <1>5. CASE SpaceCheck(h)
    BY <1>5, SpaceRecord, RequestGoes DEF SpaceCheck, Inv
  <1> QED BY <1>1, <1>2, <1>3, <1>4, <1>5 DEF Start

LEMMA CheckStep ==
    ASSUME Inv, NEW h \in Handlers, CreateCheck(h) \/ MoveCheck(h)
    PROVE  Requests'
  <1>1. req[h] \in Handler /\ RequestOK(req[h])
    BY DEF Inv, Requests
  <1>2. CASE CreateCheck(h)
    BY <1>1, <1>2, CheckedRecord, RequestGoes, RequestEnds DEF CreateCheck, Inv
  <1>3. CASE MoveCheck(h)
    BY <1>1, <1>3, CheckedRecord, RequestGoes, RequestEnds DEF MoveCheck, Inv
  <1> QED BY <1>2, <1>3

-----------------------------------------------------------------------------
(***************************************************************************)
(* Lessons                                                                 *)
(***************************************************************************)
LEMMA LessonRows ==
    ASSUME Database
    PROVE  \A i \in Lessons : i \in Slots /\ slot[i] \in Lesson
  BY DEF Database, Lessons

\* The constraints that a commit meets are the property.
LEMMA NoClash ==
    NoDoubleBooking <=> \A i, j \in Lessons : i # j => ~Clash(slot[i], slot[j])
  BY DEF NoDoubleBooking, Clash

LEMMA ClashBothWays ==
    ASSUME NEW x, NEW y
    PROVE  Clash(x, y) <=> Clash(y, x)
  BY DEF Clash

\* A row that is inserted or replaced, and clashes with no other.
LEMMA RowStored ==
    ASSUME Database, NoDoubleBooking, NEW i \in Slots, NEW x \in Lesson,
           teacher[x.a] # None,
           x.s # None => space[x.s] # "gone",
           \A j \in Lessons \ {i} : ~Clash(slot[j], x),
           slot' = [slot EXCEPT ![i] = x],
           UNCHANGED <<teacher, graded, space>>
    PROVE  Database' /\ NoDoubleBooking'
  <1>1. \A j \in Slots : slot'[j] = IF j = i THEN x ELSE slot[j]
    BY DEF Database
  <1>2. Database'
    <2>1. slot' \in [Slots -> Lesson \cup {None}]
      BY DEF Database
    <2>2. \A j \in Slots : slot'[j] # None =>
             /\ teacher[slot'[j].a] # None
             /\ slot'[j].s # None => space[slot'[j].s] # "gone"
      BY <1>1 DEF Database
    <2> QED BY <2>1, <2>2 DEF Database
  <1>3. Lessons' \subseteq Lessons \cup {i}
    BY <1>1 DEF Lessons
  <1>4. ASSUME NEW j \in Lessons', NEW k \in Lessons', j # k
        PROVE  ~Clash(slot'[j], slot'[k])
    <2>1. j \in Slots /\ k \in Slots
      BY DEF Lessons
    <2>2. CASE j = i
      BY <1>1, <1>3, <1>4, <2>1, <2>2, ClashBothWays
    <2>3. CASE k = i
      BY <1>1, <1>3, <1>4, <2>1, <2>3
    <2>4. CASE j # i /\ k # i
      BY <1>1, <1>3, <1>4, <2>1, <2>4, NoClash
    <2> QED BY <2>2, <2>3, <2>4
  <1>5. NoDoubleBooking'
    <2>1. NoDoubleBooking' <=> \A j, k \in Lessons' : j # k => ~Clash(slot'[j], slot'[k])
      BY DEF NoDoubleBooking, Clash
    <2> QED BY <1>4, <2>1
  <1> QED BY <1>2, <1>5

\* Rows that are deleted, or lose their space, make room only.
LEMMA RowsGiveWay ==
    ASSUME Database, NoDoubleBooking,
           \A i \in Lessons' : /\ i \in Lessons
                               /\ slot'[i].a = slot[i].a
                               /\ slot'[i].hour = slot[i].hour
                               /\ slot'[i].t = slot[i].t
                               /\ slot'[i].s \in {slot[i].s, None}
    PROVE  NoDoubleBooking'
  <1> SUFFICES ASSUME NEW i \in Lessons', NEW j \in Lessons', i # j,
                      slot'[i].hour = slot'[j].hour
               PROVE  /\ ClassroomOf[slot'[i].a] # ClassroomOf[slot'[j].a]
                      /\ slot'[i].t # slot'[j].t
                      /\ slot'[i].s = slot'[j].s => slot'[i].s = None
    BY DEF NoDoubleBooking
  <1>1. /\ i \in Lessons /\ j \in Lessons
        /\ slot[i].hour = slot[j].hour
    OBVIOUS
  <1>2. /\ ClassroomOf[slot[i].a] # ClassroomOf[slot[j].a]
        /\ slot[i].t # slot[j].t
        /\ slot[i].s = slot[j].s => slot[i].s = None
    BY <1>1 DEF NoDoubleBooking
  <1> QED BY <1>2

-----------------------------------------------------------------------------
(***************************************************************************)
(* Steps                                                                   *)
(***************************************************************************)
LEMMA Unchanged ==
    ASSUME Inv, NoDoubleBooking, UNCHANGED <<teacher, graded, space, slot>>
    PROVE  Database' /\ NoDoubleBooking'
  BY DEF Inv, Database, NoDoubleBooking, Lessons

LEMMA CreateStep ==
    ASSUME Inv, NoDoubleBooking, NEW h \in Handlers, CreateWrite(h)
    PROVE  Inv' /\ NoDoubleBooking'
  <1> DEFINE x == Asked(h)
  <1>1. Requests'
    BY RequestEnds DEF CreateWrite, Inv
  <1>2. x \in Lesson
    <2>1. req[h] \in Handler /\ RequestOK(req[h]) /\ req[h].pc = "create"
      BY DEF Inv, Requests, CreateWrite
    <2>2. /\ req[h].a \in Assignments /\ req[h].t \in Teachers
          /\ req[h].hour \in Hours /\ req[h].s \in Spaces \cup {None}
      BY <2>1 DEF RequestOK, Handler
    <2> QED BY <2>2 DEF Asked, Lesson
  <1> HIDE DEF x
  <1>3. CASE UNCHANGED slot
    BY <1>1, <1>3, Unchanged DEF CreateWrite, Inv
  <1>4. CASE slot' # slot
    <2>1. /\ teacher[x.a] # None
          /\ x.s # None => space[x.s] # "gone"
          /\ ~\E i \in Lessons : Clash(slot[i], x)
          /\ \E i \in Slots \ Lessons : slot' = [slot EXCEPT ![i] = x]
      BY <1>4 DEF CreateWrite, x
    <2>2. PICK i \in Slots \ Lessons : slot' = [slot EXCEPT ![i] = x]
      BY <2>1
    <2>3. UNCHANGED <<teacher, graded, space>>
      BY DEF CreateWrite
    <2>4. Database
      BY DEF Inv
    <2>5. Database' /\ NoDoubleBooking'
      BY <1>2, <2>1, <2>2, <2>3, <2>4, RowStored
    <2> QED BY <1>1, <2>5 DEF Inv
  <1> QED BY <1>3, <1>4

LEMMA MoveStep ==
    ASSUME Inv, NoDoubleBooking, NEW h \in Handlers, MoveWrite(h)
    PROVE  Inv' /\ NoDoubleBooking'
  <1> DEFINE i == req[h].id
             x == [slot[i] EXCEPT !.s = req[h].s]
  <1>1. Requests'
    BY RequestEnds DEF MoveWrite, Inv
  <1>2. req[h].s \in Spaces \cup {None}
    BY DEF Inv, Requests, Handler
  <1>3. CASE UNCHANGED slot
    BY <1>1, <1>3, Unchanged DEF MoveWrite, Inv
  <1>4. CASE slot' # slot
    <2>1. /\ i \in Lessons
          /\ req[h].s # None => space[req[h].s] # "gone"
          /\ ~\E j \in Lessons \ {i} : Clash(slot[j], x)
          /\ slot' = [slot EXCEPT ![i] = x]
      BY <1>4 DEF MoveWrite
    <2>2. i \in Slots /\ slot[i] \in Lesson
      BY <2>1, LessonRows DEF Inv
    <2>3. x \in Lesson /\ x.a = slot[i].a /\ x.s = req[h].s
      BY <1>2, <2>2 DEF Lesson
    <2>4. teacher[x.a] # None
      BY <2>1, <2>3 DEF Inv, Database, Lessons
    <2>5. UNCHANGED <<teacher, graded, space>> /\ Database
      BY DEF MoveWrite, Inv
    <2> HIDE DEF i, x
    <2>6. Database' /\ NoDoubleBooking'
      BY <2>1, <2>2, <2>3, <2>4, <2>5, RowStored
    <2> QED BY <1>1, <2>6 DEF Inv
  <1> QED BY <1>3, <1>4

\* A reassignment that commits: which rows it changes, and how.
LEMMA ReassignedRows ==
    ASSUME Database, NEW a \in Assignments, NEW t \in Teachers
    PROVE  \A i \in Slots :
              /\ Reassigned(a, t)[i] # None <=> slot[i] # None
              /\ slot[i] # None =>
                    /\ Reassigned(a, t)[i] \in Lesson
                    /\ Reassigned(a, t)[i].a = slot[i].a
                    /\ Reassigned(a, t)[i].s = slot[i].s
                    /\ slot[i].a = a => Reassigned(a, t)[i].t = t
  <1> SUFFICES ASSUME NEW i \in Slots
               PROVE  /\ Reassigned(a, t)[i] # None <=> slot[i] # None
                      /\ slot[i] # None =>
                            /\ Reassigned(a, t)[i] \in Lesson
                            /\ Reassigned(a, t)[i].a = slot[i].a
                            /\ Reassigned(a, t)[i].s = slot[i].s
                            /\ slot[i].a = a => Reassigned(a, t)[i].t = t
    OBVIOUS
  <1> DEFINE n == Reassigned(a, t)[i]
  <1>1. n = IF i \in LessonsOf(a) THEN [slot[i] EXCEPT !.t = t] ELSE slot[i]
    BY DEF Reassigned
  <1>2. i \in LessonsOf(a) <=> slot[i] # None /\ slot[i].a = a
    BY DEF LessonsOf, Lessons
  <1>3. CASE slot[i] = None
    BY <1>1, <1>2, <1>3
  <1>4. CASE slot[i] # None
    <2>1. slot[i] \in Lesson
      BY <1>4 DEF Database
    <2>2. LET c == [slot[i] EXCEPT !.t = t] IN
             c \in Lesson /\ c.a = slot[i].a /\ c.s = slot[i].s /\ c.t = t
      BY <2>1 DEF Lesson
    <2>3. n \in Lesson /\ n.a = slot[i].a /\ n.s = slot[i].s
          /\ (slot[i].a = a => n.t = t)
      BY <1>1, <1>2, <1>4, <2>1, <2>2
    <2> QED BY <1>4, <2>3, NullFacts
  <1> QED BY <1>3, <1>4

LEMMA ReassignStep ==
    ASSUME Inv, NoDoubleBooking, NEW h \in Handlers, ReassignWrite(h)
    PROVE  Inv' /\ NoDoubleBooking'
  <1> DEFINE a == req[h].a
             t == req[h].t
             new == Reassigned(a, t)
  <1>1. Requests'
    BY RequestEnds DEF ReassignWrite, Inv
  <1>2. a \in Assignments /\ t \in Teachers
    BY DEF Inv, Requests, ReassignWrite, RequestOK
  <1>3. CASE UNCHANGED <<slot, teacher>>
    BY <1>1, <1>3, Unchanged DEF ReassignWrite, Inv
  <1>4. CASE /\ teacher[a] # None
             /\ ~\E i, j \in Lessons : i # j /\ Clash(new[i], new[j])
             /\ slot' = new /\ teacher' = [teacher EXCEPT ![a] = t]
    <2>1. UNCHANGED <<graded, space>> /\ Database
      BY DEF ReassignWrite, Inv
    <2>2. new \in [Slots -> Lesson \cup {None}]
      <3>1. \A i \in Slots : new[i] \in Lesson \cup {None}
        BY <1>2, <2>1, ReassignedRows
      <3> QED BY <3>1 DEF Reassigned
    <2>3. \A i \in Slots : /\ slot'[i] # None <=> slot[i] # None
                           /\ slot[i] # None => slot'[i].a = slot[i].a /\ slot'[i].s = slot[i].s
      BY <1>2, <1>4, <2>1, ReassignedRows
    <2> HIDE DEF a, t, new
    <2>4. /\ teacher' \in [Assignments -> Teachers \cup {None}]
          /\ \A b \in Assignments : teacher[b] # None => teacher'[b] # None
      BY <1>2, <1>4, <2>1, NullFacts DEF Database
    <2>5. Database'
      <3>1. \A i \in Slots : slot'[i] # None =>
               /\ teacher'[slot'[i].a] # None
               /\ slot'[i].s # None => space[slot'[i].s] # "gone"
        <4> SUFFICES ASSUME NEW i \in Slots, slot'[i] # None
                     PROVE  /\ teacher'[slot'[i].a] # None
                            /\ slot'[i].s # None => space[slot'[i].s] # "gone"
          OBVIOUS
        <4>1. /\ slot[i] # None /\ slot'[i].a = slot[i].a /\ slot'[i].s = slot[i].s
          BY <2>3
        <4>2. slot[i].a \in Assignments
          BY <2>1, <4>1 DEF Database, Lesson
        <4> QED BY <2>1, <2>4, <4>1, <4>2 DEF Database
      <3>2. graded' \in SUBSET {b \in Assignments : teacher'[b] # None}
        BY <2>1, <2>4 DEF Database
      <3> QED BY <1>4, <2>1, <2>2, <2>4, <3>1, <3>2 DEF Database
    <2>6. Lessons' = Lessons
      BY <2>3 DEF Lessons
    <2>7. NoDoubleBooking'
      <3>1. NoDoubleBooking' <=> \A i, j \in Lessons' : i # j => ~Clash(slot'[i], slot'[j])
        BY DEF NoDoubleBooking, Clash
      <3> QED BY <1>4, <2>6, <3>1
    <2> QED BY <1>1, <2>5, <2>7 DEF Inv
  <1> QED BY <1>3, <1>4 DEF ReassignWrite

LEMMA RemoveStep ==
    ASSUME Inv, NoDoubleBooking, NEW h \in Handlers, RemoveDelete(h)
    PROVE  Inv' /\ NoDoubleBooking'
  <1> DEFINE a == req[h].a
  <1>1. Requests'
    BY RequestEnds DEF RemoveDelete, Inv
  <1>2. a \in Assignments
    BY DEF Inv, Requests, RemoveDelete, RequestOK
  <1>3. CASE UNCHANGED <<teacher, graded, slot>>
    BY <1>1, <1>3, Unchanged DEF RemoveDelete, Inv
  <1>4. CASE /\ teacher' = [teacher EXCEPT ![a] = None]
             /\ graded' = graded \ {a}
             /\ slot' = [i \in Slots |-> IF i \in LessonsOf(a) THEN None ELSE slot[i]]
    <2>1. UNCHANGED space /\ Database
      BY DEF RemoveDelete, Inv
    <2> HIDE DEF a
    <2>2. \A i \in Slots : slot'[i] # None => slot'[i] = slot[i] /\ slot[i].a # a
      BY <1>4 DEF LessonsOf, Lessons
    <2>3. slot' \in [Slots -> Lesson \cup {None}]
      BY <1>4, <2>1 DEF Database
    <2>4. /\ teacher' \in [Assignments -> Teachers \cup {None}]
          /\ \A b \in Assignments \ {a} : teacher'[b] = teacher[b]
      BY <1>2, <1>4, <2>1 DEF Database
    <2>5. \A i \in Slots : slot'[i] # None =>
             /\ teacher'[slot'[i].a] # None
             /\ slot'[i].s # None => space[slot'[i].s] # "gone"
      BY <2>1, <2>2, <2>4 DEF Database, Lesson
    <2>6. graded' \in SUBSET {b \in Assignments : teacher'[b] # None}
      BY <1>4, <2>1, <2>4 DEF Database
    <2>7. Database'
      BY <2>1, <2>3, <2>4, <2>5, <2>6 DEF Database
    <2>8. NoDoubleBooking'
      BY <2>1, <2>2, RowsGiveWay DEF Lessons
    <2> QED BY <1>1, <2>7, <2>8 DEF Inv
  <1> QED BY <1>3, <1>4 DEF RemoveDelete

LEMMA ClassroomStep ==
    ASSUME Inv, NoDoubleBooking, RemoveClassroom
    PROVE  Inv' /\ NoDoubleBooking'
  <1> DEFINE Of(c) == {a \in Assignments : ClassroomOf[a] = c}
  <1>1. PICK c \in Classrooms :
           /\ Of(c) \cap graded = {}
           /\ teacher' = [a \in Assignments |-> IF a \in Of(c) THEN None ELSE teacher[a]]
           /\ slot' = [i \in Slots |->
                         IF i \in Lessons /\ slot[i].a \in Of(c) THEN None ELSE slot[i]]
    BY DEF RemoveClassroom
  <1>2. UNCHANGED <<graded, space, req>> /\ Database
    BY DEF RemoveClassroom, Inv
  <1> HIDE DEF Of
  <1>3. \A i \in Slots : slot'[i] # None => slot'[i] = slot[i] /\ slot[i].a \notin Of(c)
    BY <1>1 DEF Lessons
  <1>4. slot' \in [Slots -> Lesson \cup {None}]
    BY <1>1, <1>2 DEF Database
  <1>5. /\ teacher' \in [Assignments -> Teachers \cup {None}]
        /\ \A a \in Assignments \ Of(c) : teacher'[a] = teacher[a]
    BY <1>1, <1>2 DEF Database
  <1>6. \A i \in Slots : slot'[i] # None =>
           /\ teacher'[slot'[i].a] # None
           /\ slot'[i].s # None => space[slot'[i].s] # "gone"
    BY <1>2, <1>3, <1>5 DEF Database, Lesson
  <1>7. graded' \in SUBSET {a \in Assignments : teacher'[a] # None}
    BY <1>1, <1>2, <1>5 DEF Database
  <1>8. Database'
    BY <1>2, <1>4, <1>5, <1>6, <1>7 DEF Database
  <1>9. NoDoubleBooking'
    BY <1>2, <1>3, RowsGiveWay DEF Lessons
  <1> QED BY <1>2, <1>8, <1>9 DEF Inv, Requests

LEMMA SlotStep ==
    ASSUME Inv, NoDoubleBooking, RemoveSlot
    PROVE  Inv' /\ NoDoubleBooking'
  <1>1. PICK i \in Lessons : slot' = [slot EXCEPT ![i] = None]
    BY DEF RemoveSlot
  <1>2. UNCHANGED <<teacher, graded, space, req>> /\ Database
    BY DEF RemoveSlot, Inv
  <1>3. \A j \in Slots : slot'[j] # None => slot'[j] = slot[j]
    BY <1>1, <1>2 DEF Database
  <1>4. Database'
    BY <1>1, <1>2, <1>3 DEF Database
  <1>5. NoDoubleBooking'
    BY <1>2, <1>3, RowsGiveWay DEF Lessons
  <1> QED BY <1>2, <1>4, <1>5 DEF Inv, Requests

LEMMA SpaceDeleteStep ==
    ASSUME Inv, NoDoubleBooking, NEW h \in Handlers, SpaceDelete(h)
    PROVE  Inv' /\ NoDoubleBooking'
  <1> DEFINE s == req[h].s
  <1>1. Requests'
    BY RequestEnds DEF SpaceDelete, Inv
  <1>2. s \in Spaces
    BY DEF Inv, Requests, SpaceDelete, RequestOK
  <1>3. /\ space' = [space EXCEPT ![s] = "gone"]
        /\ slot' = Vacated(s)
        /\ UNCHANGED <<teacher, graded>> /\ Database
    BY DEF SpaceDelete, Inv
  <1> HIDE DEF s
  <1>4. ASSUME NEW i \in Slots, slot[i] # None
        PROVE  /\ slot'[i] \in Lesson
               /\ slot'[i].a = slot[i].a /\ slot'[i].hour = slot[i].hour
               /\ slot'[i].t = slot[i].t
               /\ slot'[i].s = IF slot[i].s = s THEN None ELSE slot[i].s
    <2>1. slot[i] \in Lesson
      BY <1>3, <1>4 DEF Database
    <2>2. LET c == [slot[i] EXCEPT !.s = None] IN
             /\ c \in Lesson /\ c.a = slot[i].a /\ c.hour = slot[i].hour
             /\ c.t = slot[i].t /\ c.s = None
      BY <2>1 DEF Lesson
    <2>3. slot'[i] = IF slot[i].s = s THEN [slot[i] EXCEPT !.s = None] ELSE slot[i]
      BY <1>3, <1>4 DEF Vacated, Lessons
    <2> QED BY <2>1, <2>2, <2>3
  <1>5. \A i \in Slots : slot[i] = None => slot'[i] = None
    BY <1>3 DEF Vacated, Lessons
  <1>6. slot' \in [Slots -> Lesson \cup {None}]
    <2>1. \A i \in Slots : slot'[i] \in Lesson \cup {None}
      BY <1>4, <1>5
    <2> QED BY <1>3, <2>1 DEF Vacated
  <1>7. \A i \in Slots : slot'[i] # None =>
           /\ teacher[slot'[i].a] # None
           /\ slot'[i].s # None => space'[slot'[i].s] # "gone"
    <2> SUFFICES ASSUME NEW i \in Slots, slot'[i] # None
                 PROVE  /\ teacher[slot'[i].a] # None
                        /\ slot'[i].s # None => space'[slot'[i].s] # "gone"
      OBVIOUS
    <2>1. slot[i] # None
      BY <1>5
    <2>2. /\ teacher[slot[i].a] # None
          /\ slot[i].s # None => space[slot[i].s] # "gone"
          /\ slot[i].s \in Spaces \cup {None}
      BY <1>3, <2>1 DEF Database, Lesson
    <2>3. \A u \in Spaces \ {s} : space'[u] = space[u]
      BY <1>2, <1>3 DEF Database
    <2> QED BY <1>4, <2>1, <2>2, <2>3
  <1>8. space' \in [Spaces -> {"active", "inactive", "gone"}]
    BY <1>2, <1>3 DEF Database
  <1>9. Database'
    BY <1>3, <1>6, <1>7, <1>8 DEF Database
  <1>10. NoDoubleBooking'
    BY <1>3, <1>4, <1>5, RowsGiveWay DEF Lessons
  <1> QED BY <1>1, <1>9, <1>10 DEF Inv

\* The steps on spaces and assignments that leave the lessons as they are.
LEMMA AroundLessons ==
    ASSUME Inv, NoDoubleBooking, Requests', UNCHANGED slot,
           teacher' \in [Assignments -> Teachers \cup {None}],
           \A a \in Assignments : teacher[a] # None => teacher'[a] # None,
           graded' \in SUBSET {a \in Assignments : teacher'[a] # None},
           space' \in [Spaces -> {"active", "inactive", "gone"}],
           \A s \in Spaces : space[s] # "gone" => space'[s] # "gone"
    PROVE  Inv' /\ NoDoubleBooking'
  <1>1. \A i \in Slots : slot[i] # None =>
           /\ teacher'[slot[i].a] # None
           /\ slot[i].s # None => space'[slot[i].s] # "gone"
    BY DEF Inv, Database, Lesson
  <1>2. Database'
    BY <1>1 DEF Inv, Database
  <1>3. NoDoubleBooking'
    BY DEF NoDoubleBooking, Lessons
  <1> QED BY <1>2, <1>3 DEF Inv

LEMMA OtherSteps ==
    ASSUME Inv, NoDoubleBooking,
           \/ \E h \in Handlers : SpaceDeactivate(h)
           \/ Assign \/ SpaceActivate
           \/ \E a \in Assignments : Grade(a)
    PROVE  Inv' /\ NoDoubleBooking'
  <1>1. CASE \E h \in Handlers : SpaceDeactivate(h)
    <2>1. PICK h \in Handlers : SpaceDeactivate(h)
      BY <1>1
    <2>2. Requests'
      BY <2>1, RequestEnds DEF SpaceDeactivate, Inv
    <2>3. UNCHANGED <<teacher, graded, slot>>
      BY <2>1 DEF SpaceDeactivate
    <2>4. /\ space' \in [Spaces -> {"active", "inactive", "gone"}]
          /\ \A s \in Spaces : space[s] # "gone" => space'[s] # "gone"
      BY <2>1 DEF SpaceDeactivate, Inv, Database
    <2>5. teacher \in [Assignments -> Teachers \cup {None}]
          /\ graded \in SUBSET {a \in Assignments : teacher[a] # None}
      BY DEF Inv, Database
    <2> QED BY <2>2, <2>3, <2>4, <2>5, AroundLessons
  <1>2. CASE Assign
    <2>1. UNCHANGED <<graded, space, slot, req>> /\ Database
      BY <1>2 DEF Assign, Inv
    <2>2. Requests'
      BY <2>1 DEF Inv, Requests
    <2>3. PICK A \in (SUBSET Assignments) \ {{}}, t \in Teachers :
             teacher' = [a \in Assignments |->
                            IF a \in A /\ teacher[a] = None THEN t ELSE teacher[a]]
      BY <1>2 DEF Assign
    <2>4. /\ teacher' \in [Assignments -> Teachers \cup {None}]
          /\ \A a \in Assignments : teacher[a] # None => teacher'[a] # None
      BY <2>1, <2>3 DEF Database
    <2>5. graded' \in SUBSET {a \in Assignments : teacher'[a] # None}
      BY <2>1, <2>4 DEF Database
    <2>6. /\ space' \in [Spaces -> {"active", "inactive", "gone"}]
          /\ \A s \in Spaces : space[s] # "gone" => space'[s] # "gone"
      BY <2>1 DEF Database
    <2> QED BY <2>1, <2>2, <2>4, <2>5, <2>6, AroundLessons
  <1>3. CASE SpaceActivate
    <2>1. UNCHANGED <<teacher, graded, slot, req>> /\ Database
      BY <1>3 DEF SpaceActivate, Inv
    <2>2. Requests'
      BY <2>1 DEF Inv, Requests
    <2>3. /\ space' \in [Spaces -> {"active", "inactive", "gone"}]
          /\ \A s \in Spaces : space[s] # "gone" => space'[s] # "gone"
      BY <1>3, <2>1 DEF SpaceActivate, Database
    <2>4. /\ teacher' \in [Assignments -> Teachers \cup {None}]
          /\ \A a \in Assignments : teacher[a] # None => teacher'[a] # None
          /\ graded' \in SUBSET {a \in Assignments : teacher'[a] # None}
      BY <2>1 DEF Database
    <2> QED BY <2>1, <2>2, <2>3, <2>4, AroundLessons
  <1>4. CASE \E a \in Assignments : Grade(a)
    <2>1. UNCHANGED <<teacher, space, slot, req>> /\ Database
      BY <1>4 DEF Grade, Inv
    <2>2. Requests'
      BY <2>1 DEF Inv, Requests
    <2>3. graded' \in SUBSET {a \in Assignments : teacher'[a] # None}
      BY <1>4, <2>1 DEF Grade, Database
    <2>4. /\ teacher' \in [Assignments -> Teachers \cup {None}]
          /\ \A a \in Assignments : teacher[a] # None => teacher'[a] # None
          /\ space' \in [Spaces -> {"active", "inactive", "gone"}]
          /\ \A s \in Spaces : space[s] # "gone" => space'[s] # "gone"
      BY <2>1 DEF Database
    <2> QED BY <2>1, <2>2, <2>3, <2>4, AroundLessons
  <1> QED BY <1>1, <1>2, <1>3, <1>4

-----------------------------------------------------------------------------
(***************************************************************************)
(* Theorems                                                                *)
(***************************************************************************)
LEMMA InvInit == Init => Inv /\ NoDoubleBooking
  <1> SUFFICES ASSUME Init PROVE Inv /\ NoDoubleBooking
    OBVIOUS
  <1>1. Database
    BY DEF Init, Database
  <1>2. Requests
    BY IdleRequest DEF Init, Requests
  <1>3. NoDoubleBooking
    BY DEF Init, NoDoubleBooking, Lessons
  <1> QED BY <1>1, <1>2, <1>3 DEF Inv

LEMMA InvNext ==
    ASSUME Inv, NoDoubleBooking, [Next]_vars
    PROVE  Inv' /\ NoDoubleBooking'
  <1>1. CASE UNCHANGED vars
    BY <1>1, Unchanged DEF vars, Inv, Requests
  <1>2. ASSUME NEW h \in Handlers, Start(h) PROVE Inv' /\ NoDoubleBooking'
    <2>1. UNCHANGED <<teacher, graded, space, slot>>
      BY <1>2 DEF Start, ReassignRead, RemoveCount, CreateRead, MoveRead, SpaceCheck
    <2> QED BY <1>2, <2>1, StartStep, Unchanged DEF Inv
  <1>3. ASSUME NEW h \in Handlers, CreateCheck(h) \/ MoveCheck(h)
        PROVE  Inv' /\ NoDoubleBooking'
    <2>1. UNCHANGED <<teacher, graded, space, slot>>
      BY <1>3 DEF CreateCheck, MoveCheck
    <2> QED BY <1>3, <2>1, CheckStep, Unchanged DEF Inv
  <1>4. ASSUME NEW h \in Handlers, Abort(h) PROVE Inv' /\ NoDoubleBooking'
    <2>1. UNCHANGED <<teacher, graded, space, slot>> /\ Requests'
      BY <1>4, RequestEnds DEF Abort, Inv
    <2> QED BY <2>1, Unchanged DEF Inv
  <1>5. ASSUME NEW h \in Handlers, Step(h) PROVE Inv' /\ NoDoubleBooking'
    BY <1>3, <1>5, ReassignStep, RemoveStep, CreateStep, MoveStep, SpaceDeleteStep,
       OtherSteps DEF Step
  <1>6. CASE RemoveSlot \/ RemoveClassroom
    BY <1>6, SlotStep, ClassroomStep
  <1>7. CASE Assign \/ SpaceActivate \/ \E a \in Assignments : Grade(a)
    BY <1>7, OtherSteps
  <1> QED BY <1>1, <1>2, <1>4, <1>5, <1>6, <1>7 DEF Next

LEMMA InvHolds == Spec => [](Inv /\ NoDoubleBooking)
  <1>1. Inv /\ NoDoubleBooking /\ [Next]_vars => (Inv /\ NoDoubleBooking)'
    BY InvNext
  <1> QED BY <1>1, InvInit, PTL DEF Spec

\* Every reachable state is well typed; in particular no lesson refers to an
\* assignment or a space that is gone, though both are deleted after a count.
THEOREM TypeCorrect == Spec => []TypeOK
  BY InvHolds, InvTypes, PTL

\* No classroom, teacher or space has two lessons at one hour, however many
\* requests create, move and reassign from what they had read before.
THEOREM NeverDoubleBooked == Spec => []NoDoubleBooking
  BY InvHolds, PTL

\* No step takes the assignment of a grade away.
THEOREM GradesKeepTheirAssignment == Spec => GradedStays
  <1> DEFINE Stay == \A a \in graded : teacher'[a] # None
  <1>1. ASSUME Inv, [Next]_vars PROVE [Stay]_vars
    <2> SUFFICES ASSUME Next, NEW a \in graded PROVE teacher'[a] # None
      BY <1>1
    <2>1. a \in Assignments /\ teacher[a] # None /\ Database
      BY <1>1 DEF Inv, Database
    <2>2. CASE UNCHANGED teacher
      BY <2>1, <2>2
    <2>3. CASE Assign
      BY <2>1, <2>3 DEF Assign
    <2>4. ASSUME NEW h \in Handlers, ReassignWrite(h) PROVE teacher'[a] # None
      <3>1. req[h].t \in Teachers
        BY <1>1, <2>4 DEF Inv, Requests, ReassignWrite, RequestOK
      <3> QED BY <2>1, <2>4, <3>1, NullFacts DEF ReassignWrite, Database
    <2>5. ASSUME NEW h \in Handlers, RemoveDelete(h) PROVE teacher'[a] # None
      BY <2>1, <2>5 DEF RemoveDelete, Deletable, Database
    <2>6. CASE RemoveClassroom
      BY <2>1, <2>6 DEF RemoveClassroom
    <2>7. \/ UNCHANGED teacher \/ Assign \/ RemoveClassroom
          \/ \E h \in Handlers : ReassignWrite(h) \/ RemoveDelete(h)
      BY <1>1 DEF Next, Start, Step, Abort, Grade, RemoveSlot, SpaceActivate,
                  ReassignRead, RemoveCount, CreateRead, MoveRead, SpaceCheck,
                  CreateCheck, CreateWrite, MoveCheck, MoveWrite,
                  SpaceDeactivate, SpaceDelete
    <2> QED BY <2>2, <2>3, <2>4, <2>5, <2>6, <2>7
  <1>2. Inv /\ [Next]_vars => [Stay]_vars
    BY <1>1
  <1> HIDE DEF Stay
  <1>3. Spec => [][Stay]_vars
    BY <1>2, InvHolds, PTL DEF Spec
  <1> QED BY <1>3 DEF GradedStays, Stay

\* A step that gives an assignment to another teacher gives all its lessons to
\* that one.
THEOREM LessonsFollow == Spec => ReassignmentMovesTheLessons
  <1> DEFINE Follow == \A a \in Assignments :
                 teacher[a] # None /\ teacher'[a] \notin {None, teacher[a]} =>
                    \A i \in LessonsOf(a) : slot'[i] # None /\ slot'[i].t = teacher'[a]
  <1>1. ASSUME Inv, [Next]_vars PROVE [Follow]_vars
    <2> SUFFICES ASSUME Next, NEW a \in Assignments, NEW i \in LessonsOf(a),
                        teacher[a] # None, teacher'[a] \notin {None, teacher[a]}
                 PROVE  slot'[i] # None /\ slot'[i].t = teacher'[a]
      BY <1>1
    <2>1. Database
      BY <1>1 DEF Inv
    <2>2. ~UNCHANGED teacher
      OBVIOUS
    <2>3. ~Assign /\ ~RemoveClassroom
      BY DEF Assign, RemoveClassroom
    <2>4. ASSUME NEW h \in Handlers, RemoveDelete(h) PROVE FALSE
      BY <2>1, <2>4 DEF RemoveDelete, Database
    <2>5. PICK h \in Handlers : ReassignWrite(h)
      BY <2>2, <2>3, <2>4
         DEF Next, Start, Step, Abort, Grade, RemoveSlot, SpaceActivate,
             ReassignRead, RemoveCount, CreateRead, MoveRead, SpaceCheck,
             CreateCheck, CreateWrite, MoveCheck, MoveWrite,
             SpaceDeactivate, SpaceDelete
    <2>6. /\ slot' = Reassigned(req[h].a, req[h].t)
          /\ teacher' = [teacher EXCEPT ![req[h].a] = req[h].t]
      BY <2>2, <2>5 DEF ReassignWrite
    <2>7. req[h].a \in Assignments /\ req[h].t \in Teachers
      BY <1>1, <2>5 DEF Inv, Requests, ReassignWrite, RequestOK
    <2>8. a = req[h].a /\ teacher'[a] = req[h].t
      BY <2>1, <2>6 DEF Database
    <2>9. i \in Slots /\ slot[i] # None /\ slot[i].a = a
      BY DEF LessonsOf, Lessons
    <2> QED BY <2>1, <2>6, <2>7, <2>8, <2>9, ReassignedRows
  <1>2. Inv /\ [Next]_vars => [Follow]_vars
    BY <1>1
  <1> HIDE DEF Follow
  <1>3. Spec => [][Follow]_vars
    BY <1>2, InvHolds, PTL DEF Spec
  <1> QED BY <1>3 DEF ReassignmentMovesTheLessons, Follow
===============================================================================
