------------------------------ MODULE Timetables ------------------------------
(***************************************************************************)
(* The weekly timetable: who teaches each subject of a classroom, and the  *)
(* lessons (schedule slots) with their hour, teacher and physical space.   *)
(*                                                                         *)
(*   api/src/timetables/timetables.service.ts                              *)
(*   api/src/teacher-assignments/teacher-assignments.service.ts            *)
(*   api/src/physical-spaces/physical-spaces.service.ts                    *)
(*   api/src/classrooms/classrooms.service.ts          remove              *)
(*                                                                         *)
(* A slot repeats the teacher of its assignment, so that the database can  *)
(* refuse two lessons of a teacher at one hour.  Every operation reads and *)
(* checks first and writes later; no row is locked in between.             *)
(***************************************************************************)
EXTENDS FiniteSets

CONSTANTS
    Assignments,    \* the subjects of the classrooms
    ClassroomOf,    \* the classroom of each
    Special,        \* the assignments whose subject needs a special space
    BaseRoom,       \* the base room of each classroom, or None
    Fixed,          \* the scheduling mode is FIXED_BASE (else DYNAMIC)
    Teachers, Spaces,
    Hours,          \* a day of the week and a class period that is no break
    Slots,          \* ids of schedule_slots rows
    Handlers,       \* concurrent requests
    None            \* null; no row

Classrooms == {ClassroomOf[a] : a \in Assignments}
Lesson == [a: Assignments, hour: Hours, t: Teachers, s: Spaces \cup {None}]

ASSUME TimetablesAssumption ==
    /\ Special \subseteq Assignments
    /\ Fixed \in BOOLEAN
    /\ BaseRoom \in [Classrooms -> Spaces \cup {None}]
    /\ None \notin Assignments \cup Teachers \cup Spaces \cup Hours \cup Slots \cup Lesson

VARIABLES
    teacher,    \* the teacher of each assignment; None if there is no row
    graded,     \* assignments that have grades
    space,      \* each physical space: active, inactive or gone
    slot,       \* the row of each slot
    req         \* state of each handler

vars == <<teacher, graded, space, slot, req>>

Handler == [pc: {"idle", "check", "create", "moveCheck", "move", "reassign",
                 "remove", "deactivate", "delete"},
            a: Assignments \cup {None}, hour: Hours \cup {None},
            t: Teachers \cup {None},    s: Spaces \cup {None},
            id: Slots \cup {None}]
Idle == [pc |-> "idle", a |-> None, hour |-> None, t |-> None, s |-> None, id |-> None]

TypeOK ==
    /\ teacher \in [Assignments -> Teachers \cup {None}]
    /\ graded \in SUBSET {a \in Assignments : teacher[a] # None}
    /\ space \in [Spaces -> {"active", "inactive", "gone"}]
    /\ slot \in [Slots -> Lesson \cup {None}]
    /\ \A i \in Slots : slot[i] # None =>
          /\ teacher[slot[i].a] # None
          /\ slot[i].s # None => space[slot[i].s] # "gone"
    /\ req \in [Handlers -> Handler]

Init ==
    /\ teacher = [a \in Assignments |-> None]
    /\ graded = {}
    /\ space = [s \in Spaces |-> "active"]
    /\ slot = [i \in Slots |-> None]
    /\ req = [h \in Handlers |-> Idle]

Goes(h, r)   == req' = [req EXCEPT ![h] = r]
Lessons      == {i \in Slots : slot[i] # None}
LessonsOf(a) == {i \in Lessons : slot[i].a = a}

\* The three unique constraints of schedule_slots; null is not equal to null.
Clash_NoSpace(x, y) ==
    /\ x.hour = y.hour
    /\ \/ ClassroomOf[x.a] = ClassroomOf[y.a]
       \/ x.t = y.t
Clash(x, y) ==
    /\ x.hour = y.hour
    /\ \/ ClassroomOf[x.a] = ClassroomOf[y.a]
       \/ x.t = y.t
       \/ x.s = y.s /\ x.s # None

-----------------------------------------------------------------------------
(***************************************************************************)
(* TeacherAssignmentsService                                               *)
(***************************************************************************)
\* create, and cloneAssignments of several at once: what exists is left alone.
\* (A row that is created again has a new id: no request holds it yet.)
Assign ==
    /\ \E A \in (SUBSET Assignments) \ {{}}, t \in Teachers :
          /\ \A h \in Handlers : req[h].a \notin A
          /\ teacher' = [a \in Assignments |->
                            IF a \in A /\ teacher[a] = None THEN t ELSE teacher[a]]
    /\ UNCHANGED <<graded, space, slot, req>>

ReassignRead(h) ==
    /\ req[h].pc = "idle"
    /\ \E a \in Assignments, t \in Teachers :
          /\ teacher[a] \notin {None, t}
          /\ Goes(h, [Idle EXCEPT !.pc = "reassign", !.a = a, !.t = t])
    /\ UNCHANGED <<teacher, graded, space, slot>>

\* The transaction updates the assignment and then all of its slots.  A slot that
\* is inserted before it commits comes after it here: the insert neither waits
\* nor is seen.
Reassigned_OfOldTeacher(a, t) ==
    [i \in Slots |-> IF i \in LessonsOf(a) /\ slot[i].t = teacher[a]
                     THEN [slot[i] EXCEPT !.t = t] ELSE slot[i]]
Reassigned(a, t) ==
    [i \in Slots |-> IF i \in LessonsOf(a) THEN [slot[i] EXCEPT !.t = t] ELSE slot[i]]
ReassignWrite(h) ==
    LET a == req[h].a
        new == Reassigned(a, req[h].t) IN
    /\ req[h].pc = "reassign"
    /\ IF teacher[a] # None /\ ~\E i, j \in Lessons : i # j /\ Clash(new[i], new[j])
       THEN slot' = new /\ teacher' = [teacher EXCEPT ![a] = req[h].t]
       ELSE UNCHANGED <<slot, teacher>>
    /\ Goes(h, Idle)
    /\ UNCHANGED <<graded, space>>

\* remove counts the grades and the slots, and deletes the row in the same
\* transaction: grades restrict that, slots are deleted with it.
RemoveCount(h) ==
    /\ req[h].pc = "idle"
    /\ \E a \in Assignments :
          /\ teacher[a] # None
          /\ a \notin graded
          /\ LessonsOf(a) = {}
          /\ Goes(h, [Idle EXCEPT !.pc = "remove", !.a = a])
    /\ UNCHANGED <<teacher, graded, space, slot>>

Deletable_Cascade(a) == teacher[a] # None
Deletable(a) == teacher[a] # None /\ a \notin graded
RemoveDelete(h) ==
    LET a == req[h].a IN
    /\ req[h].pc = "remove"
    /\ IF Deletable(a)
       THEN /\ teacher' = [teacher EXCEPT ![a] = None]
            /\ graded' = graded \ {a}
            /\ slot' = [i \in Slots |-> IF i \in LessonsOf(a) THEN None ELSE slot[i]]
       ELSE UNCHANGED <<teacher, graded, slot>>
    /\ Goes(h, Idle)
    /\ UNCHANGED space

\* ClassroomsService.remove: the assignments and lessons of a classroom go with it,
\* unless grades restrict that.  (A classroom that is created again is the next one.)
RemoveClassroom ==
    /\ \E c \in Classrooms :
          LET of == {a \in Assignments : ClassroomOf[a] = c} IN
          /\ of \cap graded = {}
          /\ teacher' = [a \in Assignments |-> IF a \in of THEN None ELSE teacher[a]]
          /\ slot' = [i \in Slots |->
                        IF i \in Lessons /\ slot[i].a \in of THEN None ELSE slot[i]]
    /\ UNCHANGED <<graded, space, req>>

-----------------------------------------------------------------------------
(***************************************************************************)
(* TimetablesService                                                       *)
(***************************************************************************)
\* Where the lessons of an assignment may take place.  An ordinary subject stays
\* in the base room in FIXED_BASE; in DYNAMIC a space has to be named.
SpacesFor(a) ==
    IF ~Fixed THEN Spaces
    ELSE IF a \in Special THEN Spaces \cup {None} ELSE {BaseRoom[ClassroomOf[a]]}

\* createSlot: the teacher that the form names is the one of the assignment.
CreateRead(h) ==
    /\ req[h].pc = "idle"
    /\ \E a \in Assignments, hour \in Hours : \E s \in SpacesFor(a) :
          /\ teacher[a] # None
          /\ Goes(h, [Idle EXCEPT !.pc = "check", !.a = a, !.hour = hour,
                                  !.t = teacher[a], !.s = s])
    /\ UNCHANGED <<teacher, graded, space, slot>>

Asked(h) == [a |-> req[h].a, hour |-> req[h].hour, t |-> req[h].t, s |-> req[h].s]

\* The space is active and free, and so is the teacher.
CreateCheck(h) ==
    LET r == req[h] IN
    /\ r.pc = "check"
    /\ IF /\ r.s # None => space[r.s] = "active"
          /\ \A i \in Lessons : slot[i].hour = r.hour =>
                slot[i].t # r.t /\ (r.s # None => slot[i].s # r.s)
       THEN Goes(h, [r EXCEPT !.pc = "create"])
       ELSE Goes(h, Idle)
    /\ UNCHANGED <<teacher, graded, space, slot>>

\* Ids are never used twice; one that is neither stored nor held by a request
\* stands for the next one.
CreateWrite(h) ==
    LET x == Asked(h) IN
    /\ req[h].pc = "create"
    /\ IF /\ teacher[x.a] # None
          /\ x.s # None => space[x.s] # "gone"
          /\ ~\E i \in Lessons : Clash(slot[i], x)
       THEN \E i \in Slots \ Lessons : /\ \A g \in Handlers : req[g].id # i
                                       /\ slot' = [slot EXCEPT ![i] = x]
       ELSE UNCHANGED slot
    /\ Goes(h, Idle)
    /\ UNCHANGED <<teacher, graded, space>>

\* updateSlotSpace
MoveRead(h) ==
    /\ req[h].pc = "idle"
    /\ \E i \in Lessons, s \in Spaces \cup {None} :
          /\ Fixed => slot[i].a \in Special
          /\ Goes(h, [Idle EXCEPT !.pc = IF s = None THEN "move" ELSE "moveCheck",
                                  !.id = i, !.hour = slot[i].hour, !.s = s])
    /\ UNCHANGED <<teacher, graded, space, slot>>

MoveCheck(h) ==
    LET r == req[h] IN
    /\ r.pc = "moveCheck"
    /\ IF /\ space[r.s] = "active"
          /\ \A i \in Lessons \ {r.id} : slot[i].hour = r.hour => slot[i].s # r.s
       THEN Goes(h, [r EXCEPT !.pc = "move"])
       ELSE Goes(h, Idle)
    /\ UNCHANGED <<teacher, graded, space, slot>>

MoveWrite(h) ==
    LET r == req[h]
        x == [slot[r.id] EXCEPT !.s = r.s] IN
    /\ r.pc = "move"
    /\ IF /\ r.id \in Lessons
          /\ r.s # None => space[r.s] # "gone"
          /\ ~\E i \in Lessons \ {r.id} : Clash(slot[i], x)
       THEN slot' = [slot EXCEPT ![r.id] = x]
       ELSE UNCHANGED slot
    /\ Goes(h, Idle)
    /\ UNCHANGED <<teacher, graded, space>>

RemoveSlot ==
    /\ \E i \in Lessons : slot' = [slot EXCEPT ![i] = None]
    /\ UNCHANGED <<teacher, graded, space, req>>

-----------------------------------------------------------------------------
(***************************************************************************)
(* PhysicalSpacesService                                                   *)
(***************************************************************************)
UsesOf(s) == {i \in Lessons : slot[i].s = s} \cup {c \in Classrooms : BaseRoom[c] = s}

\* update to inactive, and remove, of a space that nothing uses.
SpaceCheck(h) ==
    /\ req[h].pc = "idle"
    /\ \E s \in Spaces, to \in {"deactivate", "delete"} :
          /\ space[s] # "gone"
          /\ UsesOf(s) = {}
          /\ Goes(h, [Idle EXCEPT !.pc = to, !.s = s])
    /\ UNCHANGED <<teacher, graded, space, slot>>

SpaceDeactivate(h) ==
    /\ req[h].pc = "deactivate"
    /\ space' = [space EXCEPT ![req[h].s] = IF @ = "gone" THEN @ ELSE "inactive"]
    /\ Goes(h, Idle)
    /\ UNCHANGED <<teacher, graded, slot>>

\* The database sets the space of its lessons to null.
Vacated_Kept(s) == slot
Vacated(s) == [i \in Slots |-> IF i \in Lessons /\ slot[i].s = s
                               THEN [slot[i] EXCEPT !.s = None] ELSE slot[i]]
SpaceDelete(h) ==
    /\ req[h].pc = "delete"
    /\ space' = [space EXCEPT ![req[h].s] = "gone"]
    /\ slot' = Vacated(req[h].s)
    /\ Goes(h, Idle)
    /\ UNCHANGED <<teacher, graded>>

\* An inactive space is activated again; one that is gone, and that no request
\* holds, stands for the next one to be created.
SpaceActivate ==
    /\ \E s \in Spaces :
          /\ space[s] # "active"
          /\ space[s] = "gone" => \A h \in Handlers : req[h].s # s
          /\ space' = [space EXCEPT ![s] = "active"]
    /\ UNCHANGED <<teacher, graded, slot, req>>

-----------------------------------------------------------------------------
\* The grades service stores the first grade of an assignment.
Grade(a) ==
    /\ teacher[a] # None
    /\ graded' = graded \cup {a}
    /\ UNCHANGED <<teacher, space, slot, req>>

\* A request that fails or whose process is lost.
Abort(h) ==
    /\ req[h].pc # "idle"
    /\ Goes(h, Idle)
    /\ UNCHANGED <<teacher, graded, space, slot>>

Start(h) == \/ ReassignRead(h) \/ RemoveCount(h) \/ CreateRead(h) \/ MoveRead(h)
            \/ SpaceCheck(h)
Step(h)  == \/ ReassignWrite(h) \/ RemoveDelete(h) \/ CreateCheck(h) \/ CreateWrite(h)
            \/ MoveCheck(h) \/ MoveWrite(h) \/ SpaceDeactivate(h) \/ SpaceDelete(h)

Next ==
    \/ \E h \in Handlers : Start(h) \/ Step(h) \/ Abort(h)
    \/ Assign \/ RemoveClassroom \/ RemoveSlot \/ SpaceActivate
    \/ \E a \in Assignments : Grade(a)

Spec == Init /\ [][Next]_vars

-----------------------------------------------------------------------------
(***************************************************************************)
(* Properties                                                              *)
(***************************************************************************)

\* No classroom, teacher (as the slots tell) or space has two lessons at one hour,
\* whatever was free when the request looked.
NoDoubleBooking ==
    \A i, j \in Lessons : i # j /\ slot[i].hour = slot[j].hour =>
        /\ ClassroomOf[slot[i].a] # ClassroomOf[slot[j].a]
        /\ slot[i].t # slot[j].t
        /\ slot[i].s = slot[j].s => slot[i].s = None

\* A reassignment hands over all the lessons of the subject, also those that a
\* late createSlot had left with an earlier teacher, or nothing is changed.
ReassignmentMovesTheLessons ==
    [][\A a \in Assignments : teacher[a] # None /\ teacher'[a] \notin {None, teacher[a]} =>
          \A i \in LessonsOf(a) : slot'[i] # None /\ slot'[i].t = teacher'[a]]_vars

\* An assignment with grades stays, even if they came after remove had counted.
GradedStays ==
    [][\A a \in graded : teacher'[a] # None]_vars
=============================================================================
