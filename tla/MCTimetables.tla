----------------------------- MODULE MCTimetables -----------------------------
(***************************************************************************)
(* A small instance of Timetables: two classrooms with a subject each, in  *)
(* the mode FIXED_BASE.  The first has a base room and an ordinary subject *)
(* that stays in it; the other subject needs a special space and may move. *)
(***************************************************************************)
EXTENDS Timetables, TLC

CONSTANTS a1, a2, c1, c2, t1, t2, t3, base, lab, hour1, hour2, s1, s2, h1, h2

MCClassroomOf == a1 :> c1 @@ a2 :> c2
MCBaseRoom    == c1 :> base @@ c2 :> None
MCSymmetry    == Permutations({s1, s2}) \cup Permutations({h1, h2})
                    \cup Permutations({t1, t2, t3}) \cup Permutations({hour1, hour2})
===============================================================================
