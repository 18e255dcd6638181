----------------------------- MODULE MCAttendance -----------------------------
(***************************************************************************)
(* A small instance of Attendance on a server in La Paz: a student, two     *)
(* periods after a break, and licences, lists and holidays for the day and *)
(* the next, which it stores as the day before and the day.                *)
(***************************************************************************)
EXTENDS Attendance, TLC

CONSTANT s1

MCOneSheet == {s1 :> "PRESENT"}
MCBlocks == {{2, 3}, {3}}
MCZone == -4
MCRanges == {<<5, 5>>, <<6, 6>>, <<6, 5>>}
===============================================================================
