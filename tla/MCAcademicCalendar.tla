------------------------- MODULE MCAcademicCalendar -------------------------
(***************************************************************************)
(* Instances of AcademicCalendar for TLC.  The request bodies are chosen   *)
(* by what a run asks about: the status of years, or the dates and opening *)
(* of trimesters.                                                          *)
(***************************************************************************)
EXTENDS AcademicCalendar, TLC

CONSTANTS y1, y2, h1, h2, t1, r1

YearPatchOf(status, start, end) ==
    [number |-> None, status |-> status, start |-> start, end |-> end]
TrimesterPatchOf(open, start, end) ==
    [open |-> open, start |-> start, end |-> end]

\* Two gestiones, one created active and one (by default) in planning; two
\* requests that pick the same one collide on its number.
MCNewYears ==
    {[number |-> 2026, status |-> "ACTIVE", start |-> 0, end |-> LastDay],
     [number |-> 2027, status |-> None, start |-> 0, end |-> LastDay]}
MCNewActiveYear ==
    {[number |-> 2026, status |-> "ACTIVE", start |-> 0, end |-> LastDay]}

MCStatusPatches == {YearPatchOf(s, None, None) : s \in {"ACTIVE", "CLOSED"}}
MCActivatePatch == {YearPatchOf("ACTIVE", None, None)}

MCOpenPatches == {TrimesterPatchOf(b, None, None) : b \in BOOLEAN}
\* Over the days 0..6 the trimesters are 0..2, 3..4 and 5..6.  The third may
\* start on day 4, the second end on day 5, but not both; the first neither.
MCDatePatches ==
    {TrimesterPatchOf(TRUE, None, None), TrimesterPatchOf(None, 4, None),
     TrimesterPatchOf(None, None, 5)}

NoPatches == {}
=============================================================================
