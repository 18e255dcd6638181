------------------------------- MODULE MCGrades -------------------------------
(***************************************************************************)
(* Instances of Grades for TLC.  The scores are chosen around the pass     *)
(* mark: 45 fails, 45 + 10 passes.  One of the two requests at a time may  *)
(* bring a list.                                                           *)
(***************************************************************************)
EXTENDS Grades, TLC

CONSTANTS e1, r1, h1, h2

Unnamed == [f \in Fields |-> Absent]
Edit(e, named, status) == [e |-> e, scores |-> named @@ Unnamed, status |-> status]
Propose(named) == named @@ [f \in Fields |-> None]

\* A draft that fails, a list that names its student twice and publishes, and a
\* correction: with it the draft fails still, with the list the student passes.
MCDraft      == {Edit(e1, "ser" :> 10, Absent)}
MCRepeated   == {<<Edit(e1, "ser" :> 10, Absent),
                   Edit(e1, "saber" :> 45 @@ "recovery" :> 90, "PUBLISHED")>>}
MCCorrection == {Propose("hacer" :> 40)}
NoInputs == {}
===============================================================================
