----------------------------- MODULE MCEnrollments -----------------------------
(***************************************************************************)
(* Small instances of Enrollments: the forms and patches that requests     *)
(* carry in each run.                                                      *)
(***************************************************************************)
EXTENDS Enrollments, TLC

CONSTANTS c1, c2, s1, s2, g1, g2, y1, h1, h2

MCForm(via, people, room, isCoded, type, status) ==
    [via |-> via, people |-> people, room |-> room, year |-> y1,
     coded |-> isCoded, type |-> type, status |-> status]
MCPatch(status, isCoded) ==
    [status |-> status, coded |-> isCoded, room |-> None, type |-> None]

\* Two students after the only seat, by every way in; one import brings an
\* OBSERVADO student, one a student without a code.
MCSeatForms ==
    {MCForm("create", <<s, g1>>, c1, FALSE, "NUEVO", "REVISION_SIE") : s \in {s1, s2}}
        \cup {MCForm("registerFullRude", <<s1, g1>>, c1, TRUE, "NUEVO", "REVISION_SIE"),
              MCForm("registerFullRude", <<s2>>, c1, TRUE, "NUEVO", "REVISION_SIE"),
              MCForm("import", <<s2, g1>>, c1, TRUE, "NUEVO", "INSCRITO"),
              MCForm("import", <<s1, g1>>, c1, TRUE, "NUEVO", "OBSERVADO")}
\* Patches that take a seat away.
MCLeave == {MCPatch("RETIRADO", FALSE), MCPatch("OBSERVADO", FALSE)}

\* The last seat, to be taken away by the classroom service at the same time.
MCLastSeat == {MCForm("create", <<s1>>, c1, FALSE, "NUEVO", "REVISION_SIE"),
               MCForm("import", <<s2, g1>>, c1, TRUE, "NUEVO", "OBSERVADO")}

\* Forms that lock in opposite orders, with or without a RUDE code: create the
\* classroom first, the import the people, and two shared guardians; one form
\* names a guardian twice.
MCCrossed ==
    {MCForm("create", <<s1, g1, g2, g1>>, c1, FALSE, "NUEVO", "REVISION_SIE"),
     MCForm("registerFullRude", <<s2, g2, g1>>, c2, TRUE, "NUEVO", "REVISION_SIE"),
     MCForm("registerFullRude", <<s1>>, c1, FALSE, "ANTIGUO", "REVISION_SIE")}
        \cup {MCForm("import", <<s1, g2>>, c1, isCoded, "NUEVO", "INSCRITO") : isCoded \in BOOLEAN}
\* The secretary approves, with the code or relying on one that was there.
MCApprovals ==
    {MCPatch("INSCRITO", FALSE), MCPatch("INSCRITO", TRUE), MCPatch("RETIRADO", FALSE)}
===============================================================================
