---------------------------- MODULE MCDataUpdates -----------------------------
(***************************************************************************)
(* A small instance of DataUpdates: two students of one family, whose      *)
(* forms name the same tutors in opposite orders, one of them twice.       *)
(***************************************************************************)
EXTENDS DataUpdates

CONSTANTS e1, e2, g1, g2, q1, q2, h1, h2

MCForms == {[e |-> e1, tutors |-> <<g1, g2, g1>>],
            [e |-> e2, tutors |-> <<g2, g1>>]}
===============================================================================
