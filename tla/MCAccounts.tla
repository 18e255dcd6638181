------------------------------ MODULE MCAccounts ------------------------------
(***************************************************************************)
(* A small instance of Accounts: one user, at the limit of two sessions.   *)
(* Only safety is checked, so the ids of sessions may be interchanged.     *)
(***************************************************************************)
EXTENDS Accounts, TLC

CONSTANTS u1, i1, i2, i3, i4, i5, h1, h2

MCSymmetry == Permutations({i1, i2, i3, i4, i5}) \cup Permutations({h1, h2})
===============================================================================
