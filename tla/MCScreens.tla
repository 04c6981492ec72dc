----------------------------- MODULE MCScreens -----------------------------
(* Three filters, one of them a short search, two items, and two fetches   *)
(* and two commands under way at a time.                                   *)
EXTENDS Screens, TLC

CONSTANTS f1, f2, f3, i1, i2

Symmetry == Permutations({f1, f2}) \cup Permutations({i1, i2})
=============================================================================
