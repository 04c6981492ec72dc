---------------------------- MODULE MCSubjectData ----------------------------
(* Instances of SubjectData for TLC. *)
EXTENDS SubjectData, TLC

(* Requests and the ids of one table are interchangeable. *)
Symmetry ==
  Permutations(Request) \cup Permutations(Person) \cup Permutations(Visit)
    \cup Permutations(Arco)
=============================================================================
