------------------------------ MODULE MCLogin -------------------------------
(* Login with task ids and accounts taken as interchangeable. *)
EXTENDS Login, TLC

Symmetry == Permutations(TaskId) \cup Permutations(User)
=============================================================================
