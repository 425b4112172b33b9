---------------------------- MODULE MCSyncService ---------------------------
(* Model checking of SyncService: task ids are interchangeable.            *)
EXTENDS SyncService, TLC

Symmetry == Permutations(TaskId)
=============================================================================
