-------------------------- MODULE MCRefreshCoordinator --------------------------
(* Small instances of the coordinator for TLC. *)
EXTENDS RefreshCoordinator, TLC

CONSTANTS t1, t2, r1, r2, a1, c1, b1, b2

(* Threads, folders and admissible bytes are interchangeable; a roster, a
   schedule and an event file are not. *)
Symmetry ==
  Permutations(Thread) \cup Permutations(Root) \cup Permutations(Content \ Blocking)
================================================================================
