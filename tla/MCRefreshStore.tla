----------------------------- MODULE MCRefreshStore -----------------------------
(* Instances of RefreshStore for TLC. *)
EXTENDS RefreshStore, TLC

CONSTANTS k1, k2, c1, c2, s1, s2

Symmetry ==
  Permutations(Key) \cup Permutations(Content) \cup Permutations(Stat)
================================================================================
