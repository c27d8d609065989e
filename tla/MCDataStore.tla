---------------------------- MODULE MCDataStore ----------------------------
(* Small instances of the store for TLC. *)
EXTENDS DataStore, TLC

CONSTANTS name, status, v0, v1, e1, e2, t1, t2, l1, l2

MCSymmetry ==
  Permutations({l1, l2}) \cup Permutations({t1, t2}) \cup Permutations({e1, e2})
=============================================================================
