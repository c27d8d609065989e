------------------------------ MODULE MCDedupe ------------------------------
(* Small instances of execution sharing for TLC. *)
EXTENDS Dedupe, TLC

CONSTANTS c1, c2, c3, e1, e2, ok, err

MCSymmetry ==
  Permutations({c1, c2, c3}) \cup Permutations({e1, e2}) \cup Permutations({ok, err})
=============================================================================
