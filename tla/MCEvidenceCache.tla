-------------------------- MODULE MCEvidenceCache --------------------------
(* A small instance of the evidence cache for TLC. *)
EXTENDS EvidenceCache, TLC

CONSTANTS input, v, w, g1, g2, r1

MCSymmetry == Permutations({v, w}) \cup Permutations({g1, g2})
=============================================================================
