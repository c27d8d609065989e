------------------------ MODULE MCSharedSubscription ------------------------
(* Small instances of subscription sharing for TLC. *)
EXTENDS SharedSubscription, TLC

CONSTANTS a1, a2, a3, h1, h2, h3, t1, t2

MCSymmetry == Permutations({a1, a2, a3}) \cup Permutations({h1, h2, h3})
              \cup Permutations({t1, t2})
=============================================================================
