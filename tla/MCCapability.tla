---------------------------- MODULE MCCapability ----------------------------
(* Instances of Capability for TLC: a getter of one field, a
   mutator that declares two of them, one that declares nothing. *)
EXTENDS Capability

CONSTANTS c1, c2, c3, k, m

GetterWrites == [get |-> {"f"}, set |-> {"f", "g"}]
TwoMutators == GetterWrites @@ [edit |-> {"f", "g"}]
Defaults == [f |-> "d", g |-> "d"]

Results == {[f |-> "r"], [f |-> "bad", g |-> "r"]}
Guesses == {[f |-> "guess"]}

CallSymmetry == Permutations(Calls) \cup Permutations(Keys)
=============================================================================
