---------------------- MODULE MCCapabilitySubscription ----------------------
(* Instances of CapabilitySubscription for TLC. *)
EXTENDS CapabilitySubscription

CONSTANTS a1, a2, key1, key2, v, w

Status(s) == [status |-> s, error |-> "none", event |-> "none"]
Event(e) == [status |-> "none", error |-> "none", event |-> e]

OneOfEach == {Status("connected"), Event(v), Event(w), Event("throws")}

MCSymmetry == Permutations(Acquisitions) \cup Permutations(Keys) \cup Permutations({v, w})
=============================================================================
