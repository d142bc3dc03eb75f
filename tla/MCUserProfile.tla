--------------------------- MODULE MCUserProfile ----------------------------
(* Small instances of UserProfile. *)
EXTENDS UserProfile, TLC

CONSTANTS s1, s2, c1, c2

SlotCountrySymmetry == Permutations(Slots) \cup Permutations(Countries)
=============================================================================
