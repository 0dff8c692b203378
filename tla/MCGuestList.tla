---------------------------- MODULE MCGuestList ----------------------------
(* Instances of GuestList for TLC: two codes, one of them also typed in    *)
(* lower case.                                                             *)
EXTENDS GuestList, TLC

MCCodes == {"K7", "M4"}
MCCodeInputs == MCCodes \cup {"k7"}
MCNormalize == [c \in MCCodeInputs |-> IF c = "k7" THEN "K7" ELSE c]

Symmetry == Permutations(Slots) \cup Permutations(GuestIds) \cup Permutations(Weddings)
=============================================================================
