---------------------------- MODULE MCGuestbook ----------------------------
(* Instances of Guestbook for TLC, with pages of one and two messages.     *)
EXTENDS Guestbook, TLC

MCLimits == {-1, 0, 1, 2, 3}
Symmetry == Permutations(Slots) \cup Permutations(WishIds) \cup Permutations(Weddings)
=============================================================================
