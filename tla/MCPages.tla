------------------------------ MODULE MCPages ------------------------------
(* Instances of Pages for TLC: two weddings and a third slug, so that one  *)
(* can take the slug the other has left.                                   *)
EXTENDS Pages, TLC

Symmetry == Permutations(Slots) \cup Permutations(Weddings) \cup Permutations(Slugs)
            \cup Permutations(RowIds) \cup Permutations(Codes)
=============================================================================
