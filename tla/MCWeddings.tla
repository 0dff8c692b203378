----------------------------- MODULE MCWeddings -----------------------------
(* Instances of Weddings for TLC: two slugs, an uppercase spelling of the  *)
(* second and one that no normalization makes valid.                       *)
EXTENDS Weddings, TLC

MCSlugs == {"ana", "ben"}
MCSpellings == MCSlugs \cup {"BEN", "!"}
MCNormalize == [s \in MCSpellings |-> IF s = "BEN" THEN "ben" ELSE s]

MCAllOps == AllOps
MCTemplateOps == {"create", "update", "grant"}

\* Slots and keys are interchangeable; slugs are not, their spellings differ.
Symmetry == Permutations(Requests) \cup Permutations(Admins)
            \cup Permutations(WeddingIds)
=============================================================================
