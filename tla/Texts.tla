------------------------------- MODULE Texts -------------------------------
(***************************************************************************)
(* What the API does to the slug of a wedding, as an admin or a link       *)
(* spells it.  A text is a sequence of characters; "a" and "A" stand for   *)
(* all letters, "a" for the digits too, and a blank for all white space.   *)
(***************************************************************************)
EXTENDS Naturals, Sequences

CONSTANT MaxSlug  \* maxSlugChars

ASSUME SlugAssumption == MaxSlug \in Nat

Characters == {"a", "A", "-", " "}

ToLower(c) == IF c = "A" THEN "a" ELSE c

-----------------------------------------------------------------------------
(* Slugs.                                                                  *)

\* The places of a text that are kept when it is trimmed run from the first
\* character that is not blank to the last one.
Inked(s) == {i \in DOMAIN s : s[i] # " "}

TrimSpace(s) ==
    IF Inked(s) = {} THEN <<>>
    ELSE LET first == CHOOSE i \in Inked(s) : \A k \in Inked(s) : i <= k
             last == CHOOSE i \in Inked(s) : \A k \in Inked(s) : k <= i
         IN SubSeq(s, first, last)

normalizeSlug(slug) ==
    LET trimmed == TrimSpace(slug) IN [i \in DOMAIN trimmed |-> ToLower(trimmed[i])]

\* Segments of letters and digits, which end at a hyphen or at an end of the
\* text; no segment is empty.
Ends(s) == {0, Len(s) + 1} \cup {i \in DOMAIN s : s[i] = "-"}

slugPattern(s) ==
    /\ \A i \in DOMAIN s : s[i] \in {"a", "-"}
    /\ \A i \in Ends(s) : i + 1 \notin Ends(s)

\* Mutant: the pattern is matched with the normalized slug, and the typed one is stored.
AsStored_AsTyped(slug) ==
    LET s == normalizeSlug(slug)
    IN IF Len(s) <= MaxSlug /\ slugPattern(s) THEN slug ELSE <<>>

\* The slug that is stored for what an admin typed; none if it is refused.
AsStored(slug) ==
    LET s == normalizeSlug(slug)
    IN IF Len(s) <= MaxSlug /\ slugPattern(s) THEN s ELSE <<>>

=============================================================================
