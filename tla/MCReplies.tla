----------------------------- MODULE MCReplies -----------------------------
(* Instances of Replies for TLC.                                           *)
EXTENDS Replies

\* Values shorter than the copy, longer, just as long as a body may be, and
\* longer than that.
AllBodies ==
    {b \in [value : 0..6, kind : {"whole", "unknown", "garbage", "open"}, after : 0..2,
            blank : BOOLEAN] :
       /\ b.kind = "whole" => b.value > 1
       /\ b.kind \in {"unknown", "garbage"} => b.value > 0
       /\ b.kind = "open" => b.after = 0
       /\ b.after = 0 => b.blank}

\* Up to four characters.
Typed == UNION {[1..n -> Characters] : n \in 0..4}
=============================================================================
