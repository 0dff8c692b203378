------------------------------ MODULE MCServer ------------------------------
(* Instances of Server for TLC.                                            *)
EXTENDS Server, TLC

CONSTANTS r1, r2, r3

\* Two that may hold a transaction or wait for one, and one that does the rest.
Kinds == r1 :> {"create"} @@ r2 :> {"create", "rename"} @@ r3 :> {"login"}

\* The headers of one may take time.
Times == r1 :> {0} @@ r2 :> {0} @@ r3 :> 1..2
=============================================================================
