---------------------------- MODULE MCAdminAuth ----------------------------
(* Instances of AdminAuth for TLC: an account with two spellings of its    *)
(* email, and in the wider instance a second account.                      *)
EXTENDS AdminAuth, TLC

OneEmail == {"ana", "ANA"}
TwoEmails == OneEmail \cup {"ben"}
Lower(inputs) == [e \in inputs |-> IF e = "ANA" THEN "ana" ELSE e]
LowerOne == Lower(OneEmail)
LowerTwo == Lower(TwoEmails)

Symmetry == Permutations(Slots) \cup Permutations(Tokens) \cup Permutations(Passwords)
=============================================================================
