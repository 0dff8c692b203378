------------------------------ MODULE Directory ------------------------------
(***************************************************************************)
(* What the tenant registry promises: a directory of weddings in which a   *)
(* slug addresses at most one wedding, a wedding never loses its entry, a  *)
(* newly registered wedding has its manager from its first instant, and a  *)
(* manager is never dropped.                                               *)
(***************************************************************************)
CONSTANTS WeddingIds, Admins, Slugs, None

VARIABLES
    address,    \* the slug of each wedding, None while it is not registered
    managers    \* <<wedding, admin>> pairs

dvars == <<address, managers>>

Registered == {w \in WeddingIds : address[w] # None}
Held(s) == \E w \in Registered : address[w] = s
HeldByOther(s, w) == \E v \in Registered \ {w} : address[v] = s

\* Weddings may predate the managers; managers never predate the directory.
Init ==
    /\ address \in [WeddingIds -> Slugs \cup {None}]
    /\ \A v, w \in Registered : address[v] = address[w] => v = w
    /\ managers = {}

Register(w, s, a) ==
    /\ w \notin Registered
    /\ ~ Held(s)
    /\ address' = [address EXCEPT ![w] = s]
    /\ managers' = managers \cup {<<w, a>>}

Move(w, s) ==
    /\ w \in Registered
    /\ ~ HeldByOther(s, w)
    /\ address' = [address EXCEPT ![w] = s]
    /\ UNCHANGED managers

Appoint(w, a) ==
    /\ w \in Registered
    /\ managers' = managers \cup {<<w, a>>}
    /\ UNCHANGED address

Next == \E w \in WeddingIds :
          \/ \E s \in Slugs, a \in Admins : Register(w, s, a)
          \/ \E s \in Slugs : Move(w, s)
          \/ \E a \in Admins : Appoint(w, a)

Spec == Init /\ [][Next]_dvars
=============================================================================
