-------------------------- MODULE GuestbookProofs --------------------------
(***************************************************************************)
(* Theorems about Guestbook, for any number of concurrent requests, any    *)
(* weddings, messages and limits.                                          *)
(***************************************************************************)
EXTENDS Guestbook, FiniteSetTheorems, TLAPS

\* A slot holds a request exactly when it runs one.
SlotsInv == \A s \in Slots : pc[s] = "idle" <=> req[s] = None

\* A message that is shown was shown by the last verdict on it, or there was
\* none and it did not have to wait; there is no verdict on those yet to come.
ShownInv ==
    \A i \in WishIds :
      /\ wishes[i] # None /\ wishes[i].approved
           => verdict[i] = "shown" \/ (verdict[i] = "none" /\ i \notin held)
      /\ i \in Unused => verdict[i] = "none" /\ i \notin held

\* The inductive invariant.
Inv == TypeOK /\ SlotsInv /\ ShownInv

-----------------------------------------------------------------------------
(* The operators of the lists.                                             *)

\* Of some positions up to n, one is the last, and one the first.
LEMMA Last ==
    ASSUME NEW n \in Nat, NEW S \in SUBSET (1..n), S # {}
    PROVE  \E k \in S : \A m \in S : m <= k
<1> DEFINE B == {n - k : k \in S}
           R == OpToRel(<, Nat)
<1>1. IsWellFoundedOn(R, Nat)
  BY NatLessThanWellFounded
<1>2. \A x, y \in Nat : <<x, y>> \in R <=> x < y
  BY DEF OpToRel
<1>3. B \in SUBSET Nat /\ B # {}
  <2>1. \A k \in S : n - k \in Nat
    OBVIOUS
  <2> QED BY <2>1
<1> HIDE DEF R
<1>4. PICK b \in B : \A c \in B : ~ (<<c, b>> \in R)
  <2> HIDE DEF B
  <2> QED BY <1>1, <1>3, WFMin
<1>5. PICK k \in S : b = n - k
  OBVIOUS
<1>6. ASSUME NEW m \in S PROVE m <= k
  <2>1. n - m \in B /\ n - m \in Nat /\ b \in Nat
    OBVIOUS
  <2>2. ~ (n - m < b)
    <3> HIDE DEF B
    <3> QED BY <1>2, <1>4, <2>1
  <2> QED BY <1>5, <2>2
<1> QED BY <1>6

LEMMA First ==
    ASSUME NEW n \in Nat, NEW S \in SUBSET (1..n), S # {}
    PROVE  \E k \in S : \A m \in S : k <= m
<1> DEFINE T == {(n + 1) - k : k \in S}
<1>1. T \in SUBSET (1..n) /\ T # {}
  <2>1. \A k \in S : (n + 1) - k \in 1..n
    OBVIOUS
  <2> QED BY <2>1
<1>2. PICK t \in T : \A u \in T : u <= t
  <2> HIDE DEF T
  <2> QED BY <1>1, Last
<1>3. PICK k \in S : t = (n + 1) - k
  OBVIOUS
<1>4. ASSUME NEW m \in S PROVE k <= m
  <2>1. (n + 1) - m <= t
    BY <1>2
  <2> QED BY <1>3, <2>1
<1> QED BY <1>4

\* A page that leaves a row out is full, and of newer rows only.
LEMMA NewestFills ==
    ASSUME NEW len \in Nat, NEW rows \in SUBSET (1..len), NEW n \in Nat \ {0},
           NEW k \in rows, k \notin Newest(rows, n)
    PROVE  /\ \A m \in Newest(rows, n) : m > k
           /\ Cardinality(Newest(rows, n)) = n
<1> DEFINE page == Newest(rows, n)
           newer(i) == {m \in rows : m > i}
<1>1. IsFiniteSet(rows)
  <2>1. IsFiniteSet(1..len)
    BY FS_Interval
  <2> QED BY <2>1, FS_Subset
<1>2. ASSUME NEW S \in SUBSET rows
      PROVE  /\ IsFiniteSet(S) /\ Cardinality(S) \in Nat
             /\ \A T \in SUBSET S : Cardinality(T) <= Cardinality(S)
  <2>1. IsFiniteSet(S)
    BY <1>1, FS_Subset
  <2> QED BY <2>1, FS_Subset, FS_CardinalityType
<1>3. \A i \in rows : i \in page <=> Cardinality(newer(i)) < n
  BY DEF Newest
<1>4. page \subseteq rows /\ k \in rows /\ k \notin page /\ \A i \in rows : i \in Nat
  BY DEF Newest
<1> HIDE DEF page
\* The page holds whatever is newer than what it holds.
<1>5. ASSUME NEW i \in rows, i \notin page, NEW m \in page PROVE m > i
  <2> SUFFICES ASSUME ~ (m > i) PROVE FALSE
    OBVIOUS
  <2>1. newer(i) \subseteq newer(m) /\ newer(m) \in SUBSET rows /\ m \in rows
    <3>1. m \in rows /\ m <= i /\ \A j \in rows : j > i => j > m
      BY <1>4
    <3> QED BY <3>1
  <2>2. Cardinality(newer(i)) <= Cardinality(newer(m)) /\ Cardinality(newer(m)) \in Nat
    <3>1. newer(i) \in SUBSET newer(m)
      BY <2>1
    <3> HIDE DEF newer
    <3> QED BY <1>2, <2>1, <3>1
  <2>3. Cardinality(newer(i)) \in Nat
    BY <1>2
  <2>4. Cardinality(newer(m)) < n /\ ~ (Cardinality(newer(i)) < n)
    BY <1>3, <1>5, <2>1
  <2> HIDE DEF newer
  <2> QED BY <2>2, <2>3, <2>4
<1>6. Cardinality(page) >= n
  <2> DEFINE out == rows \ page
  <2>1. PICK i \in out : \A m \in out : m <= i
    <3>1. out \in SUBSET (1..len) /\ out # {}
      BY <1>4
    <3> HIDE DEF out
    <3> QED BY <3>1, Last
  <2>2. newer(i) = page
    <3>1. \A m \in rows : m > i => m \in page
      BY <2>1
    <3> QED BY <1>4, <1>5, <2>1, <3>1
  <2>3. ~ (Cardinality(newer(i)) < n)
    BY <1>3, <2>1
  <2> HIDE DEF newer
  <2> QED BY <1>2, <1>4, <2>2, <2>3
<1>7. Cardinality(page) <= n
  <2>1. page # {}
    BY <1>6, FS_EmptySet
  <2>2. PICK i \in page : \A m \in page : i <= m
    <3>1. page \in SUBSET (1..len)
      BY <1>4
    <3> QED BY <2>1, <3>1, First
  <2>3. page \ {i} \subseteq newer(i) /\ newer(i) \in SUBSET rows
    BY <1>4, <2>2
  <2>4. Cardinality(newer(i)) < n /\ Cardinality(newer(i)) \in Nat
    BY <1>2, <1>3, <1>4, <2>3
  <2>5. Cardinality(page \ {i}) <= Cardinality(newer(i))
    <3> HIDE DEF newer
    <3>1. page \ {i} \in SUBSET newer(i)
      BY <2>3
    <3> QED BY <1>2, <2>3, <3>1
  <2>6. Cardinality(page \ {i}) = Cardinality(page) - 1
    BY <1>2, <1>4, <2>2, FS_RemoveElement
  <2>7. Cardinality(page) \in Nat
    BY <1>2, <1>4
  <2> HIDE DEF newer
  <2> QED BY <2>4, <2>5, <2>6, <2>7
<1>8. Cardinality(page) \in Nat
  BY <1>2, <1>4
<1> QED BY <1>5, <1>6, <1>7, <1>8 DEF page

-----------------------------------------------------------------------------
(* Every action keeps the invariant.                                       *)

LEMMA Constants ==
    None \notin WishIds /\ None \notin Wish /\ None \notin Request
BY LimitAssumption, RecordAssumption

LEMMA InitInv == Init => Inv
<1> SUFFICES ASSUME Init PROVE Inv
  OBVIOUS
<1>1. Range(created) = {} /\ IsInjective(created) /\ created \in Seq(WishIds)
  BY DEF Init, Range, IsInjective
<1> QED BY <1>1, Constants DEF Init, Inv, TypeOK, SlotsInv, ShownInv, Unused

\* Starting, ending and deploying leave the messages as they are.
LEMMA RequestInv ==
    ASSUME Inv, UNCHANGED <<wishes, created, held, verdict>>,
           requireApproval' \in BOOLEAN,
           pc' \in [Slots -> {"idle", "insert", "moderate"}],
           req' \in [Slots -> Request \cup {None}], SlotsInv'
    PROVE  Inv'
BY DEF Inv, TypeOK, ShownInv, Unused

LEMMA StartInv ==
    ASSUME Inv, NEW s \in Slots, NEW step \in {"insert", "moderate"}, NEW q \in Request,
           Start(s, step, q)
    PROVE  Inv'
<1>1. SlotsInv'
  BY Constants DEF Inv, TypeOK, SlotsInv, Start
<1> QED BY <1>1, RequestInv DEF Inv, TypeOK, Start

LEMMA FinishFacts ==
    ASSUME Inv, NEW s \in Slots, Finish(s)
    PROVE  /\ pc' \in [Slots -> {"idle", "insert", "moderate"}]
           /\ req' \in [Slots -> Request \cup {None}]
           /\ SlotsInv'
BY DEF Inv, TypeOK, SlotsInv, Finish

LEMMA BeginWishInv == ASSUME Inv, NEW s \in Slots, BeginWish(s) PROVE Inv'
<1>1. PICK w \in Weddings :
        Start(s, "insert", [op |-> "leave", wedding |-> w, wish |-> None,
                            approved |-> FALSE, required |-> requireApproval])
  BY DEF BeginWish
<1>2. [op |-> "leave", wedding |-> w, wish |-> None,
       approved |-> FALSE, required |-> requireApproval] \in Request
  BY DEF Request, Inv, TypeOK
<1> QED BY <1>1, <1>2, StartInv

LEMMA BeginModerationInv == ASSUME Inv, NEW s \in Slots, BeginModeration(s) PROVE Inv'
<1>1. PICK op \in {"approve", "delete"}, w \in Weddings, i \in Range(created), v \in BOOLEAN :
        Start(s, "moderate", [op |-> op, wedding |-> w, wish |-> i, approved |-> v,
                              required |-> FALSE])
  BY DEF BeginModeration
<1>2. i \in WishIds
  BY DEF Inv, TypeOK, Range
<1>3. [op |-> op, wedding |-> w, wish |-> i, approved |-> v, required |-> FALSE] \in Request
  BY <1>2 DEF Request
<1> QED BY <1>1, <1>3, StartInv

\* A message is the newest, under an id that no other had.
LEMMA InsertWishInv == ASSUME Inv, NEW s \in Slots, InsertWish(s) PROVE Inv'
<1>1. PICK i \in Unused :
        /\ wishes' = [wishes EXCEPT ![i] = NewWish(s)]
        /\ created' = Append(created, i)
        /\ held' = IF req[s].required THEN held \cup {i} ELSE held
  BY DEF InsertWish
<1>2. /\ TypeOK /\ ShownInv /\ pc[s] = "insert" /\ Finish(s)
      /\ UNCHANGED <<requireApproval, verdict>>
  BY DEF Inv, InsertWish
<1>3. req[s] \in Request
  BY <1>2, Constants DEF Inv, TypeOK, SlotsInv
<1>4. NewWish(s) \in Wish /\ NewWish(s).approved = ~ req[s].required
  BY <1>3 DEF NewWish, Wish, Request
<1>5. i \in WishIds /\ i \notin Range(created)
  BY DEF Unused
<1>6. /\ created' \in Seq(WishIds) /\ Range(created') = Range(created) \cup {i}
      /\ IsInjective(created')
  <2>1. /\ created \in Seq(WishIds) /\ Len(created) \in Nat
        /\ DOMAIN created = 1..Len(created)
    BY <1>2 DEF TypeOK
  <2>2. /\ created' \in Seq(WishIds) /\ DOMAIN created' = 1..(Len(created) + 1)
        /\ created'[Len(created) + 1] = i
        /\ \A k \in 1..Len(created) : created'[k] = created[k]
    BY <1>1, <1>5, <2>1
  <2>3. \A k \in DOMAIN created' : k \in DOMAIN created \/ k = Len(created) + 1
    BY <2>1, <2>2
  <2>4. Range(created') = Range(created) \cup {i}
    BY <2>1, <2>2, <2>3 DEF Range
  <2>5. IsInjective(created')
    BY <1>2, <1>5, <2>1, <2>2, <2>3 DEF IsInjective, Range, TypeOK
  <2> QED BY <2>2, <2>4, <2>5
<1>7. TypeOK'
  <2>1. wishes' \in [WishIds -> Wish \cup {None}]
    BY <1>1, <1>2, <1>4 DEF TypeOK
  <2>2. \A j \in WishIds : wishes'[j] # None => j \in Range(created')
    BY <1>1, <1>2, <1>6 DEF TypeOK
  <2>3. held' \subseteq WishIds
    BY <1>1, <1>2, <1>5 DEF TypeOK
  <2> QED BY <1>2, <1>6, <2>1, <2>2, <2>3, FinishFacts DEF TypeOK
<1>8. ShownInv'
  <2> SUFFICES ASSUME NEW j \in WishIds
               PROVE  /\ wishes'[j] # None /\ wishes'[j].approved
                           => verdict[j] = "shown" \/ (verdict[j] = "none" /\ j \notin held')
                      /\ j \in Unused' => verdict[j] = "none" /\ j \notin held'
    BY <1>2 DEF ShownInv
  <2>1. CASE j = i
    <3>1. wishes'[i] = NewWish(s) /\ verdict[i] = "none" /\ i \notin held /\ i \notin Unused'
      BY <1>1, <1>2, <1>5, <1>6 DEF TypeOK, ShownInv, Unused
    <3> QED BY <1>1, <1>4, <2>1, <3>1
  <2>2. CASE j # i
    <3>1. wishes'[j] = wishes[j] /\ (j \in held' <=> j \in held) /\ (j \in Unused' => j \in Unused)
      BY <1>1, <1>2, <1>6, <2>2 DEF TypeOK, Unused
    <3> QED BY <1>2, <3>1 DEF ShownInv
  <2> QED BY <2>1, <2>2
<1> QED BY <1>2, <1>7, <1>8, FinishFacts DEF Inv

LEMMA SetApprovalInv == ASSUME Inv, NEW s \in Slots, SetApproval(s) PROVE Inv'
<1> DEFINE rows == Scoped(req[s].wish, req[s].wedding)
           v == req[s].approved
<1>1. /\ TypeOK /\ ShownInv /\ pc[s] = "moderate" /\ Finish(s)
      /\ UNCHANGED <<created, requireApproval, held>>
      /\ wishes' = [i \in WishIds |->
           IF i \in rows THEN [wishes[i] EXCEPT !.approved = v] ELSE wishes[i]]
      /\ verdict' = [i \in WishIds |->
           IF i \notin rows THEN verdict[i] ELSE IF v THEN "shown" ELSE "hidden"]
  BY DEF Inv, SetApproval
<1>2. v \in BOOLEAN
  BY <1>1, Constants DEF Inv, TypeOK, SlotsInv, Request
<1>3. \A i \in rows : i \in WishIds /\ wishes[i] # None /\ wishes[i] \in Wish /\ i \notin Unused
  BY <1>1 DEF Scoped, TypeOK, Unused
<1> HIDE DEF rows, v
<1>4. ASSUME NEW i \in WishIds
      PROVE  /\ wishes'[i] \in Wish \cup {None}
             /\ wishes'[i] # None => wishes[i] # None
             /\ i \in rows => wishes'[i].approved = v
             /\ i \notin rows => wishes'[i] = wishes[i]
  <2>1. CASE i \in rows
    <3>1. wishes'[i] = [wishes[i] EXCEPT !.approved = v]
      BY <1>1, <2>1
    <3> QED BY <1>2, <1>3, <2>1, <3>1 DEF Wish
  <2>2. CASE i \notin rows
    BY <1>1, <2>2 DEF TypeOK
  <2> QED BY <2>1, <2>2
<1>5. TypeOK'
  <2>1. verdict' \in [WishIds -> {"none", "shown", "hidden"}]
    BY <1>1 DEF TypeOK
  <2>2. wishes' \in [WishIds -> Wish \cup {None}]
    BY <1>1, <1>4
  <2>3. \A i \in WishIds : wishes'[i] # None => i \in Range(created)
    BY <1>1, <1>4 DEF TypeOK
  <2> QED BY <1>1, <2>1, <2>2, <2>3, FinishFacts DEF TypeOK
<1>6. ShownInv'
  <2> SUFFICES ASSUME NEW i \in WishIds
               PROVE  /\ wishes'[i] # None /\ wishes'[i].approved
                           => verdict'[i] = "shown" \/ (verdict'[i] = "none" /\ i \notin held)
                      /\ i \in Unused => verdict'[i] = "none" /\ i \notin held
    BY <1>1 DEF ShownInv, Unused
  <2>1. CASE i \in rows
    BY <1>1, <1>2, <1>3, <1>4, <2>1
  <2>2. CASE i \notin rows
    BY <1>1, <1>4, <2>2 DEF ShownInv
  <2> QED BY <2>1, <2>2
<1> QED BY <1>1, <1>5, <1>6, FinishFacts DEF Inv

LEMMA DeleteWishInv == ASSUME Inv, NEW s \in Slots, DeleteWish(s) PROVE Inv'
<1> DEFINE rows == Scoped(req[s].wish, req[s].wedding)
<1>1. /\ TypeOK /\ ShownInv /\ Finish(s)
      /\ UNCHANGED <<created, requireApproval, held, verdict>>
      /\ wishes' = [i \in WishIds |-> IF i \in rows THEN None ELSE wishes[i]]
  BY DEF Inv, DeleteWish
<1> HIDE DEF rows
<1>2. \A i \in WishIds : wishes'[i] = None \/ wishes'[i] = wishes[i]
  BY <1>1
<1>3. TypeOK'
  BY <1>1, <1>2, FinishFacts DEF TypeOK
<1>4. ShownInv'
  BY <1>1, <1>2 DEF ShownInv, Unused
<1> QED BY <1>1, <1>3, <1>4, FinishFacts DEF Inv

LEMMA NextInv == Inv /\ [Next]_vars => Inv'
<1> SUFFICES ASSUME Inv, [Next]_vars PROVE Inv'
  OBVIOUS
<1>1. CASE UNCHANGED vars
  BY <1>1 DEF vars, Inv, TypeOK, SlotsInv, ShownInv, Unused
<1>2. CASE Deploy
  BY <1>2, RequestInv DEF Deploy, Inv, TypeOK, SlotsInv
<1>3. ASSUME NEW s \in Slots, Fail(s) PROVE Inv'
  BY <1>3, RequestInv, FinishFacts DEF Fail, Inv, TypeOK
<1>4. ASSUME NEW s \in Slots, BeginWish(s) \/ BeginModeration(s) PROVE Inv'
  BY <1>4, BeginWishInv, BeginModerationInv
<1>5. ASSUME NEW s \in Slots, Step(s) PROVE Inv'
  BY <1>5, InsertWishInv, SetApprovalInv, DeleteWishInv DEF Step
<1> QED BY <1>1, <1>2, <1>3, <1>4, <1>5 DEF Next

-----------------------------------------------------------------------------
(* Theorems.                                                               *)

\* In every state each slot fits its statement, and what is shown may be.
THEOREM Inductive == Spec => []Inv
<1>1. Init => Inv
  BY InitInv
<1>2. Inv /\ [Next]_vars => Inv'
  BY NextInv
<1> QED BY <1>1, <1>2, PTL DEF Spec

\* The variables keep their types, and no id is ever given out twice.
THEOREM Typed == Spec => []TypeOK
<1>1. Inv => TypeOK
  BY DEF Inv
<1> QED BY <1>1, Inductive, PTL

\* Whatever is deployed and moderated meanwhile, a message is public only if an
\* admin said so last, or none did and it did not have to wait (WishUsecase).
THEOREM ModerationAlwaysHolds == Spec => []ModerationHolds
<1>1. ASSUME Inv PROVE ModerationHolds
  <2> SUFFICES ASSUME NEW w \in Weddings, NEW limit \in LimitInputs,
                      NEW k \in PublicList(w, limit)
               PROVE  \/ verdict[created[k]] = "shown"
                      \/ verdict[created[k]] = "none" /\ created[k] \notin held
    BY DEF ModerationHolds
  <2>1. k \in DOMAIN created /\ Of(w, k) /\ wishes[created[k]].approved
    BY DEF PublicList, Listed, Newest
  <2>2. created[k] \in WishIds
    BY <1>1, <2>1 DEF Inv, TypeOK
  <2> QED BY <1>1, <2>1, <2>2 DEF Inv, ShownInv, Of
<1> QED BY <1>1, Inductive, PTL

\* A message is left out of a list only for as many newer ones as the list may
\* hold (WishUsecase.List, WishRepository.List).
THEOREM PagesAreFilled == Spec => []PagesFilled
<1>1. ASSUME Inv PROVE PagesFilled
  <2> SUFFICES ASSUME NEW w \in Weddings, NEW limit \in LimitInputs, NEW all \in BOOLEAN,
                      NEW k \in DOMAIN created,
                      Of(w, k), all \/ wishes[created[k]].approved,
                      k \notin Listed(w, all, Effective(limit))
               PROVE  /\ \A m \in Listed(w, all, Effective(limit)) : m > k
                      /\ Cardinality(Listed(w, all, Effective(limit)))
                           = (IF limit \in 1..MaxLimit THEN limit ELSE DefaultLimit)
    <3>1. \A w \in Weddings, limit \in LimitInputs, all \in BOOLEAN :
            (IF all THEN AdminList(w, limit) ELSE PublicList(w, limit))
              = Listed(w, all, Effective(limit))
      BY DEF AdminList, PublicList
    <3> QED BY <3>1 DEF PagesFilled
  <2> DEFINE rows == {m \in DOMAIN created :
                        Of(w, m) /\ (all \/ wishes[created[m]].approved)}
             n == Effective(limit)
  <2>1. /\ n \in Nat \ {0}
        /\ n = IF limit \in 1..MaxLimit THEN limit ELSE DefaultLimit
    BY LimitAssumption DEF Effective
  <2>2. Len(created) \in Nat /\ DOMAIN created = 1..Len(created)
    BY <1>1 DEF Inv, TypeOK
  <2>3. rows \in SUBSET (1..Len(created)) /\ k \in rows
    BY <2>2
  <2>4. Listed(w, all, n) = Newest(rows, n)
    BY DEF Listed
  <2> HIDE DEF rows, n
  <2>5. /\ \A m \in Newest(rows, n) : m > k
        /\ Cardinality(Newest(rows, n)) = n
    BY <2>1, <2>2, <2>3, <2>4, NewestFills DEF n
  <2> QED BY <2>1, <2>4, <2>5 DEF n
<1> QED BY <1>1, Inductive, PTL
=============================================================================
