-------------------------- MODULE GuestListProofs --------------------------
(***************************************************************************)
(* Theorems about GuestList, for any number of concurrent requests, any    *)
(* weddings, invite codes, guests and inputs.                              *)
(***************************************************************************)
EXTENDS GuestList, FiniteSetTheorems, TLAPS

\* What a request was sent and has read fits the statement it runs next: among
\* others, an allowance is at least one person, an answer that somebody comes
\* too, and a lookup found a guest that was there.
Fits(step, q) ==
    /\ step = "idle" <=> q = None
    /\ step = "insert" => /\ q.wedding \in Weddings /\ q.max # 0
                          /\ q.tries < Attempts
    /\ step = "write" => q.max # 0
    /\ step = "save" => /\ q.op = "rsvp" /\ q.guest \in spent
                        /\ q.status = "attending" => q.count >= 1

SlotsInv == \A s \in Slots : Fits(pc[s], req[s])

\* A guest that comes is at least one person.
ComingInv == \A g \in Present : guests[g].status = "attending" => guests[g].count >= 1

\* An answer under way that exceeds the allowance of its guest was checked
\* before the allowance was lowered.
FlightInv ==
    \A s \in Slots :
      pc[s] = "save" /\ req[s].status = "attending" /\ req[s].guest \in Present
        /\ req[s].count > guests[req[s].guest].max => s \in cut

\* The inductive invariant.
Inv ==
    /\ TypeOK /\ SlotsInv /\ ComingInv /\ FlightInv
    /\ Present \subseteq spent
    /\ OverAllowanceOnlyAfterCut

-----------------------------------------------------------------------------
(* Sums over finite sets, as SumFunctionOnSet folds them.                  *)

\* Of some subsets of a finite set, one has none of the others within it.
LEMMA Minimal ==
    ASSUME NEW S, IsFiniteSet(S), NEW B \in SUBSET SUBSET S, B # {}
    PROVE  \E T \in B : \A U \in SUBSET T : U # T => U \notin B
<1> DEFINE R == StrictSubsetOrdering(S)
<1>1. IsWellFoundedOn(R, SUBSET S)
  BY FS_StrictSubsetOrderingWellFounded, FS_FiniteSubsetsOfFinite
<1>2. \A U, T \in SUBSET S : <<U, T>> \in R <=> U \subseteq T /\ U # T
  BY DEF StrictSubsetOrdering
<1> HIDE DEF R
<1>3. PICK T \in B : \A U \in B : ~ (<<U, T>> \in R)
  BY <1>1, WFMin
<1>4. ASSUME NEW U \in SUBSET T, U # T PROVE U \notin B
  <2>1. T \in SUBSET S /\ U \in SUBSET S
    OBVIOUS
  <2>2. <<U, T>> \in R
    BY <1>2, <1>4, <2>1
  <2> QED BY <1>3, <2>2
<1> QED BY <1>4

\* Induction, on the set of the subsets that have a property.
LEMMA SetInduction ==
    ASSUME NEW S, IsFiniteSet(S), NEW Q \in SUBSET SUBSET S, {} \in Q,
           \A T \in Q : \A x \in S \ T : T \cup {x} \in Q
    PROVE  S \in Q
<1> SUFFICES ASSUME S \notin Q PROVE FALSE
  OBVIOUS
<1> DEFINE B == (SUBSET S) \ Q
<1>1. PICK T \in B : \A U \in SUBSET T : U # T => U \notin B
  <2>1. B \in SUBSET SUBSET S /\ B # {}
    OBVIOUS
  <2> HIDE DEF B
  <2> QED BY <2>1, Minimal
<1>2. PICK x \in T : TRUE
  BY <1>1
<1>3. T \ {x} \in Q /\ x \in S \ (T \ {x}) /\ (T \ {x}) \cup {x} = T
  BY <1>1, <1>2
<1> QED BY <1>1, <1>3

First(S) == CHOOSE x \in S : TRUE

\* What one step of the fold makes of the sums h over the subsets of S.
Folded(h, f, S) ==
    [s \in SUBSET S |-> IF s = {} THEN 0 ELSE f[First(s)] + h[s \ {First(s)}]]

Folds(h, f, S) == h = Folded(h, f, S)

LEMMA FoldsStep ==
    ASSUME NEW f, NEW h, NEW S, Folds(h, f, S)
    PROVE  /\ h[{}] = 0
           /\ \A s \in SUBSET S :
                s # {} => /\ First(s) \in s
                          /\ h[s] = f[First(s)] + h[s \ {First(s)}]
<1>1. \A s \in SUBSET S :
        h[s] = IF s = {} THEN 0 ELSE f[First(s)] + h[s \ {First(s)}]
  <2> SUFFICES ASSUME NEW s \in SUBSET S
               PROVE  h[s] = IF s = {} THEN 0 ELSE f[First(s)] + h[s \ {First(s)}]
    OBVIOUS
  <2>1. h[s] = Folded(h, f, S)[s]
    BY DEF Folds
  <2> QED BY <2>1 DEF Folded
<1>2. \A s : s # {} => First(s) \in s
  BY DEF First
<1> QED BY <1>1, <1>2

LEMMA FoldsAgree ==
    ASSUME NEW f, NEW g, NEW h, NEW S, NEW T, IsFiniteSet(S),
           Folds(g, f, S), Folds(h, f, T)
    PROVE  \A U \in SUBSET (S \cap T) : g[U] = h[U]
<1> DEFINE B == {U \in SUBSET (S \cap T) : g[U] # h[U]}
<1> SUFFICES ASSUME B # {} PROVE FALSE
  OBVIOUS
<1>1. PICK U \in B : \A V \in SUBSET U : V # U => V \notin B
  <2>1. B \in SUBSET SUBSET S
    OBVIOUS
  <2> HIDE DEF B
  <2> QED BY <2>1, Minimal
<1>2. U # {}
  BY FoldsStep
<1>3. First(U) \in U
  BY <1>1, <1>2, FoldsStep
<1>4. g[U \ {First(U)}] = h[U \ {First(U)}]
  BY <1>1, <1>3
<1>5. g[U] = f[First(U)] + g[U \ {First(U)}] /\ h[U] = f[First(U)] + h[U \ {First(U)}]
  BY <1>1, <1>2, FoldsStep
<1> QED BY <1>1, <1>4, <1>5

LEMMA FoldsExist ==
    ASSUME NEW f, NEW S, IsFiniteSet(S)
    PROVE  \E h : Folds(h, f, S)
<1> DEFINE B == {T \in SUBSET S : ~ \E h : Folds(h, f, T)}
<1> SUFFICES ASSUME B # {} PROVE FALSE
  OBVIOUS
<1>1. PICK T \in B : \A U \in SUBSET T : U # T => U \notin B
  <2>1. B \in SUBSET SUBSET S
    OBVIOUS
  <2> HIDE DEF B
  <2> QED BY <2>1, Minimal
<1> DEFINE Of(U) == CHOOSE h : Folds(h, f, U)
<1>2. ASSUME NEW U \in SUBSET T, U # T
      PROVE  Folds(Of(U), f, U) /\ IsFiniteSet(U)
  <2>1. \E h : Folds(h, f, U)
    BY <1>1, <1>2
  <2> QED BY <2>1, FS_Subset
<1> HIDE DEF Of
<1> DEFINE g == [U \in SUBSET T |->
                   IF U = {} THEN 0
                   ELSE f[First(U)] + Of(U \ {First(U)})[U \ {First(U)}]]
<1>3. ASSUME NEW U \in SUBSET T, U # T PROVE g[U] = Of(U)[U]
  <2>1. CASE U = {}
    BY <1>2, <1>3, <2>1, FoldsStep
  <2>2. CASE U # {}
    <3> DEFINE V == U \ {First(U)}
    <3>1. /\ First(U) \in U
          /\ Of(U)[U] = f[First(U)] + Of(U)[V]
      BY <1>2, <1>3, <2>2, FoldsStep
    <3>2. V \in SUBSET T /\ V # T /\ V \in SUBSET (U \cap V)
      BY <1>3, <3>1
    <3>3. Of(U)[V] = Of(V)[V]
      <4> HIDE DEF V
      <4> QED BY <1>2, <1>3, <3>2, FoldsAgree
    <3> QED BY <2>2, <3>1, <3>3
  <2> QED BY <2>1, <2>2
<1>4. Folded(g, f, T) = g
  <2>1. ASSUME NEW U \in SUBSET T, U # {}
        PROVE  g[U \ {First(U)}] = Of(U \ {First(U)})[U \ {First(U)}]
    <3>1. First(U) \in U
      BY <2>1 DEF First
    <3> DEFINE V == U \ {First(U)}
    <3>2. V \in SUBSET T /\ V # T
      BY <3>1
    <3> HIDE DEF V, g
    <3>3. g[V] = Of(V)[V]
      BY <1>3, <3>2
    <3> QED BY <3>3 DEF V
  <2>2. ASSUME NEW U \in SUBSET T PROVE Folded(g, f, T)[U] = g[U]
    <3>1. Folded(g, f, T)[U] = IF U = {} THEN 0 ELSE f[First(U)] + g[U \ {First(U)}]
      <4> HIDE DEF g
      <4> QED BY DEF Folded
    <3>2. g[U] = IF U = {} THEN 0 ELSE f[First(U)] + Of(U \ {First(U)})[U \ {First(U)}]
      OBVIOUS
    <3> HIDE DEF g
    <3> QED BY <2>1, <3>1, <3>2
  <2>3. DOMAIN Folded(g, f, T) = SUBSET T
    <3> HIDE DEF g
    <3> QED BY DEF Folded
  <2>4. Folded(g, f, T) = [U \in SUBSET T |-> Folded(g, f, T)[U]]
    <3> HIDE DEF g
    <3> QED BY DEF Folded
  <2> QED BY <2>2, <2>4
<1>5. Folds(g, f, T)
  <2> HIDE DEF g
  <2> QED BY <1>4 DEF Folds
<1> QED BY <1>1, <1>5

LEMMA SumFolds ==
    ASSUME NEW f, NEW S, IsFiniteSet(S)
    PROVE  \E h : Folds(h, f, S) /\ SumFunctionOnSet(f, S) = h[S]
<1> DEFINE chosen == CHOOSE h : Folds(h, f, S)
<1>1. Folds(chosen, f, S)
  BY FoldsExist
<1>2. SumFunctionOnSet(f, S) = chosen[S]
  BY DEF SumFunctionOnSet, FoldFunctionOnSet, MapThenFoldSet, Folds, Folded, First
<1> HIDE DEF chosen
<1> QED BY <1>1, <1>2

\* A sum is any of its terms and the sum of the others.
LEMMA SumStep ==
    ASSUME NEW S, IsFiniteSet(S), NEW f, \A x \in S : f[x] \in Nat
    PROVE  /\ SumFunctionOnSet(f, {}) = 0
           /\ SumFunctionOnSet(f, S) \in Nat
           /\ \A x \in S : SumFunctionOnSet(f, S) = f[x] + SumFunctionOnSet(f, S \ {x})
<1> DEFINE sum == [T \in SUBSET S |-> SumFunctionOnSet(f, T)]
<1>0. \A T \in SUBSET S : sum[T] = SumFunctionOnSet(f, T)
  OBVIOUS
<1> HIDE DEF sum
<1>1. ASSUME NEW T \in SUBSET S
      PROVE  /\ T = {} => sum[T] = 0
             /\ T # {} => /\ First(T) \in T
                          /\ sum[T] = f[First(T)] + sum[T \ {First(T)}]
  <2>1. PICK h : Folds(h, f, T) /\ sum[T] = h[T]
    BY <1>0, SumFolds, FS_Subset
  <2>2. ASSUME NEW U \in SUBSET T PROVE h[U] = sum[U]
    <3>1. PICK g : Folds(g, f, U) /\ sum[U] = g[U]
      BY <1>0, SumFolds, FS_Subset
    <3>2. IsFiniteSet(T) /\ U \in SUBSET (T \cap U)
      BY FS_Subset
    <3> QED BY <2>1, <3>1, <3>2, FoldsAgree
  <2>3. h[{}] = 0
    BY <2>1, FoldsStep
  <2>4. ASSUME T # {} PROVE First(T) \in T /\ h[T] = f[First(T)] + h[T \ {First(T)}]
    BY <2>1, <2>4, FoldsStep
  <2>5. T \ {First(T)} \in SUBSET T
    OBVIOUS
  <2> QED BY <2>1, <2>2, <2>3, <2>4, <2>5
<1> DEFINE Q == {T \in SUBSET S : /\ sum[T] \in Nat
                                  /\ \A x \in T : sum[T] = f[x] + sum[T \ {x}]}
           B == (SUBSET S) \ Q
<1>2. B = {}
  <2> SUFFICES ASSUME B # {} PROVE FALSE
    OBVIOUS
  <2>1. PICK T \in B : \A U \in SUBSET T : U # T => U \notin B
    <3>1. B \in SUBSET SUBSET S
      OBVIOUS
    <3> HIDE DEF B
    <3> QED BY <3>1, Minimal
  <2>2. \A U \in SUBSET T : U # T => U \in Q
    BY <2>1
  <2>3. T # {}
    <3> SUFFICES ASSUME T = {} PROVE T \in Q
      BY <2>1
    <3>1. sum[T] = 0
      BY <1>1
    <3> QED BY <3>1
  <2> DEFINE c == First(T)
  <2>4. c \in T /\ f[c] \in Nat /\ sum[T] = f[c] + sum[T \ {c}]
    BY <1>1, <2>1, <2>3
  <2> HIDE DEF c
  <2>5. sum[T \ {c}] \in Nat
    BY <2>2, <2>4
  <2>6. ASSUME NEW x \in T PROVE sum[T] = f[x] + sum[T \ {x}]
    <3>1. CASE x = c
      BY <2>4, <3>1
    <3>2. CASE x # c
      <4>1. T \ {c} \in Q /\ T \ {x} \in Q /\ (T \ {x}) \ {c} \in Q
        BY <2>2, <2>4, <3>2
      <4>2. sum[T \ {c}] = f[x] + sum[(T \ {c}) \ {x}]
        BY <3>2, <4>1
      <4>3. sum[T \ {x}] = f[c] + sum[(T \ {x}) \ {c}]
        BY <2>4, <3>2, <4>1
      <4> DEFINE rest == sum[(T \ {x}) \ {c}]
      <4>4. sum[T \ {c}] = f[x] + rest
        <5>1. (T \ {c}) \ {x} = (T \ {x}) \ {c}
          OBVIOUS
        <5> QED BY <4>2, <5>1
      <4>5. f[x] \in Nat /\ rest \in Nat
        BY <4>1
      <4> HIDE DEF Q, B, rest
      <4>6. sum[T \ {x}] = f[c] + rest
        BY <4>3 DEF rest
      <4> QED BY <2>4, <4>4, <4>5, <4>6
    <3> QED BY <3>1, <3>2
  <2> QED BY <2>1, <2>4, <2>5, <2>6
<1>3. S \in Q /\ sum[{}] = 0
  BY <1>1, <1>2
<1>4. \A x \in S : S \ {x} \in SUBSET S
  OBVIOUS
<1> QED BY <1>0, <1>3, <1>4

\* A sum over more, of no less each, is no less.
LEMMA SumGrows ==
    ASSUME NEW T, IsFiniteSet(T), NEW S \in SUBSET T, NEW f, NEW g,
           \A x \in S : f[x] \in Nat /\ f[x] <= g[x], \A x \in T : g[x] \in Nat
    PROVE  SumFunctionOnSet(f, S) <= SumFunctionOnSet(g, T)
<1> DEFINE Low(U) == SumFunctionOnSet(f, S \cap U)
           High(U) == SumFunctionOnSet(g, U)
           Q == {U \in SUBSET T : Low(U) <= High(U)}
<1>1. \A U \in SUBSET T :
        /\ High(U) \in Nat /\ Low(U) \in Nat
        /\ \A x \in U : High(U) = g[x] + High(U \ {x})
        /\ \A x \in S \cap U : Low(U) = f[x] + SumFunctionOnSet(f, (S \cap U) \ {x})
  <2> SUFFICES ASSUME NEW U \in SUBSET T
               PROVE  /\ High(U) \in Nat /\ Low(U) \in Nat
                      /\ \A x \in U : High(U) = g[x] + High(U \ {x})
                      /\ \A x \in S \cap U :
                           Low(U) = f[x] + SumFunctionOnSet(f, (S \cap U) \ {x})
    OBVIOUS
  <2>1. IsFiniteSet(U) /\ IsFiniteSet(S \cap U)
    BY FS_Subset
  <2> QED BY <2>1, SumStep
<1>2. {} \in Q
  <2>1. S \cap {} = {}
    OBVIOUS
  <2> QED BY <2>1, SumStep, FS_EmptySet
<1>3. ASSUME NEW U \in Q, NEW x \in T \ U PROVE U \cup {x} \in Q
  <2> DEFINE V == U \cup {x}
  <2>1. V \in SUBSET T /\ x \in V /\ V \ {x} = U /\ g[x] \in Nat
    OBVIOUS
  <2>2. High(V) = g[x] + High(U)
    <3> HIDE DEF V, High, Low, Q
    <3> QED BY <1>1, <2>1
  <2>3. CASE x \in S
    <3>1. (S \cap V) \ {x} = S \cap U /\ x \in S \cap V
      BY <2>3
    <3>2. Low(V) = f[x] + Low(U)
      <4>1. Low(V) = f[x] + SumFunctionOnSet(f, (S \cap V) \ {x})
        <5> HIDE DEF V, High, Low, Q
        <5> QED BY <1>1, <2>1, <3>1
      <4> QED BY <3>1, <4>1
    <3>3. f[x] \in Nat /\ f[x] <= g[x] /\ Low(U) <= High(U) /\ U \in SUBSET T
      BY <2>3
    <3>4. Low(U) \in Nat /\ High(U) \in Nat
      BY <1>1
    <3>5. Low(V) <= High(V)
      <4> HIDE DEF High, Low, V
      <4> QED BY <2>1, <2>2, <3>2, <3>3, <3>4
    <3> QED BY <2>1, <3>5
  <2>4. CASE x \notin S
    <3>1. S \cap V = S \cap U
      BY <2>4
    <3>2. Low(U) <= High(U) /\ U \in SUBSET T /\ Low(V) = Low(U)
      BY <3>1
    <3>3. Low(U) \in Nat /\ High(U) \in Nat
      BY <1>1
    <3>4. Low(V) <= High(V)
      <4> HIDE DEF High, Low, V
      <4> QED BY <2>1, <2>2, <3>2, <3>3
    <3> QED BY <2>1, <3>4
  <2> QED BY <2>3, <2>4
<1>4. T \in Q
  <2>1. Q \in SUBSET SUBSET T
    OBVIOUS
  <2> HIDE DEF Q
  <2> QED BY <1>2, <1>3, <2>1, SetInduction
<1>5. S \cap T = S
  OBVIOUS
<1> QED BY <1>4, <1>5

\* Terms of one or more sum up to as much as there are of them.
LEMMA SumCounts ==
    ASSUME NEW S, IsFiniteSet(S), NEW f, \A x \in S : f[x] \in Nat /\ f[x] >= 1
    PROVE  Cardinality(S) <= SumFunctionOnSet(f, S)
<1> DEFINE Sum(U) == SumFunctionOnSet(f, U)
           Q == {U \in SUBSET S : Cardinality(U) <= Sum(U)}
<1>1. {} \in Q
  BY SumStep, FS_EmptySet
<1>2. ASSUME NEW U \in Q, NEW x \in S \ U PROVE U \cup {x} \in Q
  <2> DEFINE V == U \cup {x}
  <2>1. IsFiniteSet(U) /\ IsFiniteSet(V) /\ V \in SUBSET S /\ x \in V /\ V \ {x} = U
    BY FS_Subset
  <2>2. Cardinality(V) = Cardinality(U) + 1
    BY <2>1, FS_AddElement
  <2>3. Sum(V) = f[x] + Sum(U)
    <3> HIDE DEF V
    <3> QED BY <2>1, SumStep
  <2>4. Sum(U) \in Nat /\ Cardinality(U) \in Nat /\ f[x] \in Nat /\ f[x] >= 1
    BY <2>1, SumStep, FS_CardinalityType
  <2>5. Cardinality(U) <= Sum(U)
    OBVIOUS
  <2>6. Cardinality(V) <= Sum(V)
    <3> HIDE DEF V, Sum
    <3> QED BY <2>2, <2>3, <2>4, <2>5
  <2> QED BY <2>1, <2>6
<1>3. S \in Q
  <2>1. Q \in SUBSET SUBSET S
    OBVIOUS
  <2> HIDE DEF Q
  <2> QED BY <1>1, <1>2, <2>1, SetInduction
<1> QED BY <1>3

-----------------------------------------------------------------------------
(* Requests.                                                               *)

LEMMA Constants ==
    /\ IsFiniteSet(GuestIds) /\ None \notin GuestIds /\ None \notin Guest /\ None \notin Request
    /\ \A g \in GuestIds : g \notin Slots
    /\ Attempts \in Nat \ {0} /\ MaxInputs \subseteq Int /\ CountInputs \subseteq Int
BY IdAssumption, RecordAssumption, InputAssumption

LEMMA InitInv == Init => Inv
BY Constants DEF Init, Inv, TypeOK, SlotsInv, Fits, ComingInv, FlightInv, Present,
                 OverAllowanceOnlyAfterCut

\* A request that is started keeps the invariant if it fits its first statement
\* and an answer is within the allowance of its guest.
LEMMA StartInv ==
    ASSUME Inv, NEW s \in Slots, NEW step \in {"insert", "write", "save"}, NEW q \in Request,
           Start(s, step, q), Fits(step, q),
           step = "save" /\ q.status = "attending" /\ q.guest \in Present
             => q.count <= guests[q.guest].max
    PROVE  Inv'
<1>1. /\ TypeOK /\ SlotsInv /\ FlightInv
      /\ pc' = [pc EXCEPT ![s] = step] /\ req' = [req EXCEPT ![s] = q]
      /\ UNCHANGED <<guests, spent, cut>> /\ Present' = Present
  BY DEF Inv, Start, Present
<1>2. /\ pc'[s] = step /\ req'[s] = q
      /\ \A t \in Slots : t # s => pc'[t] = pc[t] /\ req'[t] = req[t]
  BY <1>1 DEF TypeOK
<1>3. TypeOK'
  BY <1>1 DEF TypeOK
<1>4. SlotsInv'
  BY <1>1, <1>2 DEF SlotsInv, Fits
<1>5. FlightInv'
  <2> SUFFICES ASSUME NEW t \in Slots, pc'[t] = "save", req'[t].status = "attending",
                      req'[t].guest \in Present,
                      req'[t].count > guests[req'[t].guest].max
               PROVE  t \in cut
    BY <1>1 DEF FlightInv
  <2>1. CASE t = s
    <3>1. guests[q.guest].max \in Nat /\ q.count \in Nat
      BY <1>1, <1>2, <2>1, Constants DEF TypeOK, Present, Guest, Request
    <3> QED BY <1>2, <2>1, <3>1
  <2>2. CASE t # s
    BY <1>1, <1>2, <2>2 DEF FlightInv
  <2> QED BY <2>1, <2>2
<1>6. (ComingInv /\ Present \subseteq spent /\ OverAllowanceOnlyAfterCut)'
  BY <1>1 DEF Inv, ComingInv, Present, OverAllowanceOnlyAfterCut
<1> QED BY <1>3, <1>4, <1>5, <1>6 DEF Inv

LEMMA BlankType == Blank \in Request
BY Constants DEF Blank, Request

LEMMA AllowanceType == ASSUME NEW m \in MaxInputs PROVE Allowance(m) \in Nat \ {0}
BY Constants DEF Allowance

LEMMA BeginCreateInv ==
    ASSUME Inv, NEW s \in Slots, BeginCreate(s) PROVE Inv'
<1>1. PICK w \in Weddings, m \in MaxInputs :
        Start(s, "insert", [Blank EXCEPT !.op = "create", !.wedding = w, !.max = Allowance(m)])
  BY DEF BeginCreate
<1> DEFINE q == [Blank EXCEPT !.op = "create", !.wedding = w, !.max = Allowance(m)]
<1>2. Allowance(m) \in Nat /\ Allowance(m) # 0
  BY AllowanceType
<1>3. q \in Request
  BY <1>2, BlankType DEF Request
<1>4. Fits("insert", q)
  BY <1>2, <1>3, Constants DEF Fits, Blank
<1> HIDE DEF q
<1> QED BY <1>1, <1>3, <1>4, StartInv DEF q

LEMMA BeginEditInv ==
    ASSUME Inv, NEW s \in Slots, BeginEdit(s) PROVE Inv'
<1>1. PICK op \in {"update", "delete"}, w \in Weddings, g \in spent, m \in MaxInputs :
        Start(s, "write", [Blank EXCEPT !.op = op, !.wedding = w, !.guest = g,
                                        !.max = Allowance(m)])
  BY DEF BeginEdit
<1> DEFINE q == [Blank EXCEPT !.op = op, !.wedding = w, !.guest = g, !.max = Allowance(m)]
<1>2. Allowance(m) \in Nat /\ Allowance(m) # 0 /\ g \in GuestIds
  BY AllowanceType DEF Inv, TypeOK
<1>3. q \in Request
  BY <1>2, BlankType DEF Request
<1>4. Fits("write", q)
  BY <1>2, <1>3, Constants DEF Fits, Blank
<1> HIDE DEF q
<1> QED BY <1>1, <1>3, <1>4, StartInv DEF q

\* An answer that was let in is one person at least, and within the allowance.
LEMMA BeginRSVPInv ==
    ASSUME Inv, NEW s \in Slots, BeginRSVP(s) PROVE Inv'
<1>1. PICK c \in CodeInputs, attending \in BOOLEAN, n \in CountInputs :
        \E g \in ByCode(NormalizeCode[c]) :
          LET count == Answer(attending, n) IN
            /\ attending => ~ Exceeds(count, guests[g].max)
            /\ Start(s, "save", [Blank EXCEPT !.op = "rsvp", !.guest = g, !.count = count,
                           !.status = IF attending THEN "attending" ELSE "declined"])
  BY DEF BeginRSVP
<1>2. PICK g \in ByCode(NormalizeCode[c]) :
        /\ attending => ~ Exceeds(Answer(attending, n), guests[g].max)
        /\ Start(s, "save", [Blank EXCEPT !.op = "rsvp", !.guest = g,
                       !.count = Answer(attending, n),
                       !.status = IF attending THEN "attending" ELSE "declined"])
  BY <1>1
<1> DEFINE q == [Blank EXCEPT !.op = "rsvp", !.guest = g, !.count = Answer(attending, n),
                              !.status = IF attending THEN "attending" ELSE "declined"]
<1>3. /\ g \in Present /\ g \in GuestIds /\ g \in spent
      /\ guests[g].max \in Nat
  BY <1>2, Constants DEF ByCode, Inv, TypeOK, Present, Guest
<1>4. Answer(attending, n) \in Nat /\ (attending => Answer(attending, n) >= 1)
  BY Constants DEF Answer
<1>5. /\ q \in Request /\ q.op = "rsvp" /\ q.guest = g /\ q.count = Answer(attending, n)
      /\ q.status = "attending" => attending = TRUE
  <2> DEFINE status == IF attending THEN "attending" ELSE "declined"
  <2>1. status \in {"attending", "declined"} /\ (status = "attending" => attending = TRUE)
    OBVIOUS
  <2> HIDE DEF status
  <2> DEFINE r == [Blank EXCEPT !.op = "rsvp", !.guest = g, !.count = Answer(attending, n),
                                !.status = status]
  <2>2. r \in Request
    BY <1>3, <1>4, <2>1, BlankType DEF Request
  <2>3. r.op = "rsvp" /\ r.guest = g /\ r.count = Answer(attending, n) /\ r.status = status
    BY DEF Blank
  <2>4. q = r
    BY DEF status
  <2> HIDE DEF q, r
  <2> QED BY <2>1, <2>2, <2>3, <2>4
<1> HIDE DEF q
<1>6. Fits("save", q)
  BY <1>3, <1>4, <1>5, Constants DEF Fits
<1>7. q.status = "attending" => q.count <= guests[q.guest].max
  <2>1. attending = TRUE => Answer(attending, n) <= guests[g].max
    <3> SUFFICES ASSUME attending PROVE Answer(attending, n) <= guests[g].max
      OBVIOUS
    <3> DEFINE count == Answer(attending, n)
    <3>1. count \in Nat /\ guests[g].max \in Nat /\ ~ (count > guests[g].max)
      BY <1>2, <1>3, <1>4 DEF Exceeds
    <3>2. count <= guests[g].max
      <4> HIDE DEF count
      <4> QED BY <3>1
    <3> QED BY <3>2
  <2> QED BY <1>5, <2>1
<1> QED BY <1>2, <1>5, <1>6, <1>7, StartInv DEF q

-----------------------------------------------------------------------------
(* Statements.                                                             *)

\* A request that ends leaves the others as they are.
LEMMA FinishFacts ==
    ASSUME TypeOK, NEW s \in Slots, Finish(s)
    PROVE  /\ pc' \in [Slots -> {"idle", "insert", "write", "save"}]
           /\ req' \in [Slots -> Request \cup {None}]
           /\ pc'[s] = "idle" /\ req'[s] = None
           /\ \A t \in Slots : t # s => pc'[t] = pc[t] /\ req'[t] = req[t]
BY DEF TypeOK, Finish, Goto

LEMMA FinishSlots ==
    ASSUME TypeOK, SlotsInv, NEW s \in Slots, Finish(s), spent \subseteq spent'
    PROVE  SlotsInv'
<1> SUFFICES ASSUME NEW t \in Slots PROVE Fits(pc[t], req[t])'
  BY DEF SlotsInv
<1>1. CASE t = s
  BY <1>1, FinishFacts DEF Fits
<1>2. CASE t # s
  BY <1>2, FinishFacts DEF Fits, SlotsInv
<1> QED BY <1>1, <1>2

LEMMA FailInv ==
    ASSUME Inv, NEW s \in Slots, Fail(s) PROVE Inv'
<1>1. /\ TypeOK /\ SlotsInv /\ FlightInv /\ Finish(s) /\ UNCHANGED <<guests, spent>>
      /\ cut' = cut \ {s} /\ Present' = Present
  BY DEF Inv, Fail, Present
<1>2. TypeOK'
  BY <1>1, FinishFacts DEF TypeOK
<1>3. SlotsInv'
  BY <1>1, FinishSlots
<1>4. FlightInv'
  BY <1>1, FinishFacts DEF FlightInv
<1>5. OverAllowanceOnlyAfterCut'
  BY <1>1, Constants DEF Inv, OverAllowanceOnlyAfterCut, Present
<1>6. (ComingInv /\ Present \subseteq spent)'
  BY <1>1 DEF Inv, ComingInv, Present
<1> QED BY <1>2, <1>3, <1>4, <1>5, <1>6 DEF Inv

\* A guest that is stored is new to every request and every history.
LEMMA InsertGuestInv ==
    ASSUME Inv, NEW s \in Slots, InsertGuest(s) PROVE Inv'
<1>1. /\ TypeOK /\ SlotsInv /\ FlightInv /\ ComingInv /\ OverAllowanceOnlyAfterCut
      /\ pc[s] = "insert" /\ UNCHANGED cut /\ Present \subseteq spent
  BY DEF Inv, InsertGuest
<1>2. req[s] \in Request /\ Fits("insert", req[s])
  BY <1>1, Constants DEF TypeOK, SlotsInv, Fits
<1>3. PICK c \in Codes :
        \/ /\ \/ /\ req[s].tries + 1 < Attempts
                 /\ req' = [req EXCEPT ![s].tries = @ + 1]
                 /\ UNCHANGED pc
              \/ Finish(s)
           /\ UNCHANGED <<guests, spent>>
        \/ /\ ByCode(c) = {}
           /\ \E g \in GuestIds \ spent :
                /\ guests' = [guests EXCEPT ![g] = NewGuest(s, c)]
                /\ spent' = spent \cup {g}
           /\ Finish(s)
  BY DEF InsertGuest, Collided, Stored
<1>4. CASE /\ req[s].tries + 1 < Attempts
           /\ req' = [req EXCEPT ![s].tries = @ + 1]
           /\ UNCHANGED <<pc, guests, spent>>
  <2> DEFINE q == [req[s] EXCEPT !.tries = @ + 1]
  <2>1. /\ q \in Request /\ q.tries < Attempts
        /\ q.wedding = req[s].wedding /\ q.max = req[s].max
    BY <1>2, <1>4, Constants DEF Request
  <2>2. /\ req' = [req EXCEPT ![s] = q] /\ Present' = Present
        /\ req'[s] = q /\ \A t \in Slots : t # s => req'[t] = req[t]
    BY <1>1, <1>4 DEF TypeOK, Present
  <2> HIDE DEF q
  <2>3. TypeOK'
    BY <1>1, <1>4, <2>1, <2>2 DEF TypeOK
  <2>4. SlotsInv'
    <3> SUFFICES ASSUME NEW t \in Slots PROVE Fits(pc[t], req[t])'
      BY DEF SlotsInv
    <3>1. CASE t = s
      BY <1>1, <1>2, <1>4, <2>1, <2>2, <3>1, Constants DEF Fits
    <3>2. CASE t # s
      BY <1>1, <1>4, <2>2, <3>2 DEF SlotsInv, Fits
    <3> QED BY <3>1, <3>2
  <2>5. FlightInv'
    BY <1>1, <1>4, <2>2 DEF FlightInv
  <2>6. (ComingInv /\ Present \subseteq spent /\ OverAllowanceOnlyAfterCut)'
    BY <1>1, <1>4, <2>2 DEF ComingInv, OverAllowanceOnlyAfterCut
  <2> QED BY <2>3, <2>4, <2>5, <2>6 DEF Inv
<1>5. CASE Finish(s) /\ UNCHANGED <<guests, spent>>
  <2>1. TypeOK'
    BY <1>1, <1>5, FinishFacts DEF TypeOK
  <2>2. SlotsInv'
    BY <1>1, <1>5, FinishSlots
  <2>3. FlightInv'
    BY <1>1, <1>5, FinishFacts DEF FlightInv, Present
  <2>4. (ComingInv /\ Present \subseteq spent /\ OverAllowanceOnlyAfterCut)'
    BY <1>1, <1>5 DEF ComingInv, OverAllowanceOnlyAfterCut, Present
  <2> QED BY <2>1, <2>2, <2>3, <2>4 DEF Inv
<1>6. ASSUME NEW g \in GuestIds \ spent, ByCode(c) = {}, Finish(s),
             guests' = [guests EXCEPT ![g] = NewGuest(s, c)], spent' = spent \cup {g}
      PROVE  Inv'
  <2>1. /\ NewGuest(s, c) \in Guest /\ NewGuest(s, c).code = c
        /\ NewGuest(s, c).status = "pending"
    BY <1>2 DEF NewGuest, Guest, Request, Fits
  <2>2. /\ guests'[g] = NewGuest(s, c) /\ guests'[g] # None
        /\ \A h \in GuestIds : h # g => guests'[h] = guests[h]
        /\ Present' = Present \cup {g} /\ g \notin Present
    BY <1>1, <1>6, <2>1, Constants DEF TypeOK, Present
  <2>3. TypeOK'
    <3>1. guests' \in [GuestIds -> Guest \cup {None}]
      BY <1>1, <1>6, <2>1 DEF TypeOK
    <3>2. ASSUME NEW h \in GuestIds, NEW i \in GuestIds, guests'[h] # None, guests'[i] # None,
                 guests'[h].code = guests'[i].code
          PROVE  h = i
      <4>1. \A j \in Present : guests[j].code # c
        BY <1>6 DEF ByCode
      <4> QED BY <1>1, <2>1, <2>2, <3>2, <4>1 DEF TypeOK, Present
    <3>3. spent' \subseteq GuestIds
      BY <1>1, <1>6 DEF TypeOK
    <3> QED BY <1>1, <1>6, <3>1, <3>2, <3>3, FinishFacts DEF TypeOK
  <2>4. SlotsInv'
    BY <1>1, <1>6, FinishSlots
  <2>5. FlightInv'
    <3> SUFFICES ASSUME NEW t \in Slots, pc'[t] = "save", req'[t].status = "attending",
                        req'[t].guest \in Present',
                        req'[t].count > guests'[req'[t].guest].max
                 PROVE  t \in cut
      BY <1>1 DEF FlightInv
    <3>1. t # s /\ pc[t] = "save" /\ req'[t] = req[t]
      BY <1>1, <1>6, FinishFacts
    <3>2. req[t].guest \in spent /\ req[t].guest # g
      BY <1>1, <3>1 DEF SlotsInv, Fits
    <3> QED BY <1>1, <2>2, <3>1, <3>2 DEF FlightInv, Present
  <2>6. (ComingInv /\ Present \subseteq spent /\ OverAllowanceOnlyAfterCut)'
    BY <1>1, <1>6, <2>1, <2>2 DEF ComingInv, OverAllowanceOnlyAfterCut, Present
  <2> QED BY <2>3, <2>4, <2>5, <2>6 DEF Inv
<1> QED BY <1>3, <1>4, <1>5, <1>6

\* What an edit reaches: one guest at most, of the wedding the request is for.
LEMMA ScopedFacts ==
    ASSUME NEW g, NEW w, NEW h \in Scoped(g, w)
    PROVE  h \in Present /\ h = g /\ guests[h].wedding = w
BY DEF Scoped

\* An edit keeps the answer, the wedding and the code of a guest; whoever it
\* takes people from is cut, and the answers under way for it are.
LEMMA UpdateGuestInv ==
    ASSUME Inv, NEW s \in Slots, UpdateGuest(s) PROVE Inv'
<1> DEFINE rows == Scoped(req[s].guest, req[s].wedding)
           max == req[s].max
           lowered == {g \in rows : max < guests[g].max}
<1>1. /\ TypeOK /\ SlotsInv /\ FlightInv /\ ComingInv /\ OverAllowanceOnlyAfterCut
      /\ pc[s] = "write" /\ UNCHANGED spent /\ Present \subseteq spent /\ Finish(s)
      /\ guests' = [g \in GuestIds |-> IF g \in rows THEN Edited(g, max) ELSE guests[g]]
      /\ cut' = cut \cup UNION {Cut(g) : g \in lowered}
  BY DEF Inv, UpdateGuest
<1>2. max \in Nat /\ max # 0
  BY <1>1, Constants DEF TypeOK, SlotsInv, Fits, Request
<1>3. \A g \in rows : g \in Present /\ g \in GuestIds /\ guests[g] \in Guest
  BY <1>1, ScopedFacts DEF Present, TypeOK
<1> HIDE DEF rows, max
<1>4. ASSUME NEW g \in Present
      PROVE  /\ guests[g] \in Guest /\ guests'[g] \in Guest
             /\ guests'[g].code = guests[g].code
             /\ guests'[g].status = guests[g].status /\ guests'[g].count = guests[g].count
             /\ g \notin lowered => guests'[g].max >= guests[g].max
  <2>1. g \in GuestIds /\ guests[g] \in Guest
    BY <1>1 DEF TypeOK, Present
  <2>2. CASE g \in rows
    <3>1. guests'[g] = [guests[g] EXCEPT !.max = max]
      BY <1>1, <2>1, <2>2 DEF Edited
    <3>2. guests[g].max \in Nat
      BY <2>1 DEF Guest
    <3> QED BY <1>2, <2>1, <2>2, <3>1, <3>2 DEF Guest
  <2>3. CASE g \notin rows
    BY <1>1, <2>1, <2>3 DEF Guest
  <2> QED BY <2>2, <2>3
<1>5. Present' = Present
  BY <1>1, <1>3, <1>4, Constants DEF Present, TypeOK
<1>6. ASSUME NEW g \in lowered PROVE Cut(g) \subseteq cut' /\ Cut(g) \subseteq Slots \cup GuestIds
  BY <1>1, <1>3 DEF Cut
<1>7. TypeOK'
  <2>1. guests' \in [GuestIds -> Guest \cup {None}]
    <3> SUFFICES ASSUME NEW g \in GuestIds PROVE guests'[g] \in Guest \cup {None}
      BY <1>1
    <3>1. g \notin Present => guests'[g] = guests[g] /\ guests[g] = None
      BY <1>1, <1>3 DEF Present
    <3> QED BY <1>4, <3>1
  <2>2. ASSUME NEW h \in GuestIds, NEW i \in GuestIds, guests'[h] # None, guests'[i] # None,
               guests'[h].code = guests'[i].code
        PROVE  h = i
    BY <1>1, <1>4, <1>5, <2>2 DEF TypeOK, Present
  <2>3. cut' \subseteq Slots \cup GuestIds
    BY <1>1, <1>6 DEF TypeOK
  <2> QED BY <1>1, <2>1, <2>2, <2>3, FinishFacts DEF TypeOK
<1>8. SlotsInv'
  BY <1>1, FinishSlots
<1>9. ComingInv'
  BY <1>1, <1>4, <1>5 DEF ComingInv
<1>10. FlightInv'
  <2> SUFFICES ASSUME NEW t \in Slots, pc'[t] = "save", req'[t].status = "attending",
                      req'[t].guest \in Present, req'[t].count > guests'[req'[t].guest].max
               PROVE  t \in cut'
    BY <1>5 DEF FlightInv
  <2> DEFINE g == req[t].guest
  <2>1. t # s /\ pc[t] = "save" /\ req'[t] = req[t]
    BY <1>1, FinishFacts
  <2>2. /\ g \in Present /\ req[t].count > guests'[g].max /\ req[t] # None
        /\ req[t].op = "rsvp" /\ req[t].count \in Nat
    BY <1>1, <2>1, Constants DEF SlotsInv, Fits, TypeOK, Request
  <2>3. CASE g \in lowered
    BY <1>6, <2>2, <2>3 DEF Cut
  <2>4. CASE g \notin lowered
    <3> HIDE DEF lowered, g
    <3>1. guests'[g].max >= guests[g].max /\ guests'[g].max \in Nat /\ guests[g].max \in Nat
      BY <1>4, <2>2, <2>4 DEF Guest
    <3>2. req[t].count > guests[g].max
      BY <2>2, <3>1
    <3>3. t \in cut
      BY <1>1, <2>1, <2>2, <3>2 DEF FlightInv, g
    <3> QED BY <1>1, <3>3
  <2> QED BY <2>3, <2>4
<1>11. OverAllowanceOnlyAfterCut'
  <2> SUFFICES ASSUME NEW g \in Present, guests'[g].status = "attending",
                      guests'[g].count > guests'[g].max
               PROVE  g \in cut'
    BY <1>5 DEF OverAllowanceOnlyAfterCut
  <2>1. CASE g \in lowered
    BY <1>6, <2>1 DEF Cut
  <2>2. CASE g \notin lowered
    <3> HIDE DEF lowered
    <3>1. /\ guests'[g].max >= guests[g].max /\ guests'[g].max \in Nat
          /\ guests[g].max \in Nat /\ guests[g].count \in Nat
      BY <1>4, <2>2 DEF Guest
    <3>2. guests[g].status = "attending" /\ guests[g].count > guests[g].max
      BY <1>4, <3>1
    <3> QED BY <1>1, <3>2 DEF OverAllowanceOnlyAfterCut
  <2> QED BY <2>1, <2>2
<1> QED BY <1>1, <1>5, <1>7, <1>8, <1>9, <1>10, <1>11 DEF Inv

LEMMA DeleteGuestInv ==
    ASSUME Inv, NEW s \in Slots, DeleteGuest(s) PROVE Inv'
<1> DEFINE rows == Scoped(req[s].guest, req[s].wedding)
<1>1. /\ TypeOK /\ SlotsInv /\ FlightInv /\ ComingInv /\ OverAllowanceOnlyAfterCut
      /\ UNCHANGED spent /\ Present \subseteq spent /\ Finish(s)
      /\ guests' = [g \in GuestIds |-> IF g \in rows THEN None ELSE guests[g]]
      /\ cut' = cut \ rows
  BY DEF Inv, DeleteGuest
<1>2. rows \subseteq GuestIds /\ rows \cap Slots = {}
  BY Constants, ScopedFacts DEF Present
<1> HIDE DEF rows
<1>3. /\ Present' = Present \ rows
      /\ \A g \in Present' : guests'[g] = guests[g] /\ g \in Present
  BY <1>1 DEF Present
<1>4. TypeOK'
  <2>1. guests' \in [GuestIds -> Guest \cup {None}]
    BY <1>1 DEF TypeOK
  <2>2. ASSUME NEW h \in GuestIds, NEW i \in GuestIds, guests'[h] # None, guests'[i] # None,
               guests'[h].code = guests'[i].code
        PROVE  h = i
    BY <1>1, <2>2 DEF TypeOK
  <2> QED BY <1>1, <2>1, <2>2, FinishFacts DEF TypeOK
<1>5. SlotsInv'
  BY <1>1, FinishSlots
<1>6. FlightInv'
  <2> SUFFICES ASSUME NEW t \in Slots, pc'[t] = "save", req'[t].status = "attending",
                      req'[t].guest \in Present', req'[t].count > guests'[req'[t].guest].max
               PROVE  t \in cut'
    BY DEF FlightInv
  <2>1. t # s /\ pc[t] = "save" /\ req'[t] = req[t]
    BY <1>1, FinishFacts
  <2> QED BY <1>1, <1>2, <1>3, <2>1 DEF FlightInv
<1>7. (ComingInv /\ Present \subseteq spent /\ OverAllowanceOnlyAfterCut)'
  BY <1>1, <1>3 DEF ComingInv, OverAllowanceOnlyAfterCut
<1> QED BY <1>4, <1>5, <1>6, <1>7 DEF Inv

\* An answer that is stored takes the mark of its request along.
LEMMA SaveRSVPInv ==
    ASSUME Inv, NEW s \in Slots, SaveRSVP(s) PROVE Inv'
<1> DEFINE rows == AnswerRows(s)
           r == req[s]
<1>1. /\ TypeOK /\ SlotsInv /\ FlightInv /\ ComingInv /\ OverAllowanceOnlyAfterCut
      /\ pc[s] = "save" /\ UNCHANGED spent /\ Present \subseteq spent /\ Finish(s)
      /\ guests' = [g \in GuestIds |->
                      IF g \in rows
                      THEN [guests[g] EXCEPT !.status = r.status, !.count = r.count]
                      ELSE guests[g]]
      /\ cut' = IF s \in cut THEN (cut \cup rows) \ {s} ELSE cut \ rows
  BY DEF Inv, SaveRSVP
<1>2. /\ r \in Request /\ r.status \in {"attending", "declined", "pending"} /\ r.count \in Nat
      /\ r.status = "attending" => r.count >= 1
      /\ \A g \in rows : g = r.guest /\ g \in Present /\ g \in GuestIds /\ g \notin Slots
  BY <1>1, Constants DEF TypeOK, SlotsInv, Fits, Request, AnswerRows, Present
<1> HIDE DEF rows, r
<1>3. ASSUME NEW g \in Present
      PROVE  /\ guests[g] \in Guest /\ guests'[g] \in Guest
             /\ guests'[g].code = guests[g].code /\ guests'[g].max = guests[g].max
             /\ g \in rows => guests'[g].status = r.status /\ guests'[g].count = r.count
             /\ g \notin rows => guests'[g] = guests[g]
  <2>1. g \in GuestIds /\ guests[g] \in Guest
    BY <1>1 DEF TypeOK, Present
  <2>2. CASE g \in rows
    <3>1. guests'[g] = [guests[g] EXCEPT !.status = r.status, !.count = r.count]
      BY <1>1, <2>1, <2>2
    <3> QED BY <1>2, <2>1, <2>2, <3>1 DEF Guest
  <2>3. CASE g \notin rows
    BY <1>1, <2>1, <2>3
  <2> QED BY <2>2, <2>3
<1>4. Present' = Present
  BY <1>1, <1>2, <1>3, Constants DEF Present, TypeOK
<1>5. TypeOK'
  <2>1. guests' \in [GuestIds -> Guest \cup {None}]
    <3> SUFFICES ASSUME NEW g \in GuestIds PROVE guests'[g] \in Guest \cup {None}
      BY <1>1
    <3>1. g \notin Present => guests'[g] = guests[g] /\ guests[g] = None
      BY <1>1, <1>2 DEF Present
    <3> QED BY <1>3, <3>1
  <2>2. ASSUME NEW h \in GuestIds, NEW i \in GuestIds, guests'[h] # None, guests'[i] # None,
               guests'[h].code = guests'[i].code
        PROVE  h = i
    <3>1. h \in Present /\ i \in Present
      BY <1>4, <2>2 DEF Present
    <3>2. guests[h].code = guests[i].code
      BY <1>3, <2>2, <3>1
    <3> QED BY <1>1, <3>1, <3>2 DEF TypeOK, Present
  <2>3. cut' \subseteq Slots \cup GuestIds
    BY <1>1, <1>2 DEF TypeOK
  <2> QED BY <1>1, <2>1, <2>2, <2>3, FinishFacts DEF TypeOK
<1>6. SlotsInv'
  BY <1>1, FinishSlots
<1>7. ComingInv'
  BY <1>1, <1>2, <1>3, <1>4 DEF ComingInv
<1>8. FlightInv'
  <2> SUFFICES ASSUME NEW t \in Slots, pc'[t] = "save", req'[t].status = "attending",
                      req'[t].guest \in Present, req'[t].count > guests'[req'[t].guest].max
               PROVE  t \in cut'
    BY <1>4 DEF FlightInv
  <2>1. t # s /\ pc[t] = "save" /\ req'[t] = req[t]
    BY <1>1, FinishFacts
  <2>2. t \in cut
    BY <1>1, <1>3, <2>1 DEF FlightInv
  <2> QED BY <1>1, <1>2, <2>1, <2>2
<1>9. OverAllowanceOnlyAfterCut'
  <2> SUFFICES ASSUME NEW g \in Present, guests'[g].status = "attending",
                      guests'[g].count > guests'[g].max
               PROVE  g \in cut'
    BY <1>4 DEF OverAllowanceOnlyAfterCut
  <2>1. g \in GuestIds /\ g # s
    BY Constants DEF Present
  <2>2. CASE g \in rows
    <3>1. r.status = "attending" /\ r.guest = g /\ r.count > guests[g].max
      BY <1>2, <1>3, <2>2
    <3>2. s \in cut
      BY <1>1, <3>1 DEF FlightInv, r
    <3> QED BY <1>1, <2>1, <2>2, <3>2
  <2>3. CASE g \notin rows
    BY <1>1, <1>3, <2>1, <2>3 DEF OverAllowanceOnlyAfterCut
  <2> QED BY <2>2, <2>3
<1> QED BY <1>1, <1>4, <1>5, <1>6, <1>7, <1>8, <1>9 DEF Inv

LEMMA NextInv == Inv /\ [Next]_vars => Inv'
<1> SUFFICES ASSUME Inv, [Next]_vars PROVE Inv'
  OBVIOUS
<1>1. CASE UNCHANGED vars
  BY <1>1 DEF vars, Inv, TypeOK, SlotsInv, Fits, ComingInv, FlightInv, Present,
              OverAllowanceOnlyAfterCut
<1>2. ASSUME NEW s \in Slots, Begin(s) PROVE Inv'
  BY <1>2, BeginCreateInv, BeginEditInv, BeginRSVPInv DEF Begin
<1>3. ASSUME NEW s \in Slots, Step(s) PROVE Inv'
  BY <1>3, InsertGuestInv, UpdateGuestInv, DeleteGuestInv, SaveRSVPInv DEF Step
<1>4. ASSUME NEW s \in Slots, Fail(s) PROVE Inv'
  BY <1>4, FailInv
<1> QED BY <1>1, <1>2, <1>3, <1>4 DEF Next

-----------------------------------------------------------------------------
(* The dashboard.                                                          *)

\* The six numbers of the summary agree with each other in every state of Inv.
LEMMA InvAddsUp == ASSUME Inv PROVE SummaryAddsUp
<1> SUFFICES ASSUME NEW w \in Weddings
             PROVE  LET s == Summary(w) IN
                      /\ s.pending + s.attending + s.declined = s.total
                      /\ s.attending <= s.attendingPeople
                      /\ s.attendingPeople > s.invited =>
                           \E g \in cut \cap Present : guests[g].wedding = w
  BY DEF SummaryAddsUp
<1> DEFINE rows == {g \in Present : guests[g].wedding = w}
           pending == Answered(w, "pending")
           coming == Answered(w, "attending")
           declined == Answered(w, "declined")
           max == [g \in rows |-> guests[g].max]
           count == [g \in coming |-> guests[g].count]
<1>1. /\ Summary(w).total = Cardinality(rows) /\ Summary(w).pending = Cardinality(pending)
      /\ Summary(w).attending = Cardinality(coming)
      /\ Summary(w).declined = Cardinality(declined)
      /\ Summary(w).invited = SumFunctionOnSet(max, rows)
      /\ Summary(w).attendingPeople = SumFunctionOnSet(count, coming)
  BY DEF Summary, Count, SumFunction
<1>2. \A g \in Present :
        /\ guests[g].max \in Nat /\ guests[g].count \in Nat
        /\ guests[g].status \in {"pending", "attending", "declined"}
        /\ guests[g].status = "attending" => guests[g].count >= 1
        /\ guests[g].status = "attending" /\ guests[g].count > guests[g].max => g \in cut
  BY DEF Inv, TypeOK, Present, Guest, ComingInv, OverAllowanceOnlyAfterCut
<1>3. /\ pending \subseteq rows /\ coming \subseteq rows /\ declined \subseteq rows
      /\ rows = (pending \cup coming) \cup declined
      /\ pending \cap coming = {} /\ (pending \cup coming) \cap declined = {}
  BY <1>2 DEF Answered
<1>4. IsFiniteSet(rows) /\ IsFiniteSet(pending) /\ IsFiniteSet(coming) /\ IsFiniteSet(declined)
  <2>1. rows \subseteq GuestIds
    BY DEF Present
  <2> HIDE DEF rows, pending, coming, declined
  <2> QED BY <1>3, <2>1, Constants, FS_Subset
<1>5. \A g \in coming : /\ count[g] \in Nat /\ count[g] >= 1 /\ max[g] \in Nat
                        /\ g \notin cut => count[g] <= max[g]
  BY <1>2 DEF Answered
<1>6. \A g \in rows : max[g] \in Nat
  BY <1>2
<1>7. Cardinality(pending) + Cardinality(coming) + Cardinality(declined) = Cardinality(rows)
  <2> HIDE DEF rows, pending, coming, declined
  <2>1. /\ Cardinality(pending) \in Nat /\ Cardinality(coming) \in Nat
        /\ Cardinality(declined) \in Nat
        /\ Cardinality(pending \cap coming) = 0
        /\ Cardinality((pending \cup coming) \cap declined) = 0
    BY <1>3, <1>4, FS_CardinalityType, FS_EmptySet
  <2>2. /\ IsFiniteSet(pending \cup coming)
        /\ Cardinality(pending \cup coming)
             = Cardinality(pending) + Cardinality(coming) - Cardinality(pending \cap coming)
    BY <1>4, FS_Union
  <2>3. Cardinality((pending \cup coming) \cup declined)
          = Cardinality(pending \cup coming) + Cardinality(declined)
              - Cardinality((pending \cup coming) \cap declined)
    BY <1>4, <2>2, FS_Union
  <2> QED BY <1>3, <2>1, <2>2, <2>3
<1>8. Cardinality(coming) <= SumFunctionOnSet(count, coming)
  <2> HIDE DEF coming, count
  <2> QED BY <1>4, <1>5, SumCounts
<1>9. ASSUME SumFunctionOnSet(count, coming) > SumFunctionOnSet(max, rows)
      PROVE  \E g \in cut \cap Present : guests[g].wedding = w
  <2> SUFFICES ASSUME \A g \in coming : g \notin cut PROVE FALSE
    BY DEF Answered
  <2> HIDE DEF rows, coming, count, max
  <2>1. \A g \in coming : count[g] \in Nat /\ count[g] <= max[g]
    BY <1>5
  <2>2. SumFunctionOnSet(count, coming) <= SumFunctionOnSet(max, rows)
    BY <1>3, <1>4, <1>6, <2>1, SumGrows
  <2>3. SumFunctionOnSet(count, coming) \in Nat /\ SumFunctionOnSet(max, rows) \in Nat
    BY <1>4, <1>5, <1>6, SumStep
  <2> QED BY <1>9, <2>2, <2>3
<1> HIDE DEF rows, pending, coming, declined, max, count
<1> QED BY <1>1, <1>7, <1>8, <1>9

-----------------------------------------------------------------------------
(* Theorems.                                                               *)

\* In every state each request fits the statement it runs next, and an answer
\* beyond the allowance, stored or under way, was checked before a cut.
THEOREM Inductive == Spec => []Inv
<1>1. Init => Inv
  BY InitInv
<1>2. Inv /\ [Next]_vars => Inv'
  BY NextInv
<1> QED BY <1>1, <1>2, PTL DEF Spec

\* The variables keep their types, and no two guests share an invite code.
THEOREM Typed == Spec => []TypeOK
<1>1. Inv => TypeOK
  BY DEF Inv
<1> QED BY <1>1, Inductive, PTL

\* A guest comes with more people than the invite allows only if an admin
\* lowered the allowance after that answer was checked (SubmitRSVP, SaveRSVP).
THEOREM OverAllowanceMeansCut == Spec => []OverAllowanceOnlyAfterCut
<1>1. Inv => OverAllowanceOnlyAfterCut
  BY DEF Inv
<1> QED BY <1>1, Inductive, PTL

\* The numbers of the dashboard agree with each other (GuestRepository.Summary).
THEOREM DashboardAddsUp == Spec => []SummaryAddsUp
<1>1. Inv => SummaryAddsUp
  BY InvAddsUp
<1> QED BY <1>1, Inductive, PTL

\* Only an INSERT makes a guest appear: edits and answers reach guests that
\* are there.
LEMMA WhatAppears ==
    ASSUME Inv, [Next]_vars, NEW g \in GuestIds, guests[g] = None, guests'[g] # None
    PROVE  \E s \in Slots : InsertGuest(s)
<1>1. g \notin Present
  BY DEF Present
<1>2. PICK s \in Slots : \/ InsertGuest(s) \/ UpdateGuest(s) \/ DeleteGuest(s) \/ SaveRSVP(s)
  BY DEF Next, vars, Begin, BeginCreate, BeginEdit, BeginRSVP, Start, Fail, Step
<1>3. ~ UpdateGuest(s)
  BY <1>1 DEF UpdateGuest, Scoped
<1>4. ~ DeleteGuest(s)
  BY <1>1 DEF DeleteGuest, Scoped
<1>5. ~ SaveRSVP(s)
  BY <1>1 DEF SaveRSVP, AnswerRows
<1> QED BY <1>2, <1>3, <1>4, <1>5

\* A create stores one guest at most, of its own wedding, and is over then
\* (GuestUsecase.Create, GuestRepository.Create).
THEOREM CreatesStoreOne == Spec => CreateStoresOne
<1> DEFINE One ==
      \A g \in GuestIds :
        guests[g] = None /\ guests'[g] # None =>
          /\ \A h \in GuestIds \ {g} : guests[h] = None => guests'[h] = None
          /\ \E s \in Slots : /\ pc[s] = "insert" /\ pc'[s] = "idle"
                              /\ guests'[g].wedding = req[s].wedding
<1>1. Inv /\ [Next]_vars => [One]_vars
  <2> SUFFICES ASSUME Inv, [Next]_vars, NEW g \in GuestIds, guests[g] = None, guests'[g] # None
               PROVE  /\ \A h \in GuestIds \ {g} : guests[h] = None => guests'[h] = None
                      /\ \E s \in Slots : /\ pc[s] = "insert" /\ pc'[s] = "idle"
                                          /\ guests'[g].wedding = req[s].wedding
    OBVIOUS
  <2>1. PICK s \in Slots : InsertGuest(s)
    BY WhatAppears
  <2>2. PICK c \in Codes : Stored(s, c) /\ Finish(s)
    BY <2>1 DEF InsertGuest, Collided
  <2>3. PICK i \in GuestIds : guests' = [guests EXCEPT ![i] = NewGuest(s, c)]
    BY <2>2 DEF Stored
  <2>4. guests \in [GuestIds -> Guest \cup {None}] /\ i = g
    BY <2>3 DEF Inv, TypeOK
  <2>5. \A h \in GuestIds \ {g} : guests'[h] = guests[h]
    BY <2>3, <2>4
  <2>6. guests'[g] = NewGuest(s, c) /\ guests'[g].wedding = req[s].wedding
    BY <2>3, <2>4 DEF NewGuest
  <2>7. pc[s] = "insert" /\ pc'[s] = "idle"
    BY <2>1, <2>2, FinishFacts DEF InsertGuest, Inv
  <2> QED BY <2>5, <2>6, <2>7
<1>2. [][One]_vars => CreateStoresOne
  BY PTL DEF CreateStoresOne
<1> QED BY <1>1, <1>2, Inductive, PTL DEF Spec

\* What changes a guest that is there: an edit scoped to its wedding, or an
\* answer whose lookup found it; the rest of the row stays.
LEMMA WhatChanges ==
    ASSUME Inv, [Next]_vars, NEW g \in Present, guests'[g] # guests[g]
    PROVE  \E s \in Slots :
             \/ /\ pc[s] = "write" /\ req[s].guest = g /\ req[s].wedding = guests[g].wedding
                /\ \/ guests'[g] = None
                   \/ guests'[g] = [guests[g] EXCEPT !.max = req[s].max]
             \/ /\ pc[s] = "save" /\ req[s].guest = g
                /\ guests'[g] # None
                /\ guests'[g] = [guests[g] EXCEPT !.status = req[s].status,
                                                  !.count = req[s].count]
<1>1. g \in GuestIds /\ g \in spent
  BY DEF Inv, Present
<1>2. PICK s \in Slots : \/ InsertGuest(s) \/ UpdateGuest(s) \/ DeleteGuest(s) \/ SaveRSVP(s)
  BY DEF Next, vars, Begin, BeginCreate, BeginEdit, BeginRSVP, Start, Fail, Step
<1>3. CASE InsertGuest(s)
  <2>1. \A h \in GuestIds \ spent : h # g
    BY <1>1
  <2> QED BY <1>1, <1>3, <2>1 DEF InsertGuest, Collided, Stored, Inv, TypeOK
<1>4. CASE UpdateGuest(s)
  <2>1. g \in Scoped(req[s].guest, req[s].wedding)
    BY <1>1, <1>4 DEF UpdateGuest
  <2>2. pc[s] = "write" /\ guests'[g] = [guests[g] EXCEPT !.max = req[s].max]
    BY <1>1, <1>4, <2>1 DEF UpdateGuest, Edited
  <2>3. req[s].guest = g /\ req[s].wedding = guests[g].wedding
    BY <2>1, ScopedFacts
  <2> QED BY <2>2, <2>3
<1>5. CASE DeleteGuest(s)
  <2>1. g \in Scoped(req[s].guest, req[s].wedding)
    BY <1>1, <1>5 DEF DeleteGuest
  <2>2. pc[s] = "write" /\ guests'[g] = None
    BY <1>1, <1>5, <2>1 DEF DeleteGuest
  <2>3. req[s].guest = g /\ req[s].wedding = guests[g].wedding
    BY <2>1, ScopedFacts
  <2> QED BY <2>2, <2>3
<1>6. CASE SaveRSVP(s)
  <2>1. g \in AnswerRows(s)
    BY <1>1, <1>6 DEF SaveRSVP
  <2>2. /\ pc[s] = "save" /\ req[s].guest = g
        /\ guests'[g] = [guests[g] EXCEPT !.status = req[s].status, !.count = req[s].count]
    BY <1>1, <1>6, <2>1 DEF SaveRSVP, AnswerRows
  <2>3. guests'[g] # None
    <3>1. guests[g] \in Guest /\ req[s] \in Request
      BY <1>1, <2>2, Constants DEF Inv, TypeOK, Present, SlotsInv, Fits
    <3>2. guests'[g] \in Guest
      BY <2>2, <3>1, Constants DEF Guest, Request, Inv, SlotsInv, Fits
    <3> QED BY <3>2, Constants
  <2> QED BY <2>2, <2>3
<1> QED BY <1>2, <1>3, <1>4, <1>5, <1>6

\* An answer changes only by an RSVP whose lookup found that very guest.
THEOREM AnswersAreKept == Spec => AnswersKept
<1>1. ASSUME Inv, [Next]_vars
      PROVE  [\A g \in Present :
                guests'[g] # None /\
                <<guests'[g].status, guests'[g].count>> # <<guests[g].status, guests[g].count>> =>
                  \E s \in Slots : pc[s] = "save" /\ req[s].guest = g]_vars
  <2> SUFFICES ASSUME NEW g \in Present, guests'[g] # None,
                      <<guests'[g].status, guests'[g].count>>
                        # <<guests[g].status, guests[g].count>>
               PROVE  \E s \in Slots : pc[s] = "save" /\ req[s].guest = g
    OBVIOUS
  <2>1. guests[g] \in Guest
    BY <1>1 DEF Inv, TypeOK, Present
  <2>2. guests'[g].status # guests[g].status \/ guests'[g].count # guests[g].count
    OBVIOUS
  <2>3. \A m : /\ [guests[g] EXCEPT !.max = m].status = guests[g].status
               /\ [guests[g] EXCEPT !.max = m].count = guests[g].count
    BY <2>1 DEF Guest
  <2>4. PICK s \in Slots :
          \/ guests'[g] = None \/ guests'[g] = [guests[g] EXCEPT !.max = req[s].max]
          \/ pc[s] = "save" /\ req[s].guest = g
    BY <1>1, <2>2, WhatChanges
  <2> QED BY <2>2, <2>3, <2>4
<1> QED BY <1>1, Inductive, PTL DEF Spec, AnswersKept

\* A guest is edited and removed only by an admin scoped to its wedding, and
\* keeps its wedding and its code (GuestRepository.Update, Delete).
THEOREM GuestsStay == Spec => GuestsStayInWedding
<1>1. ASSUME Inv, [Next]_vars
      PROVE  [\A g \in Present :
                /\ guests'[g] # None => /\ guests'[g].wedding = guests[g].wedding
                                        /\ guests'[g].code = guests[g].code
                /\ guests'[g] = None \/ guests'[g].max # guests[g].max =>
                     \E s \in Slots : /\ pc[s] = "write" /\ req[s].guest = g
                                      /\ req[s].wedding = guests[g].wedding]_vars
  <2> SUFFICES ASSUME NEW g \in Present
               PROVE  /\ guests'[g] # None => /\ guests'[g].wedding = guests[g].wedding
                                              /\ guests'[g].code = guests[g].code
                      /\ guests'[g] = None \/ guests'[g].max # guests[g].max =>
                           \E s \in Slots : /\ pc[s] = "write" /\ req[s].guest = g
                                            /\ req[s].wedding = guests[g].wedding
    OBVIOUS
  <2>1. guests[g] \in Guest /\ guests[g] # None
    BY <1>1 DEF Inv, TypeOK, Present
  <2>2. CASE guests'[g] # guests[g]
    <3>1. PICK s \in Slots :
            \/ /\ pc[s] = "write" /\ req[s].guest = g /\ req[s].wedding = guests[g].wedding
               /\ \/ guests'[g] = None
                  \/ guests'[g] = [guests[g] EXCEPT !.max = req[s].max]
            \/ /\ pc[s] = "save" /\ req[s].guest = g
               /\ guests'[g] # None
               /\ guests'[g] = [guests[g] EXCEPT !.status = req[s].status,
                                                 !.count = req[s].count]
      BY <1>1, <2>2, WhatChanges
    <3>2. guests'[g] # None => /\ guests'[g].wedding = guests[g].wedding
                               /\ guests'[g].code = guests[g].code
      BY <2>1, <3>1 DEF Guest
    <3>3. guests'[g] = None \/ guests'[g].max # guests[g].max => pc[s] # "save"
      BY <2>1, <3>1 DEF Guest
    <3> QED BY <3>1, <3>2, <3>3
  <2> QED BY <2>1, <2>2
<1> QED BY <1>1, Inductive, PTL DEF Spec, GuestsStayInWedding
=============================================================================
