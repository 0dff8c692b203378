---------------------------- MODULE ServerProofs ----------------------------
(***************************************************************************)
(* Theorems about Server, for any number of requests and connections and   *)
(* for all timeouts such that a request that runs into the timeout while   *)
(* it hashes a password is still done before the write timeout and before  *)
(* Shutdown gives up.                                                      *)
(***************************************************************************)
EXTENDS Server, FiniteSetTheorems, TLAPS

KindOf(q) == Program[q.op][q.step]

\* What a request is doing fits its step, and it waits for a connection only
\* while it holds none.
Placed(q) ==
    /\ q.step <= Len(Program[q.op])
    /\ q.at = "body" <=> KindOf(q) = "body"
    /\ q.at = "hash" <=> KindOf(q) = "hash"
    /\ q.at = "wait" => KindOf(q) \notin OnTx

\* How long a request whose body was in time can have been at what it does.
Timely(q) ==
    ~ q.late =>
      /\ q.at = "run"  => q.age <= Timeout
      /\ q.at = "hash" => q.age <= Timeout + q.spent
      /\ q.at = "wait" => q.age <= Timeout + HashTime

\* While Shutdown waits, every connection is at least as old as its waiting,
\* although requests may begin on it; the ages of these stop at the write timeout.
Older(q, time) == q.waited + q.age >= time \/ q.age >= WriteTimeout

\* What a slot can hold after Shutdown has waited for so long.
Sound(q, time) ==
    \/ q = Idle
    \/ q \in Connection /\ q.age >= time
    \/ q \in Request /\ Placed(q) /\ Timely(q) /\ Older(q, time)

\* The inductive invariant.
Inv ==
    /\ TypeOK
    /\ \A r \in Slots : Sound(req[r], drained)
    /\ main # "draining" => drained = 0

-----------------------------------------------------------------------------
(* Facts about the programs and the pool.                                  *)

\* A body is followed by statements, and so is a hash.
LEMMA AfterBodyAndHash ==
    ASSUME NEW op \in Ops, NEW i \in 1..Len(Program[op])
    PROVE  /\ Program[op][i] \in {"body", "queries", "hash", "begin", "insert", "own",
                                  "commit", "update"}
           /\ i \in 1..8
           /\ Program[op][i] = "body" => i + 1 \in 1..Len(Program[op])
           /\ i + 1 <= Len(Program[op]) /\ Program[op][i] \in {"body", "hash"} =>
                Program[op][i + 1] = "queries"
<1>1. op \in {"page", "answer", "login", "create", "rename"}
  BY DEF Ops, Program
<1>2. CASE op = "page"
  BY <1>2 DEF Program, PageSteps
<1>3. CASE op = "answer"
  BY <1>3 DEF Program, AnswerSteps
<1>4. CASE op = "login"
  BY <1>4 DEF Program, LoginSteps
<1>5. CASE op = "create"
  BY <1>5 DEF Program, CreateSteps
<1>6. CASE op = "rename"
  BY <1>6 DEF Program, RenameSteps
<1> QED BY <1>1, <1>2, <1>3, <1>4, <1>5, <1>6

\* A step of a transaction comes right after another, or after its begin.
LEMMA BeforeTx ==
    ASSUME NEW op \in Ops, NEW i \in 1..Len(Program[op]), i + 1 <= Len(Program[op]),
           Program[op][i + 1] \in {"insert", "own", "commit"}
    PROVE  Program[op][i] \in {"begin", "insert", "own"}
<1>1. op \in {"page", "answer", "login", "create", "rename"}
  BY DEF Ops, Program
<1>2. CASE op = "page"
  BY <1>2 DEF Program, PageSteps
<1>3. CASE op = "answer"
  BY <1>3 DEF Program, AnswerSteps
<1>4. CASE op = "login"
  BY <1>4 DEF Program, LoginSteps
<1>5. CASE op = "create"
  BY <1>5 DEF Program, CreateSteps
<1>6. CASE op = "rename"
  BY <1>6 DEF Program, RenameSteps
<1> QED BY <1>1, <1>2, <1>3, <1>4, <1>5, <1>6

\* Every program has a first step.
LEMMA FirstStep ==
    ASSUME NEW op \in Ops
    PROVE  1 \in 1..Len(Program[op])
<1>1. op \in {"page", "answer", "login", "create", "rename"}
  BY DEF Ops, Program
<1>2. Len(Program[op]) \in Nat /\ Len(Program[op]) >= 1
  <2>1. CASE op = "page"
    BY <2>1 DEF Program, PageSteps
  <2>2. CASE op = "answer"
    BY <2>2 DEF Program, AnswerSteps
  <2>3. CASE op = "login"
    BY <2>3 DEF Program, LoginSteps
  <2>4. CASE op = "create"
    BY <2>4 DEF Program, CreateSteps
  <2>5. CASE op = "rename"
    BY <2>5 DEF Program, RenameSteps
  <2> QED BY <1>1, <2>1, <2>2, <2>3, <2>4, <2>5
<1> QED BY <1>2

\* Where a step starts, by its kind.
LEMMA Entries ==
    ASSUME NEW kind \in {"body", "queries", "hash", "begin", "insert", "own", "commit", "update"}
    PROVE  /\ Entry(kind) \in {"body", "hash", "wait", "run"}
           /\ Entry(kind) = "body" <=> kind = "body"
           /\ Entry(kind) = "hash" <=> kind = "hash"
           /\ Entry(kind) = "run" <=> kind \in OnTx
BY DEF Entry, OnTx

\* What a slot holds is told by what it is at.
LEMMA Held ==
    /\ Idle.at = "idle" /\ Idle \notin Request /\ Idle \notin Connection
    /\ \A q \in Connection : q.at = "head" /\ q \notin Request
    /\ \A q \in Request : q.at \in {"body", "hash", "wait", "run"}
BY DEF Idle, Request, Connection

\* Changing what a request does leaves it a request.
LEMMA Changed ==
    ASSUME NEW q, q \in Request, NEW step \in 1..8, NEW n \in 0..HashTime,
           NEW at \in {"body", "hash", "wait", "run"}
    PROVE  /\ [q EXCEPT !.step = step, !.spent = n, !.at = at] \in Request
           /\ [q EXCEPT !.at = at] \in Request
<1>1. [q EXCEPT !.step = step, !.spent = n] \in Request
  BY DEF Request
<1>2. \A p \in Request : [p EXCEPT !.at = at] \in Request
  BY DEF Request
<1>3. [q EXCEPT !.step = step, !.spent = n, !.at = at]
        = [[q EXCEPT !.step = step, !.spent = n] EXCEPT !.at = at]
  OBVIOUS
<1> QED BY <1>1, <1>2, <1>3

\* The connection a request holds for its transaction, and for a statement.
HoldsTx(q) ==
    /\ q # Idle /\ q.at # "head"
    /\ KindOf(q) \in {"insert", "own", "commit"} \/ (KindOf(q) = "begin" /\ q.at = "run")

HoldsStatement(q) ==
    q # Idle /\ q.at = "run" /\ KindOf(q) \notin OnTx \cup {"begin"}

LEMMA UsedIs ==
    Used = {<<r, "tx">> : r \in {s \in Slots : HoldsTx(req[s])}}
             \cup {<<r, "statement">> : r \in {s \in Slots : HoldsStatement(req[s])}}
BY DEF Used, InTx, Begun, Busy, Kind, KindOf, HoldsTx, HoldsStatement

LEMMA UsedFinite == IsFiniteSet(Used)
<1>1. IsFiniteSet({"tx", "statement"})
  <2>1. {"tx", "statement"} = ({} \cup {"tx"}) \cup {"statement"}
    OBVIOUS
  <2> QED BY <2>1, FS_EmptySet, FS_AddElement
<1>2. IsFiniteSet(Slots \X {"tx", "statement"})
  BY <1>1, FS_Product, PoolAssumption
<1>3. Used \in SUBSET (Slots \X {"tx", "statement"})
  BY UsedIs
<1> QED BY <1>2, <1>3, FS_Subset

-----------------------------------------------------------------------------
(* One request moves on.                                                   *)

\* A step of one request keeps the invariant if what the request becomes is
\* sound and if it takes no connection, or takes one while there is room.
LEMMA OneRequest ==
    ASSUME Inv, NEW r \in Slots, NEW q, Sound(q, drained),
           req' = [req EXCEPT ![r] = q], ServerUnchanged,
           \/ /\ HoldsTx(q) => HoldsTx(req[r])
              /\ HoldsStatement(q) => HoldsStatement(req[r])
           \/ HasRoom /\ ~ HoldsTx(q)
           \/ HasRoom /\ ~ HoldsStatement(q)
    PROVE  Inv'
<1>1. /\ req \in [Slots -> Request \cup Connection \cup {Idle}]
      /\ req' \in [Slots -> Request \cup Connection \cup {Idle}]
  BY DEF Inv, TypeOK, Sound
<1>2. UNCHANGED <<main, listening, stop, asked, drained>>
  BY DEF ServerUnchanged
<1>3. \A s \in Slots : s # r => req'[s] = req[s]
  BY <1>1
<1>4. req'[r] = q
  BY <1>1
<1>5. \A s \in Slots : Sound(req'[s], drained)
  BY <1>3, <1>4 DEF Inv
<1>6. \A s \in Begun' : req'[s].step <= Len(Program[req'[s].op])
  BY <1>5, Held DEF Begun, Busy, Placed, Sound
<1>7. Used' = {<<s, "tx">> : s \in {t \in Slots : HoldsTx(req'[t])}}
             \cup {<<s, "statement">> : s \in {t \in Slots : HoldsStatement(req'[t])}}
  BY DEF Used, InTx, Begun, Busy, Kind, KindOf, HoldsTx, HoldsStatement
<1>8. Cardinality(Used) <= MaxOpen /\ Cardinality(Used) \in Nat
  BY UsedFinite, FS_CardinalityType DEF Inv, TypeOK
<1>9. Cardinality(Used') <= MaxOpen
  <2>1. CASE /\ HoldsTx(q) => HoldsTx(req[r])
             /\ HoldsStatement(q) => HoldsStatement(req[r])
    <3>1. Used' \in SUBSET Used
      BY <2>1, <1>3, <1>4, <1>7, UsedIs
    <3>2. Cardinality(Used') <= Cardinality(Used) /\ IsFiniteSet(Used')
      BY <3>1, UsedFinite, FS_Subset
    <3>3. Cardinality(Used') \in Nat
      BY <3>2, FS_CardinalityType
    <3> QED BY <3>2, <3>3, <1>8, PoolAssumption
  <2>2. ASSUME HasRoom, NEW x, Used' \in SUBSET (Used \cup {x})
        PROVE  Cardinality(Used') <= MaxOpen
    <3>1. IsFiniteSet(Used \cup {x}) /\ Cardinality(Used \cup {x}) <= Cardinality(Used) + 1
      BY UsedFinite, FS_AddElement, <1>8
    <3>2. IsFiniteSet(Used') /\ Cardinality(Used') <= Cardinality(Used \cup {x})
      BY <3>1, <2>2, FS_Subset
    <3>3. Cardinality(Used') \in Nat /\ Cardinality(Used \cup {x}) \in Nat
      BY <3>1, <3>2, FS_CardinalityType
    <3> QED BY <3>1, <3>2, <3>3, <1>8, <2>2, PoolAssumption DEF HasRoom
  <2>3. CASE HasRoom /\ ~ HoldsTx(q)
    <3>1. Used' \in SUBSET (Used \cup {<<r, "statement">>})
      BY <2>3, <1>3, <1>4, <1>7, UsedIs
    <3> QED BY <3>1, <2>2, <2>3
  <2>4. CASE HasRoom /\ ~ HoldsStatement(q)
    <3>1. Used' \in SUBSET (Used \cup {<<r, "tx">>})
      BY <2>4, <1>3, <1>4, <1>7, UsedIs
    <3> QED BY <3>1, <2>2, <2>4
  <2> QED BY <2>1, <2>3, <2>4
<1>10. TypeOK'
  BY <1>1, <1>2, <1>6, <1>9 DEF Inv, TypeOK
<1> QED BY <1>2, <1>5, <1>10 DEF Inv

-----------------------------------------------------------------------------
(* The actions.                                                            *)

\* What the invariant says of one request.
LEMMA OfRequest ==
    ASSUME Inv, NEW r \in Slots, req[r].at \in {"body", "hash", "wait", "run"}
    PROVE  /\ req[r] # Idle /\ req[r].at # "head" /\ req[r] \in Request
           /\ req[r].op \in Ops /\ req[r].step \in 1..Len(Program[req[r].op])
           /\ req[r].waited \in Nat /\ req[r].age \in Nat
           /\ req[r].spent \in 0..HashTime /\ req[r].late \in BOOLEAN
           /\ Placed(req[r]) /\ Timely(req[r]) /\ Older(req[r], drained)
           /\ drained \in 0..Drain
<1>1. /\ req[r] # Idle /\ req[r].at # "head" /\ req[r] \in Request
      /\ Placed(req[r]) /\ Timely(req[r]) /\ Older(req[r], drained)
  BY Held DEF Inv, Sound
<1>2. Len(Program[req[r].op]) \in Nat
  <2>1. req[r].op \in Ops
    BY <1>1 DEF Request
  <2>2. 1 \in 1..Len(Program[req[r].op])
    BY <2>1, FirstStep
  <2> QED BY <2>1, <2>2, AfterBodyAndHash
<1>3. drained \in 0..Drain
  BY DEF Inv, TypeOK
<1> QED BY <1>1, <1>2, <1>3 DEF Request, Placed

\* And of one in the set of requests.
LEMMA OfBegun ==
    ASSUME Inv, NEW r \in Begun
    PROVE  r \in Slots /\ req[r].at \in {"body", "hash", "wait", "run"}
<1>1. r \in Slots /\ req[r] # Idle /\ req[r].at # "head" /\ Sound(req[r], drained)
  BY DEF Begun, Busy, Inv
<1> QED BY <1>1, Held DEF Sound

\* Answering a request keeps the invariant.
LEMMA AnswerKeeps ==
    ASSUME Inv, NEW r \in Slots, Answer(r), ServerUnchanged
    PROVE  Inv'
<1>1. ~ HoldsTx(Idle) /\ ~ HoldsStatement(Idle) /\ Sound(Idle, drained)
  BY DEF HoldsTx, HoldsStatement, Sound
<1> QED BY <1>1, OneRequest DEF Answer

\* So does going on to a step from a statement or a hash that is over.
LEMMA GotoKeeps ==
    ASSUME Inv, NEW r \in Slots, req[r].at \in {"run", "hash"},
           NEW step \in 1..Len(Program[req[r].op]),
           \/ step = req[r].step + 1
           \/ step = req[r].step /\ Kind(r) = "queries",
           Goto(r, step), ServerUnchanged
    PROVE  Inv'
<1> DEFINE kind == Program[req[r].op][step]
           q == [req[r] EXCEPT !.step = step, !.spent = 0, !.at = Entry(kind)]
<1>1. req[r] # Idle
  BY OfRequest
<1>2. /\ req[r] \in Request /\ req[r].op \in Ops
      /\ req[r].step \in 1..Len(Program[req[r].op])
      /\ req[r].waited \in Nat /\ req[r].age \in Nat /\ req[r].spent \in 0..HashTime
      /\ Placed(req[r]) /\ Timely(req[r]) /\ Older(req[r], drained)
  BY <1>1, OfRequest
<1>3. /\ kind \in {"body", "queries", "hash", "begin", "insert", "own", "commit", "update"}
      /\ step \in 1..8
  BY <1>2, AfterBodyAndHash
<1>4. /\ Entry(kind) \in {"body", "hash", "wait", "run"}
      /\ Entry(kind) = "body" <=> kind = "body"
      /\ Entry(kind) = "hash" <=> kind = "hash"
      /\ Entry(kind) = "run" <=> kind \in OnTx
  BY <1>3, Entries
<1>5. q \in Request
  <2>1. 0 \in 0..HashTime
    BY TimeAssumption
  <2> HIDE DEF kind
  <2> QED BY <2>1, <1>2, <1>3, <1>4, Changed
<1>6. req' = [req EXCEPT ![r] = q]
  BY <1>2 DEF Goto, Inv, TypeOK, Request
<1>7. q.step = step /\ q.op = req[r].op /\ q.at = Entry(kind) /\ KindOf(q) = kind
      /\ q.waited = req[r].waited /\ q.age = req[r].age
      /\ q.late = req[r].late /\ q.spent = 0
  BY <1>2 DEF Request, KindOf
<1>8. Placed(q)
  BY <1>4, <1>7 DEF Placed
<1>9. Timely(q)
  <2>1. CASE req[r].at = "run"
    BY <2>1, <1>2, <1>4, <1>7, TimeAssumption DEF Timely
  <2>2. CASE req[r].at = "hash"
    <3>1. KindOf(req[r]) = "hash" /\ step = req[r].step + 1
      BY <2>2, <1>2 DEF Placed, Kind, KindOf
    <3>2. kind = "queries"
      BY <3>1, <1>2, AfterBodyAndHash DEF KindOf
    <3>3. q.at = "wait"
      BY <3>2, <1>4, <1>7 DEF OnTx
    <3> QED BY <3>3, <2>2, <1>2, <1>7, TimeAssumption DEF Timely
  <2> QED BY <2>1, <2>2
<1>10. Older(q, drained)
  BY <1>2, <1>7 DEF Older
<1>11. /\ HoldsTx(q) => HoldsTx(req[r])
       /\ HoldsStatement(q) => HoldsStatement(req[r])
  <2>1. ~ HoldsStatement(q)
    BY <1>4, <1>7 DEF HoldsStatement
  <2>2. HoldsTx(q) => HoldsTx(req[r])
    BY <1>1, <1>2, <1>4, <1>7, BeforeTx DEF HoldsTx, KindOf, Kind, Placed, OnTx
  <2> QED BY <2>1, <2>2
<1> QED
  <2> HIDE DEF q
  <2>1. Sound(q, drained)
    BY <1>5, <1>8, <1>9, <1>10 DEF Sound
  <2> QED BY <1>6, <1>11, <2>1, OneRequest

LEMMA AdvanceKeeps ==
    ASSUME Inv, NEW r \in Slots, req[r].at \in {"run", "hash"}, Advance(r), ServerUnchanged
    PROVE  Inv'
<1>1. req[r] # Idle
  BY OfRequest
<1>2. req[r].op \in Ops /\ req[r].step \in 1..Len(Program[req[r].op])
  BY <1>1, OfRequest
<1>3. CASE req[r].step = Len(Program[req[r].op])
  BY <1>3, AnswerKeeps DEF Advance
<1>4. CASE req[r].step # Len(Program[req[r].op])
  <2>1. req[r].step + 1 \in 1..Len(Program[req[r].op])
    BY <1>2, <1>4
  <2> QED BY <1>4, <2>1, GotoKeeps DEF Advance
<1> QED BY <1>3, <1>4

LEMMA CompleteKeeps ==
    ASSUME Inv, NEW r \in Slots, Complete(r)
    PROVE  Inv'
<1>1. req[r] # Idle /\ req[r].at = "run" /\ ServerUnchanged
  BY OfRequest DEF Complete
<1>2. CASE Advance(r)
  BY <1>1, <1>2, AdvanceKeeps
<1>3. CASE Kind(r) = "queries" /\ Goto(r, req[r].step)
  BY <1>1, <1>3, OfRequest, GotoKeeps
<1>4. CASE Answer(r)
  BY <1>1, <1>4, AnswerKeeps
<1> QED BY <1>2, <1>3, <1>4 DEF Complete

LEMMA HashedKeeps ==
    ASSUME Inv, NEW r \in Slots, Hashed(r)
    PROVE  Inv'
BY AdvanceKeeps, AnswerKeeps DEF Hashed

LEMMA CutOffKeeps ==
    ASSUME Inv, NEW r \in Slots, CutOff(r)
    PROVE  Inv'
BY AnswerKeeps DEF CutOff

\* A connection is taken before the timeout, and while there is one.
LEMMA AcquireKeeps ==
    ASSUME Inv, NEW r \in Slots, Acquire(r)
    PROVE  Inv'
<1> DEFINE q == [req[r] EXCEPT !.at = "run"]
<1>1. req[r] # Idle /\ req[r].at = "wait" /\ ServerUnchanged /\ HasRoom /\ ~ Expired(r)
  BY OfRequest DEF Acquire
<1>2. /\ req[r] \in Request /\ req[r].step \in 1..8
      /\ req[r].waited \in Nat /\ req[r].age \in Nat /\ req[r].spent \in 0..HashTime
      /\ Placed(req[r]) /\ Timely(req[r]) /\ Older(req[r], drained)
  BY <1>1, OfRequest DEF Request
<1>3. q \in Request
  BY <1>2, Changed
<1>4. req' = [req EXCEPT ![r] = q]
  BY DEF Acquire, Inv, TypeOK
<1>5. /\ q.at = "run" /\ q.step = req[r].step /\ q.op = req[r].op
      /\ q.waited = req[r].waited /\ q.age = req[r].age
      /\ q.late = req[r].late /\ q.spent = req[r].spent
  BY <1>2 DEF Request
<1>6. KindOf(q) = KindOf(req[r])
  BY <1>5 DEF KindOf
<1>7. Placed(q)
  BY <1>1, <1>2, <1>5, <1>6 DEF Placed
<1>8. Timely(q) /\ Older(q, drained)
  BY <1>1, <1>2, <1>5, TimeAssumption DEF Timely, Older, Expired
<1>9. ~ HoldsTx(q) \/ ~ HoldsStatement(q)
  BY <1>1, <1>2, <1>6 DEF HoldsTx, HoldsStatement, Placed, OnTx
<1> QED
  <2> HIDE DEF q
  <2>1. Sound(q, drained)
    BY <1>3, <1>7, <1>8 DEF Sound
  <2> QED BY <1>1, <1>4, <1>9, <2>1, OneRequest

\* A body that has arrived is followed by statements.
LEMMA ReadBodyKeeps ==
    ASSUME Inv, NEW r \in Slots, ReadBody(r)
    PROVE  Inv'
<1>1. req[r] # Idle /\ req[r].at = "body" /\ ServerUnchanged
  BY OfRequest DEF ReadBody
<1>2. CASE Answer(r)
  BY <1>1, <1>2, AnswerKeeps
<1>3. ASSUME req' = [req EXCEPT ![r].step = @ + 1, ![r].late = Expired(r),
                                ![r].at = Entry(Program[req[r].op][req[r].step + 1])]
      PROVE  Inv'
  <2> DEFINE step == req[r].step + 1
             at == Entry(Program[req[r].op][step])
             late == Expired(r)
             q == [req[r] EXCEPT !.step = step, !.late = late, !.at = at]
  <2>1. /\ req[r] \in Request /\ req[r].op \in Ops
        /\ req[r].step \in 1..Len(Program[req[r].op])
        /\ req[r].waited \in Nat /\ req[r].age \in Nat /\ req[r].spent \in 0..HashTime
        /\ Placed(req[r]) /\ Timely(req[r]) /\ Older(req[r], drained)
    BY <1>1, OfRequest
  <2>2. KindOf(req[r]) = "body"
    BY <1>1, <2>1 DEF Placed
  <2>3. step \in 1..Len(Program[req[r].op]) /\ Program[req[r].op][step] = "queries"
    BY <2>1, <2>2, AfterBodyAndHash DEF KindOf
  <2>4. step \in 1..8
    BY <2>1, <2>3, AfterBodyAndHash
  <2>5. at = "wait"
    BY <2>3 DEF Entry, OnTx
  <2>6. late \in BOOLEAN
    BY DEF Expired
  <2> HIDE DEF at, late, step
  <2>7. [req[r] EXCEPT !.step = step, !.late = late] \in Request
    BY <2>1, <2>4, <2>6 DEF Request
  <2>8. \A p \in Request : [p EXCEPT !.at = "wait"] \in Request
    BY DEF Request
  <2>9. q \in Request
    <3>1. q = [[req[r] EXCEPT !.step = step, !.late = late] EXCEPT !.at = "wait"]
      BY <2>5
    <3> QED BY <3>1, <2>7, <2>8
  <2>10. req' = [req EXCEPT ![r] = q]
    BY <1>3 DEF Inv, TypeOK, at, late, step
  <2>11. /\ q.at = "wait" /\ q.step = step /\ q.op = req[r].op
         /\ q.waited = req[r].waited /\ q.age = req[r].age /\ q.late = late
    BY <2>1, <2>5 DEF Request
  <2>12. KindOf(q) = "queries"
    BY <2>3, <2>11 DEF KindOf
  <2>13. Placed(q)
    BY <2>3, <2>11, <2>12 DEF Placed, OnTx
  <2>14. Timely(q) /\ Older(q, drained)
    <3>1. ~ late => req[r].age < Timeout
      BY <2>1, TimeAssumption DEF Expired, late
    <3>2. ~ q.late => ~ late
      BY <2>11
    <3>3. ~ late => q.age <= Timeout + HashTime
      BY <3>1, <2>1, <2>11, TimeAssumption
    <3>4. q.at # "run" /\ q.at # "hash"
      BY <2>11
    <3>5. Timely(q)
      BY <3>2, <3>3, <3>4 DEF Timely
    <3> QED BY <3>5, <2>1, <2>11 DEF Older
  <2>15. ~ HoldsTx(q) /\ ~ HoldsStatement(q)
    BY <2>11, <2>12 DEF HoldsTx, HoldsStatement
  <2> QED
    <3> HIDE DEF q
    <3>1. Sound(q, drained)
      BY <2>9, <2>13, <2>14 DEF Sound
    <3> QED BY <1>1, <2>10, <2>15, <3>1, OneRequest
<1> QED BY <1>2, <1>3 DEF ReadBody

\* A new connection holds nothing, and none is accepted while Shutdown waits.
LEMMA AcceptKeeps ==
    ASSUME Inv, NEW r \in Slots, Accept(r)
    PROVE  Inv'
<1> DEFINE q == [at |-> "head", age |-> 0]
<1>1. ~ HoldsTx(q) /\ ~ HoldsStatement(q)
  BY DEF HoldsTx, HoldsStatement
<1>2. Sound(q, drained)
  <2>1. q \in Connection
    BY DEF Connection
  <2>2. drained = 0
    BY DEF Accept, Accepting, Inv
  <2> QED BY <2>1, <2>2 DEF Sound
<1>3. ServerUnchanged /\ req' = [req EXCEPT ![r] = q]
  BY DEF Accept
<1> QED
  <2> HIDE DEF q
  <2> QED BY <1>1, <1>2, <1>3, OneRequest

\* A request begins as old as its connection.
LEMMA BeginKeeps ==
    ASSUME Inv, NEW r \in Slots, Begin(r)
    PROVE  Inv'
<1>1. PICK op \in Ops :
        req' = [req EXCEPT ![r] = [op |-> op, step |-> 1, at |-> Entry(Program[op][1]),
                                   waited |-> req[r].age, age |-> 0, spent |-> 0,
                                   late |-> FALSE]]
  <2>1. Serves[r] \subseteq Ops /\ DOMAIN req = Slots
    BY ServesAssumption DEF Inv, TypeOK
  <2> QED BY <2>1 DEF Begin
<1>2. req[r].age \in Nat /\ req[r].age >= drained /\ drained \in 0..Drain
  <2>1. req[r].at = "head" /\ Sound(req[r], drained)
    BY DEF Begin, Inv
  <2>2. req[r] \in Connection /\ req[r].age >= drained
    BY <2>1, Held DEF Sound
  <2> QED BY <2>2 DEF Connection, Inv, TypeOK
<1> DEFINE kind == Program[op][1]
           q == [op |-> op, step |-> 1, at |-> Entry(kind), waited |-> req[r].age,
                 age |-> 0, spent |-> 0, late |-> FALSE]
<1>3. kind \in {"body", "queries"}
  BY DEF Ops, Program, PageSteps, AnswerSteps, LoginSteps, CreateSteps,
         RenameSteps
<1>4. /\ Entry(kind) \in {"body", "wait"}
      /\ Entry(kind) = "body" <=> kind = "body"
  BY <1>3 DEF Entry, OnTx
<1>5. q \in Request
  BY <1>2, <1>4, TimeAssumption DEF Request
<1>6. KindOf(q) = kind
  BY DEF KindOf
<1>7. Placed(q)
  BY <1>3, <1>4, <1>6, FirstStep DEF Placed, OnTx
<1>8. Timely(q)
  BY <1>4, TimeAssumption DEF Timely
<1>9. Older(q, drained)
  BY <1>2 DEF Older
<1>10. ~ HoldsTx(q) /\ ~ HoldsStatement(q)
  BY <1>3, <1>4, <1>6 DEF HoldsTx, HoldsStatement
<1>11. ServerUnchanged /\ req' = [req EXCEPT ![r] = q]
  BY <1>1 DEF Begin
<1> QED
  <2> HIDE DEF q
  <2>1. Sound(q, drained)
    BY <1>5, <1>7, <1>8, <1>9 DEF Sound
  <2> QED BY <1>10, <1>11, <2>1, OneRequest

LEMMA DropKeeps ==
    ASSUME Inv, NEW r \in Slots, Drop(r)
    PROVE  Inv'
BY AnswerKeeps DEF Drop, Answer

-----------------------------------------------------------------------------
(* The process, and time.                                                  *)

\* Nothing is held once the process has ended.
LEMMA ExitKeeps ==
    ASSUME Inv, Exit
    PROVE  Inv'
<1>1. \A r \in Slots : req'[r] = Idle
  BY DEF Exit
<1>2. Begun' = {}
  BY <1>1 DEF Begun, Busy
<1>3. Used' = {}
  BY <1>2 DEF Used, InTx
<1>4. Cardinality(Used') <= MaxOpen
  BY <1>3, FS_EmptySet, PoolAssumption
<1>5. req' \in [Slots -> Request \cup Connection \cup {Idle}]
  BY DEF Exit
<1>6. TypeOK'
  <2>1. drained' \in 0..Drain
    BY TimeAssumption DEF Exit
  <2> QED BY <1>2, <1>4, <1>5, <2>1 DEF TypeOK, Exit
<1> QED BY <1>1, <1>6 DEF Inv, Exit, Sound

\* The process moves on while its requests stay as they are.
LEMMA MainKeeps ==
    ASSUME Inv, UNCHANGED <<req, drained>>,
           main' \in {"boot", "notified", "serving", "draining", "down"},
           listening' \in BOOLEAN, stop' \in BOOLEAN, asked' \in BOOLEAN,
           main = "draining" => main' = "draining"
    PROVE  Inv'
<1>1. Used' = Used /\ Begun' = Begun
  BY DEF Used, InTx, Begun, Busy, Kind
<1>2. TypeOK'
  <2>1. \A r \in Begun' : req'[r].step <= Len(Program[req'[r].op])
    BY <1>1 DEF Inv, TypeOK
  <2>2. Cardinality(Used') <= MaxOpen
    BY <1>1 DEF Inv, TypeOK
  <2>3. req' \in [Slots -> Request \cup Connection \cup {Idle}] /\ drained' \in 0..Drain
    BY DEF Inv, TypeOK
  <2> QED BY <2>1, <2>2, <2>3 DEF TypeOK
<1> QED BY <1>2 DEF Inv

LEMMA ProcessKeeps ==
    ASSUME Inv, Process
    PROVE  Inv'
<1> USE DEF Inv, TypeOK
<1>1. CASE Listen
  BY <1>1, MainKeeps DEF Listen
<1>2. CASE ListenFails
  BY <1>2, ExitKeeps DEF ListenFails
<1>3. CASE Notify
  BY <1>3, MainKeeps DEF Notify
<1>4. CASE Wait
  BY <1>4, MainKeeps DEF Wait
<1>5. CASE Sigterm
  <2>1. stop' \in BOOLEAN \/ Exit
    BY <1>5 DEF Sigterm, Delivered
  <2> QED BY <2>1, <1>5, MainKeeps, ExitKeeps DEF Sigterm
<1>6. CASE Shutdown
  BY <1>6, MainKeeps DEF Shutdown
<1>7. CASE Close
  BY <1>7, ExitKeeps DEF Close
<1>8. CASE Restart
  BY <1>8, MainKeeps DEF Restart
<1> QED BY <1>1, <1>2, <1>3, <1>4, <1>5, <1>6, <1>7, <1>8 DEF Process

\* Time passes only while nothing is overdue, which bounds every age.
LEMMA TickKeeps ==
    ASSUME Inv, Tick
    PROVE  Inv'
<1>1. /\ \A r \in Slots : req'[r] = Aged(req[r])
      /\ drained' \in {drained, drained + 1} /\ drained \in 0..Drain
  BY DEF Tick, Inv, TypeOK
<1>2. ASSUME NEW r \in Slots, req[r].at \in {"body", "hash", "wait", "run"}
      PROVE  /\ req'[r] \in Request
             /\ req'[r].op = req[r].op /\ req'[r].step = req[r].step
             /\ req'[r].at = req[r].at
             /\ Placed(req'[r]) /\ Timely(req'[r]) /\ Older(req'[r], drained')
  <2> DEFINE age == AtMost(req[r].age + 1, WriteTimeout)
             spent == IF req[r].at = "hash" THEN req[r].spent + 1 ELSE req[r].spent
             q == [req[r] EXCEPT !.age = age, !.spent = spent]
  <2>1. /\ req[r] # Idle /\ req[r].at # "head"
        /\ req[r] \in Request /\ req[r].waited \in Nat /\ req[r].age \in Nat
        /\ req[r].spent \in 0..HashTime
        /\ Placed(req[r]) /\ Timely(req[r]) /\ Older(req[r], drained)
    BY <1>2, OfRequest
  <2>2. r \in Begun
    BY <2>1 DEF Begun, Busy
  <2>3. /\ req[r].at = "hash" => req[r].spent # HashTime
        /\ req[r].at \in {"wait", "run"} => ~ (req[r].age >= Timeout)
    BY <2>2 DEF Tick, Overdue, Interruptible, Expired
  <2>4. age \in Nat /\ age <= req[r].age + 1 /\ (age = req[r].age + 1 \/ age >= WriteTimeout)
    BY <2>1, TimeAssumption DEF AtMost
  <2>5. spent \in 0..HashTime
    BY <2>1, <2>3, TimeAssumption
  <2>6. req'[r] = q
    BY <1>1, <2>1 DEF Aged
  <2>7. req[r].at = "hash" => spent = req[r].spent + 1
    OBVIOUS
  <2> HIDE DEF age, spent
  <2>8. q \in Request
    BY <2>1, <2>4, <2>5 DEF Request
  <2>9. /\ q.op = req[r].op /\ q.step = req[r].step /\ q.at = req[r].at
        /\ q.waited = req[r].waited
        /\ q.age = age /\ q.spent = spent /\ q.late = req[r].late
    BY <2>1 DEF Request
  <2> HIDE DEF q
  <2>10. Placed(q)
    BY <2>1, <2>9 DEF Placed, KindOf
  <2>11. Timely(q)
    BY <2>1, <2>3, <2>4, <2>5, <2>7, <2>9, TimeAssumption DEF Timely
  <2>12. Older(q, drained')
    BY <1>1, <2>1, <2>4, <2>9, TimeAssumption DEF Older
  <2> QED BY <2>6, <2>8, <2>9, <2>10, <2>11, <2>12
<1>3. ASSUME NEW r \in Slots, req[r].at \notin {"body", "hash", "wait", "run"}
      PROVE  /\ Sound(req'[r], drained') /\ req'[r].at = req[r].at
             /\ req[r] = Idle <=> req'[r] = Idle
  <2>1. req[r] = Idle \/ (req[r] \in Connection /\ req[r].age >= drained)
    BY <1>3, Held DEF Inv, Sound
  <2>2. CASE req[r] = Idle
    BY <1>1, <2>2 DEF Aged, Sound
  <2>3. CASE req[r] \in Connection /\ req[r].age >= drained
    <3>1. req[r].at = "head" /\ req[r] # Idle
      BY <2>3, Held
    <3>2. req'[r] = [req[r] EXCEPT !.age = @ + 1]
      BY <1>1, <3>1 DEF Aged
    <3>3. /\ req'[r] \in Connection /\ req'[r].age = req[r].age + 1
          /\ req[r].age \in Nat
      BY <2>3, <3>2 DEF Connection
    <3>4. req'[r].age >= drained'
      BY <1>1, <2>3, <3>3
    <3> QED BY <3>1, <3>3, <3>4, Held DEF Sound
  <2> QED BY <2>1, <2>2, <2>3
<1>4. \A r \in Slots : Sound(req'[r], drained')
  BY <1>2, <1>3 DEF Sound
<1>5. Begun' = Begun /\ Used' = Used
  <2>1. \A r \in Slots :
          r \in Begun <=> req[r].at \in {"body", "hash", "wait", "run"}
    BY OfBegun, OfRequest DEF Begun, Busy
  <2>2. \A r \in Slots : req'[r].at = req[r].at
    BY <1>2, <1>3
  <2>3. \A r \in Slots :
          r \in Begun' <=> req'[r].at \in {"body", "hash", "wait", "run"}
    BY <1>4, Held DEF Begun, Busy, Sound
  <2>4. Begun' = Begun
    BY <2>1, <2>2, <2>3 DEF Begun, Busy
  <2>5. \A r \in Begun : Kind(r)' = Kind(r)
    BY <1>2, <2>1 DEF Kind, Begun, Busy
  <2>6. \A r \in Slots : InTx(r)' <=> InTx(r)
    BY <2>2, <2>4, <2>5 DEF InTx
  <2>7. Begun \subseteq Slots
    BY DEF Begun, Busy
  <2> QED BY <2>2, <2>4, <2>5, <2>6, <2>7 DEF Used
<1>6. drained' \in 0..Drain /\ (main' # "draining" => drained' = 0)
  <2>1. main = "draining" => drained # Drain
    BY DEF Tick, Overdue
  <2>2. main' = main /\ drained \in 0..Drain /\ (main # "draining" => drained = 0)
    BY DEF Tick, Inv, TypeOK
  <2>3. drained' = IF main = "draining" THEN drained + 1 ELSE drained
    BY DEF Tick
  <2>4. CASE main = "draining"
    BY <2>1, <2>2, <2>3, <2>4, TimeAssumption
  <2>5. CASE main # "draining"
    BY <2>2, <2>3, <2>5
  <2> QED BY <2>4, <2>5
<1>7. TypeOK'
  <2>1. req' \in [Slots -> Request \cup Connection \cup {Idle}]
    <3>1. \A r \in Slots : req'[r] \in Request \cup Connection \cup {Idle}
      BY <1>4 DEF Sound
    <3> QED BY <3>1 DEF Tick
  <2>2. \A r \in Begun' : req'[r].step <= Len(Program[req'[r].op])
    BY <1>4, Held DEF Begun, Busy, Sound, Placed
  <2> QED BY <2>1, <2>2, <1>5, <1>6 DEF Inv, TypeOK, Tick
<1> QED BY <1>4, <1>6, <1>7 DEF Inv

-----------------------------------------------------------------------------
(* The invariant, and what follows from it.                                *)

LEMMA InitInv == Init => Inv
<1> SUFFICES ASSUME Init PROVE Inv
  OBVIOUS
<1>1. Begun = {} /\ \A r \in Slots : req[r] = Idle
  BY DEF Init, Begun, Busy
<1>2. Used = {}
  BY <1>1 DEF Used, InTx
<1>3. Cardinality(Used) <= MaxOpen
  BY <1>2, FS_EmptySet, PoolAssumption
<1>4. req \in [Slots -> Request \cup Connection \cup {Idle}] /\ drained \in 0..Drain
  BY TimeAssumption DEF Init
<1>5. TypeOK
  BY <1>1, <1>3, <1>4 DEF Init, TypeOK
<1> QED BY <1>1, <1>5 DEF Inv, Init, Sound

LEMMA StepInv == Inv /\ [Next]_vars => Inv'
<1> SUFFICES ASSUME Inv, [Next]_vars PROVE Inv'
  OBVIOUS
<1>1. CASE Tick
  BY <1>1, TickKeeps
<1>2. CASE Process
  BY <1>2, ProcessKeeps
<1>3. ASSUME NEW r \in Slots, Accept(r) \/ Step(r) PROVE Inv'
  BY <1>3, AcceptKeeps, BeginKeeps, DropKeeps, ReadBodyKeeps, AcquireKeeps, CompleteKeeps,
     HashedKeeps, CutOffKeeps
     DEF Step
<1>4. CASE UNCHANGED vars
  BY <1>4, MainKeeps DEF vars, Inv, TypeOK
<1> QED BY <1>1, <1>2, <1>3, <1>4 DEF Next

\* The inductive invariant holds in every reachable state.
THEOREM Inductive == Spec => []Inv
<1>1. Init => Inv
  BY InitInv
<1>2. Inv /\ [Next]_vars => Inv'
  BY StepInv
<1> QED BY <1>1, <1>2, PTL DEF Spec

\* Types, and: the pool never opens more connections than it may (db.go:31).
THEOREM Typed == Spec => []TypeOK
<1>1. Inv => TypeOK
  BY DEF Inv
<1> QED BY <1>1, Inductive, PTL

\* Whoever waits, waits for somebody whose statement is running: if there is no
\* connection left, one is in use; who uses one is running a statement; and one
\* who waits for a slug waits for a transaction that has it and runs.
THEOREM NobodyWaitsInACircle == Spec => []NoCircularWait
<1>1. ASSUME Inv, NEW r \in Begun, req[r].at = "wait", ~ HasRoom
      PROVE  \E h \in Begun : req[h].at = "run"
  <2>1. Used # {}
    BY <1>1, FS_EmptySet, PoolAssumption DEF HasRoom
  <2>2. PICK h \in Slots : HoldsTx(req[h]) \/ HoldsStatement(req[h])
    BY <2>1, UsedIs
  <2>3. h \in Begun
    BY <2>2 DEF HoldsTx, HoldsStatement, Begun, Busy
  <2>4. req[h] # Idle /\ Placed(req[h]) /\ req[h] \in Request
    BY <2>3, <1>1, OfBegun, OfRequest
  <2>5. req[h].at = "run"
    BY <2>2, <2>4 DEF HoldsTx, HoldsStatement, Placed, OnTx, Request
  <2> QED BY <2>3, <2>5
<1>2. ASSUME Inv, NEW h \in Begun, Locked(h)
      PROVE  \E k \in Begun : req[k].at = "run" /\ ~ Locked(k)
  <2>1. PICK k \in Begun : Kind(k) \in {"own", "commit"}
    BY <1>2 DEF Locked
  <2>2. Placed(req[k]) /\ req[k] \in Request
    BY <1>2, OfBegun, OfRequest
  <2>3. req[k].at = "run"
    BY <2>1, <2>2 DEF Placed, KindOf, Kind, OnTx, Request
  <2>4. ~ Locked(k)
    BY <2>1 DEF Locked
  <2> QED BY <2>3, <2>4
<1>3. Inv => NoCircularWait
  BY <1>1, <1>2 DEF NoCircularWait
<1> QED BY <1>3, Inductive, PTL

\* A request whose body was in time is answered while it can be (main.go:48).
THEOREM AnswersAreInTime == Spec => []AnsweredInTime
<1>1. ASSUME Inv, NEW r \in Begun, req[r].at # "body", ~ req[r].late
      PROVE  req[r].age < WriteTimeout
  <2>1. /\ req[r] \in Request /\ req[r].waited \in Nat /\ req[r].age \in Nat /\ req[r].spent \in 0..HashTime
        /\ Timely(req[r])
    BY <1>1, OfBegun, OfRequest
  <2>2. req[r].at \in {"run", "hash", "wait"}
    BY <2>1, <1>1 DEF Request
  <2> QED BY <2>1, <2>2, <1>1, TimeAssumption DEF Timely
<1>2. Inv => AnsweredInTime
  BY <1>1 DEF AnsweredInTime
<1> QED BY <1>2, Inductive, PTL

\* A shutdown is over before it would cut off a request whose headers and body
\* have arrived in time, whether it began before or during the shutdown
\* (main.go:72).
THEOREM ShutdownIsGraceful == Spec => ShutdownSparesRequests
<1> DEFINE Spared == \A r \in Begun :
                       \/ req[r].at = "body" \/ req[r].late
                       \/ req[r].waited + Timeout + HashTime >= Drain
<1>1. ASSUME Inv, [Next]_vars, NEW r \in Begun, main = "draining", main' = "down"
      PROVE  \/ req[r].at = "body" \/ req[r].late
             \/ req[r].waited + Timeout + HashTime >= Drain
  <2>1. /\ req[r].waited \in Nat /\ req[r].age \in Nat /\ req[r].spent \in 0..HashTime
        /\ Timely(req[r]) /\ Older(req[r], drained)
        /\ req[r].at \in {"body", "hash", "wait", "run"}
    BY <1>1, OfBegun, OfRequest
  <2>2. Close
    BY <1>1 DEF Next, vars, Tick, Process, Listen, ListenFails, Notify, Wait, Sigterm, Exit,
                Shutdown, Restart, Accept, Step, Begin, Drop, ReadBody, Acquire, Complete,
                Hashed, CutOff, ServerUnchanged
  <2>3. drained = Drain
    BY <2>2, <1>1 DEF Close, Begun
  <2>4. SUFFICES ASSUME req[r].at # "body", ~ req[r].late
                 PROVE  req[r].waited + Timeout + HashTime >= Drain
    OBVIOUS
  <2>5. req[r].age <= Timeout + HashTime
    BY <2>1, <2>4, TimeAssumption DEF Timely
  <2> QED BY <2>1, <2>3, <2>5, TimeAssumption DEF Older
<1>2. Inv /\ [Next]_vars => (main = "draining" /\ main' = "down" => Spared)
  BY <1>1
<1> HIDE DEF Spared
<1>3. Spec => [][main = "draining" /\ main' = "down" => Spared]_vars
  BY <1>2, Inductive, PTL DEF Spec
<1> QED BY <1>3 DEF ShutdownSparesRequests, Spared
=============================================================================
