----------------------------- MODULE Guestbook -----------------------------
(***************************************************************************)
(* The guestbook: messages guests leave on a wedding, an admin's           *)
(* moderation, and the two lists, public and admin.  Whether new messages  *)
(* wait for approval is configuration of the server process; a deployment  *)
(* may change it while requests of the old process still run.              *)
(***************************************************************************)
EXTENDS Integers, Sequences, FiniteSets, Functions

CONSTANTS
    Slots,          \* slots for concurrent requests
    Weddings,       \* weddings with a guestbook
    WishIds,        \* primary keys; bounds how many wishes are ever left
    LimitInputs,    \* ?limit= as parsed; 0 when it does not parse
    DefaultLimit,   \* defaultWishLimit
    MaxLimit,       \* maxWishLimit
    None            \* an absent row or field

ASSUME LimitAssumption ==
    /\ LimitInputs \subseteq Int
    /\ DefaultLimit \in 1..MaxLimit /\ MaxLimit \in Nat
    /\ None \notin WishIds

VARIABLES
    wishes,            \* the wishes table by id
    created,           \* the ids in order of created_at, oldest first
    requireApproval,   \* WISHES_REQUIRE_APPROVAL of the current process
    pc,                \* the statement each slot runs next
    req,               \* what each slot was sent and has read so far
    held,              \* history: wishes left with a process that holds them
    verdict            \* history: the last decision of an admin on each wish

vars == <<wishes, created, requireApproval, pc, req, held, verdict>>

Wish == [wedding : Weddings, approved : BOOLEAN]

Request == [op       : {"leave", "approve", "delete"},
            wedding  : Weddings,
            wish     : WishIds \cup {None},
            approved : BOOLEAN,    \* is_approved in the body of a verdict
            required : BOOLEAN]    \* requireApproval of the process it runs in

\* An absent row is none of the rows, nor an absent request one.
ASSUME RecordAssumption == None \notin Wish /\ None \notin Request

\* Types; the rows are those created and not deleted, each created once.
TypeOK ==
    /\ wishes \in [WishIds -> Wish \cup {None}]
    /\ created \in Seq(WishIds) /\ IsInjective(created)
    /\ \A i \in WishIds : wishes[i] # None => i \in Range(created)
    /\ requireApproval \in BOOLEAN
    /\ pc \in [Slots -> {"idle", "insert", "moderate"}]
    /\ req \in [Slots -> Request \cup {None}]
    /\ held \subseteq WishIds
    /\ verdict \in [WishIds -> {"none", "shown", "hidden"}]

Init ==
    /\ wishes = [i \in WishIds |-> None]
    /\ created = <<>>
    /\ requireApproval \in BOOLEAN
    /\ pc = [s \in Slots |-> "idle"]
    /\ req = [s \in Slots |-> None]
    /\ held = {}
    /\ verdict = [i \in WishIds |-> "none"]

\* Mutant: the id of a deleted message is given out again.
Unused_Recycled == {i \in WishIds : wishes[i] = None}

Unused == WishIds \ Range(created)

Start(s, step, q) ==
    /\ pc[s] = "idle"
    /\ req' = [req EXCEPT ![s] = q]
    /\ pc' = [pc EXCEPT ![s] = step]
    /\ UNCHANGED <<wishes, created, requireApproval, held, verdict>>

Finish(s) == pc' = [pc EXCEPT ![s] = "idle"] /\ req' = [req EXCEPT ![s] = None]

\* An error, the 5 s timeout, or the end of the process the request ran in.
Fail(s) ==
    /\ pc[s] # "idle"
    /\ Finish(s)
    /\ UNCHANGED <<wishes, created, requireApproval, held, verdict>>

\* A deployment: the next process reads the setting anew.
Deploy ==
    /\ requireApproval' \in BOOLEAN \ {requireApproval}
    /\ UNCHANGED <<wishes, created, pc, req, held, verdict>>

-----------------------------------------------------------------------------
\* POST /w/{slug}/wishes: the slug is resolved and the text is validated.
BeginWish(s) ==
    /\ Cardinality({q \in Slots : pc[q] = "insert"}) < Cardinality(Unused)
    /\ \E w \in Weddings :
         Start(s, "insert", [op |-> "leave", wedding |-> w, wish |-> None,
                             approved |-> FALSE, required |-> requireApproval])

\* Mutant: the row has no is_approved, and the column defaults to true.
NewWish_Default(s) == [wedding |-> req[s].wedding, approved |-> TRUE]

NewWish(s) == [wedding |-> req[s].wedding, approved |-> ~ req[s].required]

\* The INSERT.
InsertWish(s) ==
    /\ pc[s] = "insert"
    /\ \E i \in Unused :
         /\ wishes' = [wishes EXCEPT ![i] = NewWish(s)]
         /\ created' = Append(created, i)
         /\ held' = IF req[s].required THEN held \cup {i} ELSE held
    /\ Finish(s)
    /\ UNCHANGED <<requireApproval, verdict>>

\* PUT .../wishes/{id}/approval and DELETE .../wishes/{id}, scoped.
BeginModeration(s) ==
    \E op \in {"approve", "delete"}, w \in Weddings, i \in Range(created), v \in BOOLEAN :
      /\ op = "delete" => v = FALSE
      /\ Start(s, "moderate", [op |-> op, wedding |-> w, wish |-> i, approved |-> v,
                               required |-> FALSE])

\* WHERE id = $1 AND wedding_id = $2
Scoped(i, w) == {j \in WishIds : j = i /\ wishes[j] # None /\ wishes[j].wedding = w}

SetApproval(s) ==
    /\ pc[s] = "moderate"
    /\ req[s].op = "approve"
    /\ LET rows == Scoped(req[s].wish, req[s].wedding) IN
         /\ wishes' = [i \in WishIds |->
              IF i \in rows THEN [wishes[i] EXCEPT !.approved = req[s].approved]
                            ELSE wishes[i]]
         /\ verdict' = [i \in WishIds |->
              IF i \notin rows THEN verdict[i]
              ELSE IF req[s].approved THEN "shown" ELSE "hidden"]
    /\ Finish(s)
    /\ UNCHANGED <<created, requireApproval, held>>

DeleteWish(s) ==
    /\ pc[s] = "moderate"
    /\ req[s].op = "delete"
    /\ wishes' = [i \in WishIds |->
         IF i \in Scoped(req[s].wish, req[s].wedding) THEN None ELSE wishes[i]]
    /\ Finish(s)
    /\ UNCHANGED <<created, requireApproval, held, verdict>>

-----------------------------------------------------------------------------
(* The lists, newest first.                                                *)

\* A limit outside 1..MaxLimit falls back to the default.
Effective(limit) == IF limit <= 0 \/ limit > MaxLimit THEN DefaultLimit ELSE limit

\* ORDER BY created_at DESC LIMIT n, of rows given as positions in created:
\* those that fewer than n of the others are newer than.
Newest(rows, n) == {k \in rows : Cardinality({m \in rows : m > k}) < n}

Of(w, k) == wishes[created[k]] # None /\ wishes[created[k]].wedding = w

\* Mutant: the rows are limited before the hidden ones are left out.
Listed_LimitFirst(w, all, n) ==
    {k \in Newest({k \in DOMAIN created : Of(w, k)}, n) :
       all \/ wishes[created[k]].approved}

\* SELECT ... WHERE wedding_id AND approved ORDER BY created_at DESC LIMIT: a
\* page, as the positions of its messages in created.
Listed(w, all, n) ==
    Newest({k \in DOMAIN created : Of(w, k) /\ (all \/ wishes[created[k]].approved)}, n)

PublicList(w, limit) == Listed(w, FALSE, Effective(limit))
AdminList(w, limit) == Listed(w, TRUE, Effective(limit))

-----------------------------------------------------------------------------
Step(s) == InsertWish(s) \/ SetApproval(s) \/ DeleteWish(s)

Next == Deploy \/ \E s \in Slots : BeginWish(s) \/ BeginModeration(s) \/ Step(s) \/ Fail(s)

Spec == Init /\ [][Next]_vars

-----------------------------------------------------------------------------
(* Properties.                                                             *)

\* Whatever is deployed and moderated meanwhile, a message is public only if
\* an admin of its wedding said so last, or if none has decided on it and it
\* was left with a process that does not hold messages.
ModerationHolds ==
    \A w \in Weddings, limit \in LimitInputs :
      \A k \in PublicList(w, limit) :
        LET i == created[k] IN
          verdict[i] = "shown" \/ (verdict[i] = "none" /\ i \notin held)

\* Both pages are filled: a message that belongs on one is left out only for
\* as many newer ones as the page holds.  On the public page the hidden ones
\* take no room.
PagesFilled ==
    \A w \in Weddings, limit \in LimitInputs, all \in BOOLEAN :
      LET page == IF all THEN AdminList(w, limit) ELSE PublicList(w, limit)
      IN  \A k \in DOMAIN created :
            Of(w, k) /\ (all \/ wishes[created[k]].approved) =>
              \/ k \in page
              \/ /\ \A m \in page : m > k
                 /\ Cardinality(page)
                      = (IF limit \in 1..MaxLimit THEN limit ELSE DefaultLimit)
=============================================================================
