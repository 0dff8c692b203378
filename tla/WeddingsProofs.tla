--------------------------- MODULE WeddingsProofs ---------------------------
(* Proofs about Weddings, for any number of requests, weddings and slugs.  *)
EXTENDS Weddings, TLAPS

USE DEF tables, Goto

\* What the proofs use of the assumptions on the constants.
LEMMA NoneFacts ==
    /\ None \notin WeddingIds /\ None \notin ItemIds /\ None \notin Slugs
    /\ None \notin Spellings /\ None \notin Templates
    /\ Slugs \subseteq Spellings
    /\ Normalize \in [Spellings -> Spellings]
    /\ DefaultTemplate \in Templates
    /\ TemplateInputs \subseteq Templates \cup {None}
    /\ None \notin Request /\ None \notin Insert
BY NoneAssumption, SlugAssumption, InputAssumption, RecordAssumption

\* The empty database satisfies the invariant.
LEMMA InitInv == Init => Inv
<1> SUFFICES ASSUME Init PROVE Inv
  OBVIOUS
<1>1. TypeOK
  BY NoneFacts DEF Init, TypeOK, Statements
<1>2. SlugsDistinct
  BY DEF Init, SlugsDistinct
<1>3. TransactionsInv
  BY DEF Init, TransactionsInv
<1>4. RequestsInv
  BY DEF Init, RequestsInv, Knows
<1> QED
  BY <1>1, <1>2, <1>3, <1>4 DEF Inv

-----------------------------------------------------------------------------
(* A request that ends, with its transaction (if any) rolled back.         *)
LEMMA FinishInv ==
    ASSUME Inv, NEW r \in Requests, Finish(r), UNCHANGED tables,
           \/ Rollback(r)
           \/ UNCHANGED tx /\ tx[r] = None
    PROVE  Inv'
<1>1. tx' = [tx EXCEPT ![r] = None]
  BY DEF Rollback, Inv, TypeOK
<1>2. TypeOK'
  BY <1>1 DEF Inv, TypeOK, Finish, Statements
<1>3. SlugsDistinct'
  BY DEF Inv, SlugsDistinct
<1>4. TransactionsInv'
  BY <1>1 DEF Inv, TransactionsInv, Pending, Finish, TypeOK
<1>5. RequestsInv'
  BY DEF Inv, RequestsInv, Knows, Row, Finish, TypeOK
<1> QED
  BY <1>2, <1>3, <1>4, <1>5 DEF Inv

\* A request that ends without a transaction keeps the invariant.
LEMMA EndInv == ASSUME Inv, NEW r \in Requests, End(r), pc[r] \notin {"own", "commit"}
                PROVE  Inv'
<1>1. tx[r] = None
  BY DEF Inv, TransactionsInv
<1> QED
  BY <1>1, FinishInv DEF End

-----------------------------------------------------------------------------
\* A request that starts on validated input keeps the invariant.
LEMMA StartInv ==
    ASSUME Inv, NEW r \in Requests, NEW q \in Request, NEW step \in Statements,
           Start(r, q, step),
           \/ /\ step = "insert"
              /\ q.slug \in Slugs /\ q.template \in Templates
           \/ /\ step = "access"
              /\ q.op \in {"update", "add", "remove"}
              /\ q.path \in Spellings
              /\ q.op = "update" => q.slug \in Spellings
              /\ q.keep <=> q.op = "update" /\ q.template = None
              /\ Row(q.auth)
              /\ slugOf[q.auth] = Normalize[q.path]
           \/ /\ step = "act" /\ q.op = "grant" /\ Row(q.wid)
    PROVE  Inv'
<1>1. q # None
  BY NoneFacts
<1>2. TypeOK'
  BY DEF Inv, TypeOK, Start
<1>3. SlugsDistinct'
  BY DEF Inv, SlugsDistinct, Start
<1>4. TransactionsInv'
  BY DEF Inv, TransactionsInv, Pending, Start, TypeOK
<1>5. RequestsInv'
  BY <1>1 DEF Inv, RequestsInv, Knows, Row, Start, TypeOK
<1> QED
  BY <1>2, <1>3, <1>4, <1>5 DEF Inv

\* The handler of POST /admin/weddings.
LEMMA BeginCreateInv == ASSUME Inv, NEW r \in Requests, BeginCreate(r) PROVE Inv'
<1>1. PICK a \in Admins, s \in Spellings, t \in TemplateInputs :
        /\ Normalize[s] \in Slugs
        /\ Start(r, [op |-> "create", admin |-> a, path |-> None,
                     slug |-> Normalize[s],
                     template |-> IF t = None THEN DefaultTemplate ELSE t,
                     keep |-> FALSE, item |-> None, auth |-> None,
                     wid |-> None], "insert")
  BY DEF BeginCreate
<1> QED
  BY <1>1, StartInv, NoneFacts DEF Request, AllOps, Statements

\* The handlers behind the access middleware.
LEMMA BeginAccessInv == ASSUME Inv, NEW r \in Requests, BeginAccess(r) PROVE Inv'
<1> DEFINE sent(a, p, w, o, s, t, i) ==
             [op |-> o, admin |-> a, path |-> p, slug |-> s,
              template |-> t, keep |-> (o = "update" /\ t = None),
              item |-> i, auth |-> w, wid |-> None]
<1>1. PICK a \in Admins, p \in Spellings : \E w \in BySlug(Normalize[p]) :
        \/ \E s \in Spellings, t \in TemplateInputs :
             Start(r, sent(a, p, w, "update", s, t, None), "access")
        \/ Start(r, sent(a, p, w, "add", None, None, None), "access")
        \/ \E i \in ItemIds :
             Start(r, sent(a, p, w, "remove", None, None, i), "access")
  BY DEF BeginAccess
<1>2. PICK w \in BySlug(Normalize[p]) :
        \E o \in {"update", "add", "remove"}, s \in Spellings \cup {None},
           t \in Templates \cup {None}, i \in ItemIds \cup {None} :
          /\ Start(r, sent(a, p, w, o, s, t, i), "access")
          /\ o = "update" => s \in Spellings
  BY <1>1, NoneFacts
<1>3. w \in WeddingIds /\ slugOf[w] = Normalize[p] /\ Row(w)
  BY DEF BySlug, Row
<1>4. PICK o \in {"update", "add", "remove"}, s \in Spellings \cup {None},
           t \in Templates \cup {None}, i \in ItemIds \cup {None} :
        /\ Start(r, sent(a, p, w, o, s, t, i), "access")
        /\ o = "update" => s \in Spellings
  BY <1>2
<1> DEFINE q == sent(a, p, w, o, s, t, i)
<1>5. q \in Request
  BY <1>3 DEF Request, AllOps
<1>6. /\ q.op \in {"update", "add", "remove"}
      /\ q.path \in Spellings
      /\ q.op = "update" => q.slug \in Spellings
      /\ q.keep <=> q.op = "update" /\ q.template = None
      /\ Row(q.auth)
      /\ slugOf[q.auth] = Normalize[q.path]
  BY <1>3, <1>4
<1>7. Start(r, q, "access")
  BY <1>4
<1> HIDE DEF q
<1> QED
  BY <1>5, <1>6, <1>7, StartInv DEF Statements

\* The handler that grants an admin a wedding.
LEMMA BeginGrantInv == ASSUME Inv, NEW r \in Requests, BeginGrant(r) PROVE Inv'
<1>1. PICK a \in Admins, p \in Spellings : \E w \in BySlug(Normalize[p]) :
        Start(r, [op |-> "grant", admin |-> a, path |-> p, slug |-> None,
                  template |-> None, keep |-> FALSE, item |-> None,
                  auth |-> None, wid |-> w], "act")
  BY DEF BeginGrant
<1> QED
  BY <1>1, StartInv DEF Request, AllOps, Statements, BySlug, Row

-----------------------------------------------------------------------------
(* Creating a wedding.                                                     *)
LEMMA InsertWeddingInv == ASSUME Inv, NEW r \in Requests, InsertWedding(r) PROVE Inv'
<1>1. CASE End(r)
  BY <1>1, EndInv DEF InsertWedding
<1>2. CASE ~ End(r)
  <2>1. PICK w \in FreeIds :
          tx' = [tx EXCEPT ![r] = [id |-> w, slug |-> req[r].slug,
                                   template |-> req[r].template, owners |-> {}]]
    BY <1>2 DEF InsertWedding
  <2>2. /\ pc[r] = "insert" /\ ~ Locked(r, req[r].slug)
        /\ ~ Taken(req[r].slug, None)
        /\ pc' = [pc EXCEPT ![r] = "own"]
        /\ UNCHANGED <<slugOf, templateOf, grants, items, req, renamed, edited>>
    BY <1>2 DEF InsertWedding
  <2>3. req[r].slug \in Slugs /\ req[r].template \in Templates /\ req[r].slug # None
    BY <2>2, NoneFacts DEF Inv, RequestsInv, Knows
  <2>4. [id |-> w, slug |-> req[r].slug, template |-> req[r].template,
         owners |-> {}] \in Insert
    BY <2>3 DEF Insert, FreeIds
  <2>5. \A e \in Insert : e # None
    BY NoneFacts
  <2>6. TypeOK'
    BY <2>1, <2>2, <2>4 DEF Inv, TypeOK, Statements
  <2>7. SlugsDistinct'
    BY <2>2 DEF Inv, SlugsDistinct
  <2>8. TransactionsInv'
    <3>1. \A v \in WeddingIds : slugOf[v] # req[r].slug
      BY <2>2, <2>3, NoneFacts DEF Taken, BySlug
    <3>2. \A q \in Requests \ {r} : tx[q] # None => tx[q].slug # req[r].slug
      BY <2>2 DEF Locked
    <3>3. \A q \in Requests : tx[q] # None => tx[q].id # w
      BY DEF FreeIds
    <3>4. slugOf[w] = None /\ tx \in [Requests -> Insert \cup {None}]
            /\ pc \in [Requests -> Statements]
      BY DEF FreeIds, Inv, TypeOK
    <3>5. /\ tx'[r] # None /\ tx'[r].id = w /\ tx'[r].slug = req[r].slug
          /\ tx'[r].template = req[r].template
          /\ \A q \in Requests \ {r} : tx'[q] = tx[q]
      BY <2>1, <2>4, <2>5, <3>4
    <3>6. pc'[r] = "own" /\ \A q \in Requests \ {r} : pc'[q] = pc[q]
      BY <2>2, <3>4
    <3>7. Pending(r)'
      BY <2>2, <3>1, <3>2, <3>3, <3>4, <3>5, <3>6 DEF Pending
    <3>8. ASSUME NEW q \in Requests \ {r}
          PROVE  /\ (tx[q] # None <=> pc[q] \in {"own", "commit"})'
                 /\ (tx[q] # None => Pending(q))'
      BY <2>2, <3>2, <3>3, <3>5, <3>6 DEF Pending, Inv, TransactionsInv
    <3> QED
      BY <3>5, <3>6, <3>7, <3>8 DEF TransactionsInv
  <2>9. RequestsInv'
    BY <2>2, <2>3 DEF Inv, RequestsInv, Knows, Row, TypeOK
  <2> QED
    BY <2>6, <2>7, <2>8, <2>9 DEF Inv
<1> QED
  BY <1>1, <1>2

\* The owner's row joins the transaction.
LEMMA InsertOwnerInv == ASSUME Inv, NEW r \in Requests, InsertOwner(r) PROVE Inv'
<1>1. tx[r] # None /\ tx[r] \in Insert
  BY NoneFacts DEF InsertOwner, Inv, TransactionsInv, TypeOK
<1>2. /\ req[r] \in Request
  BY DEF InsertOwner, Inv, RequestsInv, TypeOK
<1> DEFINE e == [tx[r] EXCEPT !.owners = {req[r].admin}]
<1>3. /\ e \in Insert /\ e # None /\ e.id = tx[r].id /\ e.slug = tx[r].slug
      /\ e.template = tx[r].template /\ e.owners = {req[r].admin}
  BY <1>1, <1>2, NoneFacts DEF Insert, Request
<1>4. /\ tx' = [tx EXCEPT ![r] = e]
      /\ pc' = [pc EXCEPT ![r] = "commit"] /\ pc[r] = "own"
      /\ UNCHANGED <<slugOf, templateOf, grants, items, req, renamed, edited>>
  BY DEF InsertOwner
<1> HIDE DEF e
<1>5. TypeOK'
  BY <1>3, <1>4 DEF Inv, TypeOK, Statements
<1>6. SlugsDistinct'
  BY <1>4 DEF Inv, SlugsDistinct
<1>7. TransactionsInv'
  BY <1>1, <1>3, <1>4 DEF Inv, TransactionsInv, Pending, TypeOK
<1>8. RequestsInv'
  BY <1>4 DEF Inv, RequestsInv, Knows, Row, TypeOK
<1> QED
  BY <1>5, <1>6, <1>7, <1>8 DEF Inv

\* The commit: the wedding and its owner appear together, and the unique
\* index has kept the slug free of other weddings.
LEMMA CommitInv == ASSUME Inv, NEW r \in Requests, Commit(r) PROVE Inv'
<1> DEFINE w == tx[r].id
<1>1. /\ tx[r] # None /\ tx[r] \in Insert /\ Pending(r)
      /\ w \in WeddingIds /\ tx[r].slug \in Slugs /\ tx[r].template \in Templates
      /\ tx[r].owners = {req[r].admin} /\ tx[r].slug = req[r].slug
      /\ req[r] \in Request /\ req[r] # None
  BY NoneFacts DEF Commit, Inv, TransactionsInv, RequestsInv, TypeOK, Insert, Pending
<1>2. /\ slugOf[w] = None
      /\ \A v \in WeddingIds : slugOf[v] # tx[r].slug
  BY <1>1 DEF Pending
<1> DEFINE q == [req[r] EXCEPT !.wid = w]
<1>3. q \in Request /\ q # None /\ q.wid = w /\ q.slug = req[r].slug
  BY <1>1, NoneFacts DEF Request
<1>4. /\ slugOf' = [slugOf EXCEPT ![w] = tx[r].slug]
      /\ templateOf' = [templateOf EXCEPT ![w] = tx[r].template]
      /\ grants' = grants \cup ({w} \X tx[r].owners)
      /\ req' = [req EXCEPT ![r] = q]
      /\ tx' = [tx EXCEPT ![r] = None]
      /\ pc' = [pc EXCEPT ![r] = "reload"] /\ pc[r] = "commit"
      /\ UNCHANGED <<items, renamed, edited>>
  BY DEF Commit, Rollback
<1>5. req[r].admin \in Admins
  BY <1>1 DEF Request
<1> HIDE DEF w, q
<1>6. TypeOK'
  BY <1>1, <1>3, <1>4, <1>5, NoneFacts DEF Inv, TypeOK, Statements
<1>7. SlugsDistinct'
  BY <1>1, <1>2, <1>4 DEF Inv, SlugsDistinct, TypeOK
<1>8. TransactionsInv'
  BY <1>1, <1>2, <1>4 DEF Inv, TransactionsInv, Pending, TypeOK, w
<1>9. RequestsInv'
  <2>1. ASSUME NEW p \in Requests \ {r}
        PROVE  (pc[p] = "idle" <=> req[p] = None)' /\ Knows(p)'
    <3>1. pc'[p] = pc[p] /\ req'[p] = req[p]
      BY <1>4 DEF Inv, TypeOK
    <3>2. \A v \in WeddingIds :
            slugOf[v] # None => slugOf'[v] = slugOf[v] /\ templateOf'[v] = templateOf[v]
      BY <1>2, <1>4 DEF Inv, TypeOK
    <3>3. (pc[p] = "idle" <=> req[p] = None) /\ Knows(p)
      BY DEF Inv, RequestsInv
    <3> QED
      BY <1>4, <3>1, <3>2, <3>3 DEF Knows, Row
  <2>2. (pc[r] = "idle" <=> req[r] = None)' /\ Knows(r)'
    BY <1>1, <1>3, <1>4, NoneFacts DEF Inv, TypeOK, Knows, Row
  <2> QED
    BY <2>1, <2>2 DEF RequestsInv
<1> QED
  BY <1>6, <1>7, <1>8, <1>9 DEF Inv

-----------------------------------------------------------------------------
(* The access check and the rows under a wedding.                          *)
LEMMA CheckAccessInv == ASSUME Inv, NEW r \in Requests, CheckAccess(r) PROVE Inv'
<1>1. CASE End(r)
  BY <1>1, EndInv DEF CheckAccess
<1>2. CASE ~ End(r)
  <2>1. /\ <<req[r].auth, req[r].admin>> \in grants
        /\ pc[r] = "access" /\ pc' = [pc EXCEPT ![r] = "scope"]
        /\ UNCHANGED <<slugOf, templateOf, grants, items, tx, req, renamed, edited>>
    BY <1>2 DEF CheckAccess
  <2>2. TypeOK'
    BY <2>1 DEF Inv, TypeOK, Statements
  <2>3. SlugsDistinct' /\ TransactionsInv'
    BY <2>1 DEF Inv, SlugsDistinct, TransactionsInv, Pending, TypeOK
  <2>4. RequestsInv'
    BY <2>1 DEF Inv, RequestsInv, Knows, Row, TypeOK
  <2> QED
    BY <2>2, <2>3, <2>4 DEF Inv
<1> QED
  BY <1>1, <1>2

\* The usecase resolves the slug of the URL a second time.
LEMMA ResolveScopeInv == ASSUME Inv, NEW r \in Requests, ResolveScope(r) PROVE Inv'
<1>1. CASE End(r)
  BY <1>1, EndInv DEF ResolveScope
<1>2. CASE ~ End(r)
  <2>1. PICK w \in BySlug(Normalize[req[r].path]) :
          /\ req' = [req EXCEPT ![r].wid = w]
          /\ pc[r] = "scope" /\ pc' = [pc EXCEPT ![r] = "act"] /\ req[r].op # "update"
          /\ UNCHANGED <<slugOf, templateOf, grants, items, tx, renamed, edited>>
    BY <1>2 DEF ResolveScope
  <2>2. Row(w) /\ slugOf[w] = Normalize[req[r].path]
    BY DEF BySlug, Row
  <2>3. req[r] \in Request /\ req[r] # None /\ Knows(r)
    BY <2>1 DEF Inv, TypeOK, RequestsInv
  <2> DEFINE q == [req[r] EXCEPT !.wid = w]
  <2>4. q \in Request /\ q # None /\ q.wid = w /\ q.op = req[r].op
          /\ q.auth = req[r].auth /\ q.admin = req[r].admin
    BY <2>2, <2>3, NoneFacts DEF Request, Row
  <2>5. req' = [req EXCEPT ![r] = q]
    BY <2>1
  <2>6. r \notin renamed => w = req[r].auth
    BY <2>1, <2>2, <2>3 DEF Knows, Row, Inv, SlugsDistinct
  <2> HIDE DEF q
  <2>7. TypeOK'
    BY <2>1, <2>4, <2>5 DEF Inv, TypeOK, Statements
  <2>8. SlugsDistinct' /\ TransactionsInv'
    BY <2>1, <2>5 DEF Inv, SlugsDistinct, TransactionsInv, Pending, TypeOK
  <2>9. RequestsInv'
    BY <2>1, <2>2, <2>3, <2>4, <2>5, <2>6 DEF Inv, RequestsInv, Knows, Row, TypeOK
  <2> QED
    BY <2>7, <2>8, <2>9 DEF Inv
<1> QED
  BY <1>1, <1>2

(* A request that ends with a write to items or grants.                    *)
LEMMA FinishWriteInv ==
    ASSUME Inv, NEW r \in Requests, Finish(r), pc[r] = "act",
           UNCHANGED <<slugOf, templateOf, tx>>,
           items' \in [ItemIds -> WeddingIds \cup {None}],
           grants \subseteq grants', grants' \subseteq WeddingIds \X Admins
    PROVE  Inv'
<1>1. TypeOK'
  BY DEF Inv, TypeOK, Finish, Statements
<1>2. SlugsDistinct' /\ TransactionsInv'
  BY DEF Inv, SlugsDistinct, TransactionsInv, Pending, Finish, TypeOK
<1>3. RequestsInv'
  BY DEF Inv, RequestsInv, Knows, Row, Finish, TypeOK
<1> QED
  BY <1>1, <1>2, <1>3 DEF Inv

\* A request about to write a child row has resolved its wedding.
LEMMA ActRow == ASSUME Inv, NEW r \in Requests, pc[r] = "act"
                PROVE  req[r] \in Request /\ req[r].wid \in WeddingIds
                         /\ req[r].admin \in Admins
<1>1. req[r] \in Request
  BY DEF Inv, TypeOK, RequestsInv
<1>2. req[r].wid \in WeddingIds
  BY DEF Inv, RequestsInv, Knows, Row
<1> QED
  BY <1>1, <1>2 DEF Request

\* A child row is inserted under the resolved wedding.
LEMMA AddItemInv == ASSUME Inv, NEW r \in Requests, AddItem(r) PROVE Inv'
<1>1. items' \in [ItemIds -> WeddingIds \cup {None}]
  BY ActRow DEF AddItem, FreeItems, Inv, TypeOK
<1> QED
  BY <1>1, FinishWriteInv DEF AddItem, Inv, TypeOK

\* A child row is deleted, scoped by its wedding.
LEMMA RemoveItemInv == ASSUME Inv, NEW r \in Requests, RemoveItem(r) PROVE Inv'
<1>1. items' \in [ItemIds -> WeddingIds \cup {None}]
  BY DEF RemoveItem, Inv, TypeOK
<1> QED
  BY <1>1, FinishWriteInv DEF RemoveItem, Inv, TypeOK

\* A grant only adds a pair.
LEMMA GrantAdminInv == ASSUME Inv, NEW r \in Requests, GrantAdmin(r) PROVE Inv'
<1>1. grants' \subseteq WeddingIds \X Admins
  BY ActRow DEF GrantAdmin, Inv, TypeOK
<1> QED
  BY <1>1, FinishWriteInv DEF GrantAdmin, Inv, TypeOK

-----------------------------------------------------------------------------
(* Updating a wedding.                                                     *)
LEMMA LoadWeddingInv == ASSUME Inv, NEW r \in Requests, LoadWedding(r) PROVE Inv'
<1>1. CASE End(r)
  BY <1>1, EndInv DEF LoadWedding
<1>2. CASE ~ End(r)
  <2> DEFINE slug == Normalize[req[r].slug]
  <2>1. PICK w \in BySlug(Normalize[req[r].path]) :
          /\ slug \in Slugs
          /\ req' = [req EXCEPT ![r].wid = w, ![r].slug = slug,
                                ![r].template = TemplateToSave(r, w)]
          /\ pc[r] = "scope" /\ pc' = [pc EXCEPT ![r] = "free"] /\ req[r].op = "update"
          /\ UNCHANGED <<slugOf, templateOf, grants, items, tx, renamed, edited>>
    BY <1>2 DEF LoadWedding
  <2>2. Row(w) /\ slugOf[w] = Normalize[req[r].path]
    BY DEF BySlug, Row
  <2>3. req[r] \in Request /\ req[r] # None /\ Knows(r)
    BY <2>1 DEF Inv, TypeOK, RequestsInv
  <2>4. templateOf[w] \in Templates
    BY <2>2 DEF Inv, TypeOK, Row
  <2>5. TemplateToSave(r, w) \in Templates
    BY <2>1, <2>3, <2>4 DEF TemplateToSave, Knows, Request
  <2> DEFINE q == [req[r] EXCEPT !.wid = w, !.slug = slug,
                                 !.template = TemplateToSave(r, w)]
  <2>6. /\ q \in Request /\ q # None /\ q.wid = w /\ q.op = req[r].op
        /\ q.auth = req[r].auth /\ q.admin = req[r].admin /\ q.keep = req[r].keep
        /\ q.slug = slug /\ q.template = TemplateToSave(r, w)
    BY <2>1, <2>2, <2>3, <2>5, NoneFacts DEF Request, Row
  <2>7. req' = [req EXCEPT ![r] = q]
    BY <2>1 DEF Inv, TypeOK
  <2>8. r \notin renamed => w = req[r].auth
    BY <2>1, <2>2, <2>3 DEF Knows, Row, Inv, SlugsDistinct
  <2>9. q.keep => q.template = templateOf[w]
    BY <2>6 DEF TemplateToSave
  <2> HIDE DEF q, slug
  <2>10. TypeOK'
    <3>1. req' \in [Requests -> Request \cup {None}]
      BY <2>6, <2>7 DEF Inv, TypeOK
    <3>2. pc' \in [Requests -> Statements]
      BY <2>1 DEF Inv, TypeOK, Statements
    <3> QED
      BY <2>1, <3>1, <3>2 DEF Inv, TypeOK
  <2>11. SlugsDistinct' /\ TransactionsInv'
    BY <2>1, <2>7 DEF Inv, SlugsDistinct, TransactionsInv, Pending, TypeOK
  <2>12. RequestsInv'
    BY <2>1, <2>2, <2>3, <2>5, <2>6, <2>7, <2>8, <2>9
    DEF Inv, RequestsInv, Knows, Row, TypeOK
  <2> QED
    BY <2>10, <2>11, <2>12 DEF Inv
<1> QED
  BY <1>1, <1>2

\* The check for a free slug: it reads only.
LEMMA CheckSlugFreeInv == ASSUME Inv, NEW r \in Requests, CheckSlugFree(r) PROVE Inv'
<1>1. CASE End(r)
  BY <1>1, EndInv DEF CheckSlugFree
<1>2. CASE ~ End(r)
  <2>1. /\ pc[r] = "free" /\ pc' = [pc EXCEPT ![r] = "write"]
        /\ UNCHANGED <<slugOf, templateOf, grants, items, tx, req, renamed, edited>>
    BY <1>2 DEF CheckSlugFree
  <2>2. TypeOK'
    BY <2>1 DEF Inv, TypeOK, Statements
  <2>3. SlugsDistinct' /\ TransactionsInv'
    BY <2>1 DEF Inv, SlugsDistinct, TransactionsInv, Pending, TypeOK
  <2>4. RequestsInv'
    BY <2>1 DEF Inv, RequestsInv, Knows, Row, TypeOK
  <2> QED
    BY <2>2, <2>3, <2>4 DEF Inv
<1> QED
  BY <1>1, <1>2

\* The UPDATE of a wedding, refused by the unique index on a taken slug.
LEMMA SaveWeddingInv == ASSUME Inv, NEW r \in Requests, SaveWedding(r) PROVE Inv'
<1>1. CASE End(r)
  BY <1>1, EndInv DEF SaveWedding
<1>2. CASE ~ End(r)
  <2> DEFINE w == req[r].wid
             s == req[r].slug
  <2>1. /\ pc[r] = "write" /\ ~ Locked(r, s) /\ ~ Taken(s, w)
        /\ slugOf' = [slugOf EXCEPT ![w] = s]
        /\ templateOf' = [templateOf EXCEPT ![w] = req[r].template]
        /\ renamed' = IF slugOf[w] = s THEN renamed \ {r}
                      ELSE (renamed \cup RelyOnAddress(w)) \ {r}
        /\ edited' = edited \cup
             {q \in Requests \ {r} : req[q] # None /\ req[q].wid = w}
        /\ pc' = [pc EXCEPT ![r] = "reload"]
        /\ UNCHANGED <<grants, items, tx, req>>
    BY <1>2 DEF SaveWedding
  <2>2. /\ w \in WeddingIds /\ slugOf[w] # None /\ s \in Slugs /\ s # None
        /\ req[r].template \in Templates /\ req[r].template # None /\ req[r] # None
    BY <2>1, NoneFacts DEF Inv, RequestsInv, Knows, Row
  <2>3. \A v \in WeddingIds \ {w} : slugOf[v] # s
    BY <2>1, <2>2 DEF Taken, BySlug
  <2>4. \A q \in Requests : tx[q] # None => tx[q].slug # s /\ tx[q].id # w
    BY <2>1, <2>2 DEF Locked, Inv, TransactionsInv, Pending
  <2> HIDE DEF w, s
  <2>5. TypeOK'
    BY <2>1, <2>2 DEF Inv, TypeOK, Statements, RelyOnAddress
  <2>6. SlugsDistinct'
    BY <2>1, <2>2, <2>3 DEF Inv, SlugsDistinct, TypeOK
  <2>7. TransactionsInv'
    BY <2>1, <2>2, <2>4 DEF Inv, TransactionsInv, Pending, TypeOK
  <2>8. RequestsInv'
    <3>1. ASSUME NEW p \in Requests \ {r}
          PROVE  (pc[p] = "idle" <=> req[p] = None)' /\ Knows(p)'
      <4>1. /\ pc'[p] = pc[p] /\ req'[p] = req[p]
            /\ \A v \in WeddingIds \ {w} :
                 slugOf'[v] = slugOf[v] /\ templateOf'[v] = templateOf[v]
            /\ slugOf'[w] = s
        BY <2>1, <2>2 DEF Inv, TypeOK
      <4>2. (pc[p] = "idle" <=> req[p] = None) /\ Knows(p)
        BY DEF Inv, RequestsInv
      <4>3. p \notin renamed' =>
              /\ p \notin renamed
              /\ slugOf[w] = s \/ p \notin RelyOnAddress(w)
        BY <2>1
      <4>4. p \notin edited' =>
              p \notin edited /\ (req[p] = None \/ req[p].wid # w)
        BY <2>1
      <4>5. pc[p] \in Statements
        BY DEF Inv, TypeOK
      <4> QED
        BY <2>1, <2>2, <4>1, <4>2, <4>3, <4>4, <4>5
        DEF Knows, Row, RelyOnAddress, Statements
    <3>2. (pc[r] = "idle" <=> req[r] = None)' /\ Knows(r)'
      BY <2>1, <2>2 DEF Inv, TypeOK, Knows, Row, w, s
    <3> QED
      BY <3>1, <3>2 DEF RequestsInv
  <2> QED
    BY <2>5, <2>6, <2>7, <2>8 DEF Inv
<1> QED
  BY <1>1, <1>2

-----------------------------------------------------------------------------
\* Every action of one request keeps the invariant.
LEMMA StepInv == ASSUME Inv, NEW r \in Requests, Begin(r) \/ Step(r) \/ Fail(r)
                 PROVE  Inv'
<1>1. CASE Begin(r)
  BY <1>1, BeginCreateInv, BeginAccessInv, BeginGrantInv DEF Begin
<1>2. CASE Step(r)
  <2>1. CASE InsertWedding(r) \/ InsertOwner(r) \/ Commit(r)
    BY <2>1, InsertWeddingInv, InsertOwnerInv, CommitInv
  <2>2. CASE Reload(r)
    BY <2>2, EndInv DEF Reload
  <2>3. CASE CheckAccess(r) \/ ResolveScope(r) \/ AddItem(r) \/ RemoveItem(r)
    BY <2>3, CheckAccessInv, ResolveScopeInv, AddItemInv, RemoveItemInv
  <2>4. CASE LoadWedding(r) \/ CheckSlugFree(r) \/ SaveWedding(r) \/ GrantAdmin(r)
    BY <2>4, LoadWeddingInv, CheckSlugFreeInv, SaveWeddingInv, GrantAdminInv
  <2> QED
    BY <1>2, <2>1, <2>2, <2>3, <2>4 DEF Step
<1>3. CASE Fail(r)
  BY <1>3, FinishInv DEF Fail
<1> QED
  BY <1>1, <1>2, <1>3

\* A step that changes nothing keeps the invariant.
LEMMA StutterInv == ASSUME Inv, UNCHANGED vars PROVE Inv'
<1>1. TypeOK' /\ SlugsDistinct'
  BY DEF vars, Inv, TypeOK, SlugsDistinct
<1>2. TransactionsInv' /\ RequestsInv'
  BY DEF vars, Inv, TransactionsInv, Pending, RequestsInv, Knows, Row
<1> QED
  BY <1>1, <1>2 DEF Inv

THEOREM Inductive == Spec => []Inv
<1>1. Inv /\ [Next]_vars => Inv'
  BY StepInv, StutterInv DEF Next
<1> QED
  BY <1>1, InitInv, PTL DEF Spec

-----------------------------------------------------------------------------
(* Every state is typed, NOT NULL columns and foreign keys included: a     *)
(* wedding row has a slug and a template, a child row has a wedding.       *)
THEOREM Typed == Spec => []TypeOK
<1>1. Inv => TypeOK
  BY DEF Inv
<1> QED
  BY <1>1, Inductive, PTL

(* A request acts on the wedding it was granted (CanManage, then the       *)
(* handler's own lookup), however many requests rename, create and fail    *)
(* in between, if nobody renamed that wedding between the two lookups.     *)
THEOREM Isolated == Spec => []Isolation
<1>1. Inv => Isolation
  BY DEF Inv, RequestsInv, Knows, Isolation
<1> QED
  BY <1>1, Inductive, PTL

(* The rows of a wedding change only for an admin granted it: an id sent   *)
(* through another wedding's slug selects no row (WHERE id AND wedding_id). *)
THEOREM ChildRowsScoped == Spec => ChildRowsStayInTenant
<1> DEFINE Acts(i) ==
             \E r \in Requests :
               /\ pc[r] = "act"
               /\ {items[i], items'[i]} = {req[r].wid, None}
               /\ req[r].op = "remove" => req[r].item = i
               /\ r \in renamed \/ <<req[r].wid, req[r].admin>> \in grants
<1>1. ASSUME Inv, [Next]_vars, NEW i \in ItemIds, items'[i] # items[i]
      PROVE  Acts(i)
  <2> PICK r \in Requests : Begin(r) \/ Step(r) \/ Fail(r)
    BY <1>1 DEF vars, Next
  <2>1. AddItem(r) \/ RemoveItem(r)
    BY <1>1 DEF Begin, Step, Fail, Start, BeginCreate, BeginAccess,
      BeginGrant, InsertWedding, InsertOwner, Commit, Reload, CheckAccess,
      ResolveScope, LoadWedding, CheckSlugFree, SaveWedding, GrantAdmin, End
  <2>2. pc[r] = "act" /\ req[r].op \in {"add", "remove"}
    BY <2>1 DEF AddItem, RemoveItem
  <2>3. r \in renamed \/ <<req[r].wid, req[r].admin>> \in grants
    BY <1>1, <2>2 DEF Inv, RequestsInv, Knows
  <2>4. items \in [ItemIds -> WeddingIds \cup {None}]
    BY <1>1 DEF Inv, TypeOK
  <2>5. CASE AddItem(r)
    <3>1. items[i] = None /\ items'[i] = req[r].wid
      BY <1>1, <2>4, <2>5 DEF AddItem, FreeItems
    <3> QED
      BY <2>2, <2>3, <2>5, <3>1 DEF AddItem
  <2>6. CASE RemoveItem(r)
    <3>1. items'[i] = None /\ items[i] = req[r].wid /\ req[r].item = i
      BY <1>1, <2>4, <2>6 DEF RemoveItem, ScopedRows
    <3> QED
      BY <2>2, <2>3, <3>1
  <2> QED
    BY <2>1, <2>5, <2>6
<1>2. Inv /\ [Next]_vars => [\A i \in ItemIds : items'[i] # items[i] => Acts(i)]_vars
  BY <1>1
<1> QED
  BY <1>2, Inductive, PTL DEF Spec, ChildRowsStayInTenant

(* Create and Update answer with the wedding they wrote, although they     *)
(* read it back by slug, if nobody renamed it in between.                  *)
THEOREM RepliesOwn == Spec => []ReplyIsOwnWedding
<1>1. Inv => ReplyIsOwnWedding
  <2> SUFFICES ASSUME Inv, NEW r \in Requests, pc[r] = "reload", r \notin renamed
               PROVE  BySlug(req[r].slug) = {req[r].wid}
    BY DEF ReplyIsOwnWedding, Reloaded
  <2>1. /\ Row(req[r].wid) /\ slugOf[req[r].wid] = req[r].slug
    BY DEF Inv, RequestsInv, Knows
  <2> QED
    BY <2>1 DEF BySlug, Row, Inv, SlugsDistinct
<1> QED
  BY <1>1, Inductive, PTL

(* Update without a template_id writes the template the wedding still has, *)
(* unless another update saved that wedding after this one loaded it.      *)
THEOREM TemplateKept == Spec => []NilKeepsTemplate
<1>1. Inv => NilKeepsTemplate
  BY DEF Inv, RequestsInv, Knows, NilKeepsTemplate
<1> QED
  BY <1>1, Inductive, PTL

(* Every statement of every request is a step of the directory or changes  *)
(* nothing it shows: Create's two INSERTs appear as one registration, and  *)
(* an Update moves a wedding only to a slug nobody holds.                  *)
LEMMA DirectoryInit == Init => D!Init
BY DEF Init, D!Init, D!Registered

\* Every step is a step of the directory or changes nothing it sees.
LEMMA DirectoryStep == Inv /\ [Next]_vars => [D!Next]_(D!dvars)
<1> SUFFICES ASSUME Inv, [Next]_vars PROVE D!Next \/ UNCHANGED <<slugOf, grants>>
  BY DEF D!dvars
<1>1. CASE UNCHANGED vars
  BY <1>1 DEF vars
<1>2. ASSUME NEW r \in Requests, Commit(r) PROVE D!Next
  <2>1. tx[r] # None /\ tx[r] \in Insert /\ req[r] \in Request
    BY <1>2, NoneFacts DEF Commit, Inv, TransactionsInv, RequestsInv, TypeOK
  <2>2. /\ tx[r].id \in WeddingIds /\ tx[r].slug \in Slugs /\ req[r].admin \in Admins
        /\ slugOf[tx[r].id] = None /\ tx[r].owners = {req[r].admin}
        /\ \A v \in WeddingIds : slugOf[v] # tx[r].slug
    BY <1>2, <2>1 DEF Commit, Inv, TransactionsInv, Pending, Insert, Request
  <2>3. D!Register(tx[r].id, tx[r].slug, req[r].admin)
    BY <1>2, <2>2 DEF Commit, D!Register, D!Registered, D!Held
  <2> QED
    BY <2>2, <2>3 DEF D!Next
<1>3. ASSUME NEW r \in Requests, SaveWedding(r), ~ End(r) PROVE D!Next
  <2>1. /\ req[r].wid \in WeddingIds /\ slugOf[req[r].wid] # None /\ req[r].slug \in Slugs
    BY <1>3 DEF SaveWedding, Inv, RequestsInv, Knows, Row
  <2>2. D!Move(req[r].wid, req[r].slug)
    BY <1>3, <2>1 DEF SaveWedding, D!Move, D!Registered, D!HeldByOther, Taken, BySlug
  <2> QED
    BY <2>1, <2>2 DEF D!Next
<1>4. ASSUME NEW r \in Requests, GrantAdmin(r) PROVE D!Next
  <2>1. /\ req[r].wid \in WeddingIds /\ req[r].admin \in Admins /\ slugOf[req[r].wid] # None
    BY <1>4, ActRow DEF GrantAdmin, Inv, RequestsInv, Knows, Row
  <2>2. D!Appoint(req[r].wid, req[r].admin)
    BY <1>4, <2>1 DEF GrantAdmin, D!Appoint, D!Registered
  <2> QED
    BY <2>1, <2>2 DEF D!Next
<1>5. ASSUME NEW r \in Requests, Begin(r) \/ Step(r) \/ Fail(r),
             ~ Commit(r), ~ (SaveWedding(r) /\ ~ End(r)), ~ GrantAdmin(r)
      PROVE  UNCHANGED <<slugOf, grants>>
  BY <1>5
  DEF Begin, Step, Fail, Start, BeginCreate, BeginAccess, BeginGrant, InsertWedding,
      InsertOwner, Reload, CheckAccess, ResolveScope, AddItem, RemoveItem,
      LoadWedding, CheckSlugFree, SaveWedding, End
<1> QED
  BY <1>1, <1>2, <1>3, <1>4, <1>5 DEF Next

THEOREM Refines == Spec => ImplementsDirectory
<1> QED
  BY DirectoryInit, DirectoryStep, Inductive, PTL DEF Spec, ImplementsDirectory, D!Spec
=============================================================================
