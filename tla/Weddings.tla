------------------------------ MODULE Weddings ------------------------------
(***************************************************************************)
(* The tenant registry: weddings, the slugs that address them, the admins  *)
(* granted to manage them, and the rows that hang off them.  A request (or *)
(* an operator command) is a sequence of separate SQL statements, one      *)
(* action each, so that any two requests interleave between statements.    *)
(* Requests is the set of slots for what runs at the same time; a slot is  *)
(* used again once its request has ended.                                  *)
(*                                                                         *)
(* PostgreSQL runs every statement atomically under READ COMMITTED: a read *)
(* sees committed rows only, and a statement that needs a slug another     *)
(* transaction has inserted but not committed waits for it to end.         *)
(***************************************************************************)
EXTENDS Naturals, FiniteSets

CONSTANTS
    Requests,          \* slots for concurrent requests and commands
    Admins,            \* registered admins
    WeddingIds,        \* wedding primary keys; bounds how many are created
    ItemIds,           \* primary keys of guests, events, gifts and wishes
    Slugs,             \* canonical slugs that pass validation
    Spellings,         \* slugs as a caller may type them
    Normalize,         \* normalizeSlug, on Spellings
    Templates,         \* the available template ids
    DefaultTemplate,   \* what validate fills in on create
    TemplateInputs,    \* template_id in a request body; None when omitted
    Ops,               \* the operations clients use
    None               \* an absent row or field

AllOps == {"create", "update", "add", "remove", "grant"}

ASSUME NoneAssumption ==
    None \notin WeddingIds \cup ItemIds \cup Slugs \cup Spellings \cup Templates
ASSUME SlugAssumption ==
    /\ Slugs \subseteq Spellings
    /\ Normalize \in [Spellings -> Spellings]
    /\ \A s \in Slugs : Normalize[s] = s
ASSUME InputAssumption ==
    /\ DefaultTemplate \in Templates
    /\ TemplateInputs \subseteq Templates \cup {None}
    /\ Ops \subseteq AllOps

VARIABLES
    slugOf,      \* weddings.slug, None for a key no committed row has
    templateOf,  \* weddings.template_id
    grants,      \* wedding_admins, as <<wedding, admin>> pairs
    items,       \* wedding_id of each child row
    tx,          \* the open transaction of a create, seen by nobody else
    pc,          \* the statement each request runs next
    req,         \* what each request was sent and has read so far
    renamed,     \* history: requests whose wedding another request renamed
    edited       \* history: requests whose loaded wedding another one saved

tables == <<slugOf, templateOf, grants, items>>
vars == <<slugOf, templateOf, grants, items, tx, pc, req, renamed, edited>>

Statements == {"idle", "insert", "own", "commit", "reload", "access", "scope",
               "free", "write", "act"}

Request == [op       : AllOps,
            admin    : Admins,                  \* caller, or grantee of a grant
            path     : Spellings \cup {None},   \* {slug} in the URL
            slug     : Spellings \cup {None},   \* slug in the body
            template : Templates \cup {None},
            keep     : BOOLEAN,                 \* template_id was omitted
            item     : ItemIds \cup {None},     \* {id} in the URL
            auth     : WeddingIds \cup {None},  \* wedding the access check saw
            wid      : WeddingIds \cup {None}]  \* wedding the request works on

Insert == [id : WeddingIds, slug : Slugs, template : Templates,
           owners : SUBSET Admins]

ASSUME RecordAssumption == None \notin Request /\ None \notin Insert

\* Types, the NOT NULL columns and the keys: a request that has a wedding in
\* hand has a committed one, and a template to write is never null.
TypeOK ==
    /\ slugOf \in [WeddingIds -> Slugs \cup {None}]
    /\ templateOf \in [WeddingIds -> Templates \cup {None}]
    /\ \A w \in WeddingIds : templateOf[w] = None <=> slugOf[w] = None
    /\ grants \subseteq WeddingIds \X Admins
    /\ items \in [ItemIds -> WeddingIds \cup {None}]
    /\ tx \in [Requests -> Insert \cup {None}]
    /\ pc \in [Requests -> Statements]
    /\ req \in [Requests -> Request \cup {None}]
    /\ renamed \subseteq Requests
    /\ edited \subseteq Requests

-----------------------------------------------------------------------------
(* The rows a statement sees.                                              *)

BySlug(s) == {w \in WeddingIds : slugOf[w] # None /\ slugOf[w] = s}

\* SlugTaken(slug, excludeID)
Taken(s, w) == BySlug(s) \ {w} # {}

\* Another transaction has inserted the slug and has not ended.
Locked(r, s) == \E q \in Requests \ {r} : tx[q] # None /\ tx[q].slug = s

FreeIds == {w \in WeddingIds :
              slugOf[w] = None /\ \A q \in Requests : tx[q] # None => tx[q].id # w}
FreeItems == {i \in ItemIds : items[i] = None}

\* Bounds: a create or an add starts only while the finite key sets can
\* still serve everyone already on the way to an INSERT.
SpareIds == Cardinality(FreeIds) > Cardinality({q \in Requests : pc[q] = "insert"})
SpareItems == Cardinality(FreeItems) >
              Cardinality({q \in Requests : req[q] # None /\ req[q].op = "add"})

-----------------------------------------------------------------------------
(* A database with no admin accounts yet: either empty, or with weddings   *)
(* from before the wedding_admins table existed.                           *)
Init ==
    /\ slugOf \in [WeddingIds -> Slugs \cup {None}]
    /\ \A v, w \in WeddingIds : slugOf[v] = slugOf[w] => v = w \/ slugOf[v] = None
    /\ templateOf = [w \in WeddingIds |->
                       IF slugOf[w] = None THEN None ELSE DefaultTemplate]
    /\ grants = {}
    /\ items = [i \in ItemIds |-> None]
    /\ tx = [r \in Requests |-> None]
    /\ pc = [r \in Requests |-> "idle"]
    /\ req = [r \in Requests |-> None]
    /\ renamed = {}
    /\ edited = {}

\* A request arrives and its first statement sends it on to step.  One that
\* is refused by its first statement leaves no trace and is not modelled.
Start(r, q, step) ==
    /\ pc[r] = "idle"
    /\ q.op \in Ops
    /\ req' = [req EXCEPT ![r] = q]
    /\ pc' = [pc EXCEPT ![r] = step]
    /\ UNCHANGED <<slugOf, templateOf, grants, items, tx, renamed, edited>>

Goto(r, step) == pc' = [pc EXCEPT ![r] = step]

\* The deferred tx.Rollback(), or the end of the context the transaction was
\* begun with: an open transaction is undone; after Commit it is a no-op.
Rollback(r) == tx' = [tx EXCEPT ![r] = None]

\* The response is written, whatever its status.
Finish(r) ==
    /\ Goto(r, "idle")
    /\ req' = [req EXCEPT ![r] = None]
    /\ renamed' = renamed \ {r}
    /\ edited' = edited \ {r}

End(r) == Finish(r) /\ UNCHANGED <<slugOf, templateOf, grants, items, tx>>

\* Mutant: the deferred rollback is missing.
Fail_NoRollback(r) ==
    /\ pc[r] # "idle"
    /\ Finish(r)
    /\ UNCHANGED tx
    /\ UNCHANGED tables

\* A statement fails (lost connection, the 5 s request timeout, a crash of
\* the server) and the request ends with what it has done so far.
Fail(r) ==
    /\ pc[r] # "idle"
    /\ Finish(r)
    /\ Rollback(r)
    /\ UNCHANGED tables

-----------------------------------------------------------------------------
(* POST /admin/weddings                                                    *)

\* validate, then checkSlugFree: the slug is canonical and nobody holds it.
BeginCreate(r) ==
    /\ SpareIds
    /\ \E a \in Admins, s \in Spellings, t \in TemplateInputs :
         /\ Normalize[s] \in Slugs
         /\ ~ Taken(Normalize[s], None)
         /\ Start(r, [op |-> "create", admin |-> a, path |-> None,
                      slug |-> Normalize[s],
                      template |-> IF t = None THEN DefaultTemplate ELSE t,
                      keep |-> FALSE, item |-> None, auth |-> None,
                      wid |-> None], "insert")

\* Mutant: the INSERT runs on the pool instead of on the transaction.
InsertWedding_OnPool(r) ==
    /\ pc[r] = "insert"
    /\ ~ Taken(req[r].slug, None)
    /\ \E w \in FreeIds :
         /\ tx' = [tx EXCEPT ![r] = [id |-> w, slug |-> req[r].slug,
                                     template |-> req[r].template, owners |-> {}]]
         /\ slugOf' = [slugOf EXCEPT ![w] = req[r].slug]
         /\ templateOf' = [templateOf EXCEPT ![w] = req[r].template]
    /\ Goto(r, "own")
    /\ UNCHANGED <<grants, items, req, renamed, edited>>

\* INSERT INTO weddings: waits for a competing transaction, then either hits
\* the unique index (400, "slug is already taken") or draws a fresh id.
InsertWedding(r) ==
    /\ pc[r] = "insert"
    /\ ~ Locked(r, req[r].slug)
    /\ \/ Taken(req[r].slug, None) /\ End(r)
       \/ /\ ~ Taken(req[r].slug, None)
          /\ \E w \in FreeIds :
               tx' = [tx EXCEPT ![r] = [id |-> w, slug |-> req[r].slug,
                                        template |-> req[r].template,
                                        owners |-> {}]]
          /\ Goto(r, "own")
          /\ UNCHANGED <<slugOf, templateOf, grants, items, req, renamed, edited>>

\* INSERT INTO wedding_admins, in the same transaction.
InsertOwner(r) ==
    /\ pc[r] = "own"
    /\ tx' = [tx EXCEPT ![r].owners = {req[r].admin}]
    /\ Goto(r, "commit")
    /\ UNCHANGED <<slugOf, templateOf, grants, items, req, renamed, edited>>

\* COMMIT: wedding and grant become visible together.
Commit(r) ==
    /\ pc[r] = "commit"
    /\ slugOf' = [slugOf EXCEPT ![tx[r].id] = tx[r].slug]
    /\ templateOf' = [templateOf EXCEPT ![tx[r].id] = tx[r].template]
    /\ grants' = grants \cup ({tx[r].id} \X tx[r].owners)
    /\ req' = [req EXCEPT ![r].wid = tx[r].id]
    /\ Rollback(r)
    /\ Goto(r, "reload")
    /\ UNCHANGED <<items, renamed, edited>>

\* Mutant: an update reads back the slug of the URL, which it may have moved.
Reloaded_ByPath(r) ==
    BySlug(IF req[r].path = None THEN req[r].slug ELSE Normalize[req[r].path])

\* BySlug(wedding.Slug) after the write, by create and by update: what it
\* finds, {} or one wedding, is what the response carries.
Reloaded(r) == BySlug(req[r].slug)

Reload(r) == pc[r] = "reload" /\ End(r)

-----------------------------------------------------------------------------
(* RequireWeddingAccess, before every route under /admin/w/{slug}          *)

\* CanManage, first statement: the slug resolves to a wedding.  Only the
\* model remembers which (auth); the code passes on nothing but the slug.
BeginAccess(r) ==
    \E a \in Admins, p \in Spellings : \E w \in BySlug(Normalize[p]) :
      LET admit(o, s, t, i) ==
            Start(r, [op |-> o, admin |-> a, path |-> p, slug |-> s,
                      template |-> t, keep |-> (o = "update" /\ t = None),
                      item |-> i, auth |-> w, wid |-> None], "access")
      IN  \/ \E s \in Spellings, t \in TemplateInputs : admit("update", s, t, None)
          \/ SpareItems /\ admit("add", None, None, None)
          \/ \E i \in ItemIds : admit("remove", None, None, i)

\* Mutant: a slug that resolves is enough.
CheckAccess_NoGrant(r) ==
    /\ pc[r] = "access"
    /\ Goto(r, "scope")
    /\ UNCHANGED <<slugOf, templateOf, grants, items, tx, req, renamed, edited>>

\* CanManage, second statement: HasAdmin.  No grant is the same 404 as an
\* unknown slug.
CheckAccess(r) ==
    /\ pc[r] = "access"
    /\ \/ <<req[r].auth, req[r].admin>> \notin grants /\ End(r)
       \/ /\ <<req[r].auth, req[r].admin>> \in grants
          /\ Goto(r, "scope")
          /\ UNCHANGED <<slugOf, templateOf, grants, items, tx, req, renamed, edited>>

-----------------------------------------------------------------------------
(* Handlers of the child rows: guests, events, gifts, wishes               *)

\* handlers.weddingID resolves the slug a second time.
ResolveScope(r) ==
    /\ pc[r] = "scope"
    /\ req[r].op # "update"
    /\ \/ BySlug(Normalize[req[r].path]) = {} /\ End(r)
       \/ \E w \in BySlug(Normalize[req[r].path]) :
            /\ req' = [req EXCEPT ![r].wid = w]
            /\ Goto(r, "act")
            /\ UNCHANGED <<slugOf, templateOf, grants, items, tx, renamed, edited>>

\* INSERT with the resolved wedding_id.
AddItem(r) ==
    /\ pc[r] = "act"
    /\ req[r].op = "add"
    /\ \E i \in FreeItems : items' = [items EXCEPT ![i] = req[r].wid]
    /\ Finish(r)
    /\ UNCHANGED <<slugOf, templateOf, grants, tx>>

\* Mutant: the row is looked up by its id alone.
ScopedRows_ById(i, w) == {j \in ItemIds : j = i}

\* The rows WHERE id = $1 AND wedding_id = $2 selects.
ScopedRows(i, w) == {j \in ItemIds : j = i /\ items[j] = w}

\* DELETE, scoped by id and wedding; no row is a 404.
RemoveItem(r) ==
    /\ pc[r] = "act"
    /\ req[r].op = "remove"
    /\ items' = [i \in ItemIds |->
                   IF i \in ScopedRows(req[r].item, req[r].wid) THEN None ELSE items[i]]
    /\ Finish(r)
    /\ UNCHANGED <<slugOf, templateOf, grants, tx>>

-----------------------------------------------------------------------------
(* PUT /admin/w/{slug}/wedding                                             *)

\* Mutants: an omitted template_id is written as it is, or as the default.
TemplateToSave_Null(r, w) == req[r].template
TemplateToSave_Default(r, w) == IF req[r].keep THEN DefaultTemplate ELSE req[r].template

\* An omitted template_id becomes the one just loaded.
TemplateToSave(r, w) == IF req[r].keep THEN templateOf[w] ELSE req[r].template

\* Update resolves the slug itself, then normalizes and validates the body.
LoadWedding(r) ==
    /\ pc[r] = "scope"
    /\ req[r].op = "update"
    /\ LET found == BySlug(Normalize[req[r].path])
           slug  == Normalize[req[r].slug]
       IN  \/ (found = {} \/ slug \notin Slugs) /\ End(r)
           \/ \E w \in found :
                /\ slug \in Slugs
                /\ req' = [req EXCEPT ![r].wid = w, ![r].slug = slug,
                                      ![r].template = TemplateToSave(r, w)]
                /\ Goto(r, "free")
                /\ UNCHANGED <<slugOf, templateOf, grants, items, tx, renamed, edited>>

CheckSlugFree(r) ==
    /\ pc[r] = "free"
    /\ \/ Taken(req[r].slug, req[r].wid) /\ End(r)
       \/ /\ ~ Taken(req[r].slug, req[r].wid)
          /\ Goto(r, "write")
          /\ UNCHANGED <<slugOf, templateOf, grants, items, tx, req, renamed, edited>>

\* History: requests that rely on w being where they found it, between the
\* access check and the second lookup, or between the write and the reload.
RelyOnAddress(w) ==
    {q \in Requests : \/ pc[q] \in {"access", "scope"} /\ req[q].auth = w
                      \/ pc[q] = "reload" /\ req[q].wid = w}

\* Mutant: without the unique index the check before the write is all there is.
SaveWedding_NoIndex(r) ==
    /\ pc[r] = "write"
    /\ LET w == req[r].wid
       IN  /\ slugOf' = [slugOf EXCEPT ![w] = req[r].slug]
           /\ templateOf' = [templateOf EXCEPT ![w] = req[r].template]
           /\ renamed' = IF slugOf[w] = req[r].slug THEN renamed \ {r}
                         ELSE (renamed \cup RelyOnAddress(w)) \ {r}
           /\ edited' = edited \cup
                {q \in Requests \ {r} : req[q] # None /\ req[q].wid = w}
    /\ Goto(r, "reload")
    /\ UNCHANGED <<grants, items, tx, req>>

\* UPDATE weddings ... WHERE id = $9: every column, atomically, unless the
\* unique index refuses the slug.
SaveWedding(r) ==
    /\ pc[r] = "write"
    /\ ~ Locked(r, req[r].slug)
    /\ LET w == req[r].wid
       IN  \/ Taken(req[r].slug, w) /\ End(r)
           \/ /\ ~ Taken(req[r].slug, w)
              /\ slugOf' = [slugOf EXCEPT ![w] = req[r].slug]
              /\ templateOf' = [templateOf EXCEPT ![w] = req[r].template]
              /\ renamed' = IF slugOf[w] = req[r].slug THEN renamed \ {r}
                            ELSE (renamed \cup RelyOnAddress(w)) \ {r}
              /\ edited' = edited \cup
                   {q \in Requests \ {r} : req[q] # None /\ req[q].wid = w}
              /\ Goto(r, "reload")
              /\ UNCHANGED <<grants, items, tx, req>>

-----------------------------------------------------------------------------
(* admin grant -email EMAIL -wedding SLUG                                  *)

BeginGrant(r) ==
    \E a \in Admins, p \in Spellings : \E w \in BySlug(Normalize[p]) :
      Start(r, [op |-> "grant", admin |-> a, path |-> p, slug |-> None,
                template |-> None, keep |-> FALSE, item |-> None,
                auth |-> None, wid |-> w], "act")

\* INSERT INTO wedding_admins ... ON CONFLICT DO NOTHING
GrantAdmin(r) ==
    /\ pc[r] = "act"
    /\ req[r].op = "grant"
    /\ grants' = grants \cup {<<req[r].wid, req[r].admin>>}
    /\ Finish(r)
    /\ UNCHANGED <<slugOf, templateOf, items, tx>>

-----------------------------------------------------------------------------
Step(r) ==
    \/ InsertWedding(r) \/ InsertOwner(r) \/ Commit(r) \/ Reload(r)
    \/ CheckAccess(r) \/ ResolveScope(r) \/ AddItem(r) \/ RemoveItem(r)
    \/ LoadWedding(r) \/ CheckSlugFree(r) \/ SaveWedding(r) \/ GrantAdmin(r)

Begin(r) == BeginCreate(r) \/ BeginAccess(r) \/ BeginGrant(r)

Next == \E r \in Requests : Begin(r) \/ Step(r) \/ Fail(r)

\* A goroutine whose next statement can run gets to run it; no failure, and
\* no timeout, is ever relied on.
Fairness == \A r \in Requests : WF_vars(Step(r))

Spec == Init /\ [][Next]_vars /\ Fairness
-----------------------------------------------------------------------------
(* Properties.                                                             *)

\* Tenant isolation: whatever rename, create or grant ran in between, the
\* wedding a request is about to act on is the one its access check saw, and
\* its admin is granted there, unless that wedding was renamed between the
\* check and the handler's own lookup of the slug.
Isolation ==
    \A r \in Requests :
      pc[r] \in {"free", "write", "act"} /\ req[r].op # "grant" /\ r \notin renamed =>
        /\ req[r].wid = req[r].auth
        /\ <<req[r].wid, req[r].admin>> \in grants

\* A child row is created and deleted only on behalf of an admin granted the
\* wedding it belongs to (same exception): a request that holds the row's id
\* but came in through another wedding's slug changes nothing, and a row never
\* moves to another wedding.
ChildRowsStayInTenant ==
    [][\A i \in ItemIds : items'[i] # items[i] =>
         \E r \in Requests :
           /\ pc[r] = "act"
           /\ {items[i], items'[i]} = {req[r].wid, None}
           /\ req[r].op = "remove" => req[r].item = i
           /\ r \in renamed \/ <<req[r].wid, req[r].admin>> \in grants]_vars

\* The wedding a create or an update reads back by slug for its response is
\* the one it wrote, unless another request renamed it in between.
ReplyIsOwnWedding ==
    \A r \in Requests :
      pc[r] = "reload" /\ r \notin renamed => Reloaded(r) = {req[r].wid}

\* An update without template_id is about to write the template the wedding
\* has now, unless another update saved the wedding after it was loaded.
NilKeepsTemplate ==
    \A r \in Requests :
      pc[r] \in {"free", "write"} /\ req[r].keep /\ r \notin edited =>
        req[r].template = templateOf[req[r].wid]

\* The inductive invariant of the proofs, over the committed rows, ...
SlugsDistinct ==
    \A v, w \in WeddingIds : slugOf[v] = slugOf[w] /\ slugOf[v] # None => v = w

\* ... the open transactions, whose keys and slugs nobody else has, ...
Pending(r) ==
    /\ slugOf[tx[r].id] = None
    /\ \A w \in WeddingIds : slugOf[w] # tx[r].slug
    /\ \A q \in Requests \ {r} :
         tx[q] # None => tx[q].id # tx[r].id /\ tx[q].slug # tx[r].slug
    /\ tx[r].slug = req[r].slug
    /\ tx[r].template = req[r].template
    /\ pc[r] = "commit" => tx[r].owners = {req[r].admin}

TransactionsInv ==
    \A r \in Requests :
      /\ tx[r] # None <=> pc[r] \in {"own", "commit"}
      /\ tx[r] # None => Pending(r)

\* ... and what each request remembers of what it has read.
Row(w) == w \in WeddingIds /\ slugOf[w] # None

Knows(r) ==
    /\ pc[r] \in {"insert", "own", "commit"} =>
         req[r].slug \in Slugs /\ req[r].template \in Templates
    /\ pc[r] \in {"access", "scope"} =>
         /\ req[r].op \in {"update", "add", "remove"}
         /\ req[r].path \in Spellings
         /\ req[r].op = "update" => req[r].slug \in Spellings
         /\ req[r].keep <=> req[r].op = "update" /\ req[r].template = None
         /\ Row(req[r].auth)
         /\ r \notin renamed => slugOf[req[r].auth] = Normalize[req[r].path]
    /\ pc[r] = "scope" => <<req[r].auth, req[r].admin>> \in grants
    /\ pc[r] \in {"free", "write", "act"} =>
         /\ Row(req[r].wid)
         /\ req[r].op # "grant" => <<req[r].auth, req[r].admin>> \in grants
         /\ req[r].op # "grant" /\ r \notin renamed => req[r].wid = req[r].auth
    /\ pc[r] \in {"free", "write"} =>
         /\ req[r].slug \in Slugs
         /\ req[r].template \in Templates
         /\ req[r].keep /\ r \notin edited => req[r].template = templateOf[req[r].wid]
    /\ pc[r] = "reload" =>
         /\ Row(req[r].wid)
         /\ req[r].slug \in Slugs
         /\ r \notin renamed => slugOf[req[r].wid] = req[r].slug

RequestsInv ==
    \A r \in Requests : (pc[r] = "idle" <=> req[r] = None) /\ Knows(r)

Inv == TypeOK /\ SlugsDistinct /\ TransactionsInv /\ RequestsInv

\* The statements of any number of interleaved, failing requests amount to
\* atomic steps of the directory: in particular a create that ends between
\* its two INSERTs leaves nothing, and no slug ever has two weddings.
D == INSTANCE Directory WITH address <- slugOf, managers <- grants
ImplementsDirectory == D!Spec

\* An uncommitted create, whose slug every other request has to wait for,
\* is committed or rolled back in the end, at whatever statement it fails.
TransactionsEnd == \A r \in Requests : tx[r] # None ~> tx[r] = None

\* README.md:109: "Admins only reach the weddings they were granted."
OnlyGranted ==
    \A r \in Requests :
      pc[r] \in {"write", "act"} /\ req[r].op # "grant" =>
        <<req[r].wid, req[r].admin>> \in grants

\* wedding.go:62: "Nil preserves the current template on update."
NilPreservesTemplate ==
    [][\A r \in Requests :
         pc[r] = "write" /\ pc'[r] = "reload" /\ req[r].keep =>
           templateOf' = templateOf]_vars
=============================================================================
