# Wedding Suite API: a TLA+ verification project

TLA+ models of the API in `src/`: what its handlers, its middleware and the
operator tool do to the PostgreSQL tables they share. TLC checks every property on
small instances; TLAPS proves every invariant, every action property and the
refinement among them for all instances. What stays with TLC alone is liveness.

The program is one HTTP server (`cmd/api`) and one command line tool
(`cmd/admin`) over one database. Every request is a short sequence of separate
SQL statements; only the creation of a wedding uses a transaction. What can go
wrong is therefore almost always the same thing: a statement acts on what an
earlier one read, and another request, another process or a failure came in
between. The models cut every operation at its statements and let everything
interleave there. Two modules look at the rest: `Server` at what requests wait for
and how they and the process end, `Replies` at what one request tells its client
and the log.

## 1. Inventory

| Component | State | Operations | Interacts with |
|---|---|---|---|
| Tenant registry (`usecase/wedding.go`, `usecase/scope.go`, `repository/wedding.go`) | `weddings`, `wedding_admins`; the open transaction of a create | create, update/rename, grant, resolve a slug | every admin route goes through its slugs and grants |
| Wedding access (`middleware.RequireWeddingAccess`, `usecase.CanManage`) | none | check a slug and a grant, then let the handler resolve the slug again | registry, all handlers under `/admin/w/{slug}` |
| Child rows (events, gift accounts, guests, wishes) | one table each | insert, delete, edit, all scoped by id and `wedding_id` | registry |
| Admin accounts and sessions (`usecase/auth.go`, `repository/session.go`, `repository/admin.go`) | `admins`, `admin_sessions`; the clock | login, authenticate, logout, create, passwd | `cmd/admin` runs in another process |
| Guest list and RSVP (`usecase/guest.go`, `usecase/rsvp.go`) | `guests` | create with a drawn invite code, edit, delete, answer, summary | admins by wedding, guests by code |
| Guestbook (`usecase/wish.go`) | `wishes`; `WISHES_REQUIRE_APPROVAL` of the process | leave, approve/hide, delete, public and admin list | configuration, deployments |
| Rate limiter (`middleware.RateLimit`) | window start and a counter per IP, in memory, under a mutex; three instances | count, refuse with Retry-After | restarts reset it |
| Pages (`usecase/invitation.go`, `usecase.WeddingUsecase.Get`) | none | read a guest, a wedding, events and gifts, one after the other | everything admins write |
| Server lifecycle (`cmd/api/main.go`), timeouts (`middleware.Timeout`, `http.Server`) | the main goroutine, the listener, the channel of signals | start, serve, shut down (10 s), time out (5 s; 10 s to read, 10 s to write) | all requests |
| Connection pool (`db/db.go`, database/sql) | 10 connections | take one, keep one for a transaction, give up when the context ends | all requests |
| Responses and errors (`handlers/respond.go`, `repository/errors.go`, `errtrace`) | none | decode, translate an error layer by layer, answer | every handler |
| Request log (`middleware/errorlog.go`) | a capped copy of each body | copy, log a failure | every handler that reads a body |
| Validation and identifiers (`usecase/validate.go`, `handlers/validate.go`) | none | normalize and check a slug, check an id | registry, all routes with an id |

Which behaviours are hard, and the property that would catch each going wrong,
is the list `hazards` of `PROJECT.json`. What makes each component correct:

- **registry**: a slug addresses one wedding; a wedding is never created without
  its owner; an admin acts on granted weddings only; nothing is half done after a
  failure; an open transaction does not stay open;
- **sessions**: a logout and a reset end what they say they end; nothing else ends
  a session that still works; none lets in a request that arrives after its expiry;
- **guest list**: an answer stays within the allowance it was checked against and
  is written to the guest who gave it; admins and guests do not undo each other;
- **guestbook**: what was held or hidden is not public, and what is public is shown;
- **limiter**: a bound on what gets through, and no client refused for another's sake,
  whatever it claims to be;
- **process**: nobody waits in a circle for connections or slugs; every request gets
  its answer while it can still be written; a deployment loses none and ends;
- **responses**: a refusal changed nothing, a success did what it says, and every
  failure is in the log once, without a body that cannot be masked;
- **pages**: one wedding per page, exact when nothing was written meanwhile.

## 2. Modules

| Module | Models | Read it next to |
|---|---|---|
| `Weddings` | registry, access check, scoped child rows | `usecase/wedding.go`, `repository/wedding.go`, `middleware.go:108`, `handlers/scope.go` |
| `Directory` | the abstract specification `Weddings` implements | the comments of `repository/wedding.go:79` and `README.md:109-119` |
| `WeddingsProofs` | theorems about `Weddings` | |
| `AdminAuth` | accounts and sessions | `usecase/auth.go`, `repository/session.go`, `cmd/admin/main.go` |
| `AdminAuthProofs` | theorems about `AdminAuth` | |
| `GuestList` | guests and answers | `usecase/guest.go`, `usecase/rsvp.go`, `repository/guest.go` |
| `GuestListProofs` | theorems about `GuestList`, sums over finite sets | |
| `Guestbook` | wishes | `usecase/wish.go`, `repository/wish.go` |
| `GuestbookProofs` | theorems about `Guestbook` | |
| `RateLimit` | one limiter and the address it counts by | `middleware.go:131-182` |
| `RateLimitProofs` | theorems about `RateLimit`, sums over a window | |
| `Pages` | invitation and wedding page | `usecase/invitation.go`, `usecase/wedding.go:40` |
| `PagesProofs` | theorems about `Pages` | |
| `Server` | the process: requests, the pool, deadlines, shutdown | `cmd/api/main.go:26-78`, `db/db.go`, `middleware.go:33-44` |
| `ServerProofs` | theorems about `Server` | |
| `Texts` | slugs, by characters | `usecase/validate.go` |
| `Replies` | one request from its body to its status and its log line; uses `Texts` | `handlers/*.go`, `middleware/errorlog.go`, `errtrace/errtrace.go` |
| `RepliesProofs` | theorems about `Replies` and `Texts` | |
| `MC*` | the instances for TLC: sets with spellings, symmetry | |

Conventions. `Requests` (or `Slots`) are slots for what runs at the same time; a
slot is used again when its request has ended. `pc` holds the statement a request
runs next and `req` what it was sent and has read. An action is one statement
together with what the code does until the next one; a request refused by its
very first statement leaves no trace and is not an action. `Fail` ends a request at
any statement: a lost connection, the timeout, a crash. A statement that took effect
although its caller saw an error is the statement followed by `Fail`, or by the
end of the request. *History* variables (marked so) record what a property has to
know about the past and are never read by a guard; they are `renamed`, `edited`,
`gen`, `ended`, `late`, `loggedOut`, the field `since` of a request in `AdminAuth`, `cut`, `held`, `verdict`, `passed`,
`restarts`, `wait`, `disturbed`, `asked`, `written`, `broke`.

### Weddings

`slugOf`, `templateOf`, `grants`, `items` are the committed rows; `tx` is the row a
create has inserted in its open transaction. READ COMMITTED is modelled by its
effect: reads see committed rows, and a statement that would collide with an
uncommitted slug is not enabled until that transaction has ended (`Locked`). An
update takes the steps `access` (HasAdmin), `scope` (its own BySlug), `free`
(SlugTaken), `write`, `reload`; a create `insert`, `own`, `commit`, `reload`. The
wedding the access check saw is remembered in `auth` by the model alone: the code
passes on the slug. Guests, events, gifts and wishes are one set `items` here,
because all four are scoped in the same way. A deferred rollback and the end of
the request's context both close a transaction; `Fail` stands for either.

### AdminAuth

A hash is the password it verifies, a session row the token whose digest is its
key. Every reading of the clock is an action apart from the statement that uses
it, so that time can pass in between. `gen` counts an admin's passwords, which
lets a property say "a session that rests on an older password". `since` is the time
at which a request with a token arrived. `SessionsLastTTL` compares it with the end of
the session and not the reading of the clock: a request that read the clock just before
the end is let in by a query that runs just after it, and the property says that this
is all: who arrives at the end or later is not let in.

### GuestList, Guestbook, Pages, RateLimit

Admin requests of `GuestList` and `Guestbook` start where the access check and the
scope have been passed (`Weddings`). `created` orders the wishes by `created_at`, in
the order their inserts take effect; a list of wishes is the set of the positions in
`created` it shows, in which the newest are the last. In `Pages` the writes of admins are single
steps that may happen at any time, and `AddRow`, `RemoveRow` stand for events and
gift accounts alike. `RateLimit` keeps times relative to now, so that it needs no
bound on the clock; one tick is a unit of `Window`, and `Second` the number of ticks
Retry-After is rounded to. A client may send any `X-Forwarded-For`, the proxy of the
deployment appends to its last value (`Forwarded`, external), and the counter is that
of `clientIP`. `BurstBound` counts one restart as the end of one process and the start of the
next; the old and the new process of a deployment, which may serve side by side for a
while and count apart, are not modelled.

`InsertGuest` is one attempt of `GuestUsecase.Create`: a code, the INSERT, and what the loop
does with its outcome. `CreateStoresOne` follows the rows, not the attempts: the step
that stores a guest stores no other one and is the last of its create.

### Server

A slot is a connection from the time it is accepted (or, one that is kept open, waits for
its next request) to the end of the request on it. `Begin` is the arrival of its
headers. Shutdown closes the listener, so nothing is accepted after it (`Accepting`);
but it keeps a connection that is new, for 5 s and more, and serves the request that
arrives on it. So `Begin` is possible while `main` is "draining", for as long as the read
timeout allows, and `Drop` at any time, which stands for the client, the timeout and
Shutdown closing what it takes for idle.

A request is a sequence of steps (`CreateSteps`, `LoginSteps`...): reading the body,
statements on connections of the pool, a bcrypt computation, and the statements of a
transaction, which have their connection already. At each it is in one of four
places: reading, computing, waiting for a connection, running a statement. `age` is
the time since its headers were read, `waited` how long those took, `spent` the time of its computation; `age` stops at
the last deadline, so the clock needs no bound. `CutOff` ends a waiting or running
request at any time (the client hung up) and at the timeout at the latest: time does
not pass while something is overdue (`Overdue`), which says that giving up takes
no time. A body is read by a connection that knows only the read timeout, which counts from
the acceptance of the connection (`Unread`), while the timeout of the context and
the write timeout count from their end; a request
whose body took longer than 5 s is `late`, goes on with a context that has ended, and
is the exception in `AnsweredInTime` and `ShutdownSparesRequests`. The other exception in
`ShutdownSparesRequests` are headers that took so long that, with the 5 s of the request and
a hash, the 10 s of Shutdown are used up: with the values of the code, a client that
takes 5 s to send its headers and meets a slow database. `main` is the main
goroutine, `listening` the other one. SIGTERM before `signal.Notify` ends the process
at once, as the Go runtime does it; afterwards it stays in the channel.

The requests of this module stand for all others: `create` holds a transaction,
`rename` waits for a slug without one, `login` computes; `page` and `answer`, which
have proper parts of those steps, are covered by the proofs and need no slot in TLC's
instance, where every request may end early at any step.

### Replies, Texts

`Program` lists for each route the checks and statements between the request and its
reply, in their order and with the middleware in front of them. The tables are
replaced by their possible answers: a statement succeeds, finds no row, collides, or
breaks. A statement that breaks may have taken effect (`written`). An error is the
kind that `errors.Is` and `errors.As` see and the function that `errtrace.Wrap`
recorded first. A body is the length of its first JSON value, what the decoder makes
of it, and what follows; it arrives in pieces of one to `Chunk` bytes, which the copy
for the log takes from under the decoder (`Captured`). `MaxBody` and `Cap` are 64 KB
and 8 KB in the code. `Texts` treats slugs as sequences of the four kinds of characters
their check distinguishes; every slug of up to four of them is tried. An id in a path has
the form of one or is a 404 (`pathUUID`).

Three things a reader of the code may not expect are part of the module as they are.
`errtrace.go:1` says that a logged 500 "names the repository (or usecase) function that
failed". The code does so for every error a repository passes on from the driver, except
that for an edit, a rename, a deletion and a logout the name is that of
`requireAffected`, the helper that wraps the error. Two failures that a usecase finds
itself are logged without any name: a guest whose five codes all collided
(`guest.go:85`, an error no `errtrace.Wrap` has seen), and a guest whose wedding is gone
(`invitation.go:65`, where %v forgets what the repository reported; `Homeless`).
`FailuresLogged` therefore says what can be relied on: a name in the log is never that of
another function, and a line without one is one of these two. What it rules out is a
failure without a line, a line for a refusal, a name picked up on the way through the
layers, and a body shown that was cut or not understood. And `decodeJSON` stops at the
end of the first value: what follows it is neither read to its end nor refused, so a
body over 64 KB is a 413 only if the limit falls into the value.

## 3. Runs

Passing runs:

| Run | Bounds | Distinct states | Shows |
|---|---|---|---|
| `weddings` | 2 requests, 2 admins, 2 weddings, 1 child row, 2 slugs in 4 spellings | 475k | isolation, replies, scoped rows, refinement of `Directory` |
| `updates` | 2 requests, 1 admin, 2 weddings, 2 templates, no child rows | 714k | the template of an update without one; the inductive invariant of the proofs; transactions end (liveness, hence no symmetry) |
| `sessions` | 2 slots, 2 accounts in 3 spellings, 2 passwords, 1 reset each, 2 tokens, clock 0..2, TTL 1 | 3.0M | resets, logouts, pruning and expiry; accounts and their passwords |
| `guests` | 2 slots, 2 weddings, 2 guests, 3 attempts | 186k | allowances, answers, summary, scope |
| `ratelimit` | 2 clients, limit 2, window 4, 1 restart, 5 values of X-Forwarded-For | 84k | bursts, refusals, Retry-After |
| `guestbook` | 2 slots, 2 weddings, 3 wishes, limit 1 and 2 | 1.2M | moderation across deployments, the filled pages |
| `pages` | 1 slot, 2 weddings, 3 slugs, 2 codes, 3 rows | 38k | one wedding per page |
| `server` | 3 clients (a create; a create or a rename; a login whose headers take 1 or 2), 2 connections of the pool, timeout 1, read and write timeout 3, shutdown 4, hash 1 | 405k | no circular wait, answers in time, graceful shutdown; requests and shutdowns end (liveness) |
| `replies` | all routes but `/health`, bodies around limits of 5 and 3 bytes in pieces of up to 3, 5 attempts, slugs of up to 4 characters with at most 3 stored | 24k | statuses, log lines, the copy of a body, slugs |

Why these bounds are enough to be worth something. The races of this program are
between a request that has read and one other that writes, so two slots show
them. The clock of `sessions` ticks twice, which is two TTLs: enough for a session to
expire, for a statement to use a clock read before that, and for a session to be
born expired. Two
connections and two creates are the least with which creates could block each
other while a third request keeps them out. `WriteTimeout` is the least the assumptions
allow; `Drain` leaves room for headers that take 1 (a request that must be spared
although it begins during the shutdown) and not for 2 (one that is the exception, and is
lost in some behaviours). `HeadTimes` and `Serves` say which slot does what; in the
proofs they are arbitrary. Two
weddings with two slugs allow a slug to change hands, which takes a rename and a
create or two renames; a spelling that normalizes and one that never becomes valid
are among them. Each run's mutants (below) are found within the same bounds. What
is unbounded in the program (keys, tokens, the clock, restarts, password changes) is
bounded by the constants marked *bound*; operations start only while a key is left
for them, so that no request is stuck for want of one. Since slots wait for nobody
but an open transaction, deadlock is checked in every run and found in none.

`mutants` in `PROJECT.json` names, for every property of a passing run, an operator
that changes the model the way a plausible bug would change the code
(`CheckAccess_NoGrant`, `Fail_NoRollback`, `Listed_LimitFirst`...); with it, TLC
finds the property violated. These operators stand in the modules before the one
they replace and are used by nothing else.

Runs that end in a violation, each of a sentence of the repository:

| Run | Sentence | What the code does |
|---|---|---|
| `only_granted` | README.md:109, "Admins only reach the weddings they were granted" | the slug is resolved again after the access check; a rename in between, followed by another wedding taking the slug, redirects the request |
| `nil_template` | wedding.go:62, "Nil preserves the current template on update" | the template read at the load is written back over one saved since |
| `reset` | README.md:73, "new password; logs out every session" | a login that had verified the old password inserts its session after the deletion |

The passing properties say what does hold in these places: `Isolation`,
`NilKeepsTemplate` and `OnlyLateLoginsSurvive` bound each exception to exactly the
overlap that causes it. Two more sentences are exact only with the bounds of a passing
property. An answer is checked against the allowance (`rsvp.go:68`) and saved by a
later statement: if the allowance is cut in between, more people are saved than the
invite allows (`OverAllowanceOnlyAfterCut`). And `README.md:104`, "10 attempts per 10
min", means a fixed window: around its end twice as many get through (`BurstBound`).

### Fairness

`TransactionsEnd` (run `updates`) needs weak fairness of every request's own next statement
(`Fairness`). A goroutine is scheduled by the Go runtime and a statement that can
run is run by PostgreSQL; neither a failure nor a timeout is assumed to happen. The
property is about transactions, not about whole requests: an insert may wait again
and again for the slug of ever new creates that fail, and then it is its own 5 s
timeout that ends it, on which this fairness does not rely.

`Server` is where that timeout is. Its fairness is that of the clock, of the main
goroutine's own next step, and of what has a deadline once it is reached: a read
that fails, a context that is cancelled, a bcrypt computation that takes its time.
No client is assumed to send anything, and PostgreSQL is not assumed to answer. But that a
call whose context is cancelled returns is assumed of database/sql and lib/pq
(`Interruptible`, an external definition): `db.go:22` sees to it for the dial, and nothing in
`src/` for a statement already sent. `RequestsEnd`, `AnsweredInTime` and
`ShutdownSparesRequests` rest on that assumption; `SigtermEnds` does not, since Shutdown
gives up by itself.

## 4. Proofs

`WeddingsProofs` proves, for any sets of requests, admins, weddings, child rows,
slugs, spellings and templates that satisfy the assumptions stated in `Weddings`
(`None` is not a row or a name; normalization leaves valid slugs alone; the
default template is a template):

| Theorem | States |
|---|---|
| `Inductive` | `Spec => []Inv` |
| `Typed` | `Spec => []TypeOK` |
| `Isolated` | `Spec => []Isolation` |
| `ChildRowsScoped` | `Spec => ChildRowsStayInTenant` |
| `RepliesOwn` | `Spec => []ReplyIsOwnWedding` |
| `TemplateKept` | `Spec => []NilKeepsTemplate` |
| `Refines` | `Spec => ImplementsDirectory` |

The argument. `Isolation` is not inductive: to know that the wedding found by the
second lookup is the one of the first, one has to know that a request which no
rename touched still finds its wedding under its slug, and that nobody else is
there. So `Inv` has three parts next to the types: committed slugs are distinct
(`SlugsDistinct`); an open transaction holds a key and a slug that no row and no
other transaction has, and exists exactly from `own` to `commit`
(`TransactionsInv`), without which a commit could break the first part; and what
each request remembers is still so unless its history says otherwise
(`RequestsInv`). There is one lemma for each action; starting and ending a request
are lemmas of their own, cited by all that start or end one. The properties
follow from `Inv` state by state, and the refinement step by step: a commit is a
`Register`, a save a `Move`, a grant an `Appoint`, everything else stutters. TLC
checks `Inv` in the run `updates` and the refinement in `weddings`.

`ServerProofs` proves, for any finite set of slots, any kinds of requests on them, any
headers' times, any number of connections and any deadlines with `Timeout + HashTime` below `WriteTimeout`
and `Drain` (the code: 5 s, a bcrypt of cost 10, 10 s and 10 s):

| Theorem | States |
|---|---|
| `Inductive` | `Spec => []Inv` |
| `Typed` | `Spec => []TypeOK` (the limit of the pool among it) |
| `NobodyWaitsInACircle` | `Spec => []NoCircularWait` |
| `AnswersAreInTime` | `Spec => []AnsweredInTime` |
| `ShutdownIsGraceful` | `Spec => ShutdownSparesRequests` |

Its argument. `Placed`: what a request is doing fits its step, so that nobody who holds
a connection waits for one; then a full pool has somebody in it who runs a statement,
and of those at least one waits for no slug, for only inserts and updates do and they
wait for somebody further on. `Timely`: a request is past the timeout by at most the
time of a hash, since all else ends at it. `Older`: every connection is at least as
old as the shutdown, because none is accepted once it has begun, and a request that
begins on it, before or during the shutdown, takes the age of the connection over
(`waited`). So at `drained = Drain` the time of its headers and its age make up `Drain`,
and `Timely` leaves more of that to the headers than `ShutdownSparesRequests` allows,
unless the body was late.

`AdminAuthProofs` proves, for any emails and their normalization (idempotent), any
passwords and tokens, any finite set of slots, any positive time to live and any
bounds on the clock and on password changes:

| Theorem | States |
|---|---|
| `Inductive` | `Spec => []Inv` |
| `Typed` | `Spec => []TypeOK` |
| `ResetsEndSessions` | `Spec => []OnlyLateLoginsSurvive` |
| `LogoutsHold` | `Spec => []LogoutHolds` |
| `PruningSparesLiveSessions` | `Spec => LiveSessionsKept` |
| `SessionsExpire` | `Spec => SessionsLastTTL` |
| `OnlyPasswdChangesPasswords` | `Spec => PasswordsKept` |

Its argument. `OnlyLateLoginsSurvive` is about sessions in the table, but the danger
is a login on its way there: `ResetsInv` says the same of a login that has verified an
older password, so that its insert carries `late` from the slot to the token.
`SlotsInv` bounds every clock that was read by the current one, which is why pruning
by an old clock takes expired rows alone, and the arrival of a request by its own reading
(`since` is no later than `clock`), which a query that lets it in finds before the
expiry; and `SessionsInv` bounds the expiry of a session by
the time of its insert plus `TTL`. `loggedOut` stays within `issued`, so that an insert
brings no token back. That password changes stay within `MaxResets` counts the slots
between the check and the update, hence the finite set of slots. TLC agreed with `Inv`
on the instance of `sessions` before it was proved.

`GuestListProofs` proves, for any slots, weddings, codes, inputs and any finite set of
guests:

| Theorem | States |
|---|---|
| `Inductive` | `Spec => []Inv` |
| `Typed` | `Spec => []TypeOK` (no two guests share a code) |
| `OverAllowanceMeansCut` | `Spec => []OverAllowanceOnlyAfterCut` |
| `DashboardAddsUp` | `Spec => []SummaryAddsUp` |
| `CreatesStoreOne` | `Spec => CreateStoresOne` |
| `AnswersAreKept` | `Spec => AnswersKept` |
| `GuestsStay` | `Spec => GuestsStayInWedding` |

Its argument. That a stored answer exceeds its allowance only after a cut depends on the
answers under way: `FlightInv` says of each that it exceeds the allowance of its
guest only if the allowance was lowered since the check, so that its save carries `cut`
from the slot to the guest. `SlotsInv` and `Present \subseteq spent` make sure that a
guest who is looked up is not one of a later insert. The summary adds up by induction
over finite sets: a sum grows with its summands (`SumGrows`) and with the set counted
(`SumCounts`), so more people than are invited need one guest who exceeds the
allowance, and `OverAllowanceOnlyAfterCut` finds the cut.

`RateLimitProofs` proves, for any clients, any positive limit, window and unit of
Retry-After and any bounds on counters and restarts:

| Theorem | States |
|---|---|
| `Inductive` | `Spec => []Inv` |
| `Typed` | `Spec => []TypeOK` (no Retry-After beyond a window and a second) |
| `BurstsAreBounded` | `Spec => []BurstBound` |
| `RefusalsAreEarned` | `Spec => RefusedOnlyAfterLimit` |
| `RetryAfterIsHonoured` | `Spec => []RetryAfterHonoured` |

Its argument. The bound on a whole window is not inductive, since a tick forgets its
oldest part. `BurstInv` bounds every shorter stretch: of the last n ticks, the current
window, the one before and every one a restart began hold the limit each; and what
passed since the window began is exactly what its counter says, which is also why a
refused client has used up its share. `WaitInv` says that a refused client waits beyond
the end of the window that refused it. That `clientIP` gives the peer of the
connection behind the proxy, whatever was sent, is `ClientIsPeer`.

`GuestbookProofs` proves, for any slots, weddings, ids and limits:

| Theorem | States |
|---|---|
| `Inductive` | `Spec => []Inv` |
| `Typed` | `Spec => []TypeOK` (no id is given out twice) |
| `ModerationAlwaysHolds` | `Spec => []ModerationHolds` |
| `PagesAreFilled` | `Spec => []PagesFilled` |

`ShownInv` says of every row what `ModerationHolds` says of the listed ones, and that
there is no history of an id not used yet, which an insert could inherit. `PagesFilled`
needs no invariant but the types: it is a fact about `Newest`, proved for any
finite list from the last and the first of its elements (`NewestFills`).

`PagesProofs` proves, for any slots, weddings, slugs, codes and rows:

| Theorem | States |
|---|---|
| `Inductive` | `Spec => []Inv` |
| `Typed` | `Spec => []TypeOK` |
| `PagesShowOneWedding` | `Spec => []OneWeddingPerPage` |
| `UndisturbedPagesAreExact` | `Spec => []UndisturbedPageIsExact` |

`RowsInv` adds that a row on a page was added and keeps its wedding. `ExactInv` says
at each step of an undisturbed request what it has read so far; there is one lemma for
the writes (`WriteInv`: a write that leaves a request undisturbed leaves what it read
true) and one for each read.

`RepliesProofs` proves, for any limits, bodies, pieces and slugs:

| Theorem | States |
|---|---|
| `Inductive` | `Spec => []Inv` |
| `Typed` | `Spec => []TypeOK` (the copy for the log is what was read, cut at `Cap`) |
| `RepliesAreTrue` | `Spec => []RepliesTellEffects` |
| `FailuresAreLogged` | `Spec => []FailuresLogged` |
| `SlugsAreFound` | `Spec => []SlugsFound` |
| `SlugsAreStable` | a stored slug is stored again as it is |

Its argument. What makes a refusal true is the order of the steps of a handler: behind
one whose effect lasts there are only steps that do not refuse (`Safe`), but for the
reload of a wedding that is gone. `ProgramOrdered` shows this of all handlers,
file by file, and `ProgressInv` carries it along the steps; a new handler that checks
something after its write fails exactly that lemma. The copy of the body is followed
byte by byte (`Capturing`), for every way the body can be cut into pieces. `Spelling`
shows that normalizing a link gives a slug if and only if the link spells it;
`SlugsAreStable` is what `Weddings` assumes of its `Normalize` (a valid slug is
normalized to itself).

The assumptions of these five modules are that bounds are numbers of the size they need,
that inputs have their types, that a copy holds a byte at least (`Cap`; 8 KB in the
code), that ids of guests are not slots, and that `None` is none of the records and
names it stands in for (`RecordAssumption`). TLC evaluates all of them in the runs, and
agreed with each `Inv` on the instance of its run before it was proved.

Sums (`Younger`, `SumFunction`) are recursive functions and folds of the community
modules, not RECURSIVE operators, which the prover cannot see through. What is
proved about them by induction is proved on sets: the set of numbers, or of subsets,
that have the property (`Induction`, `SetInduction`), by well-foundedness.

Out of the prover's reach and left to TLC: `TransactionsEnd`, `RequestsEnd` and
`SigtermEnds`, which are liveness under fairness. The sentences refuted by the runs
`only_granted`, `nil_template` and `reset` need no proof: one behaviour is enough.

## 5. Plan

Done, in this order: `Weddings` with `Directory` and its proofs, `AdminAuth` with its
proofs, `GuestList`, `RateLimit`, `Guestbook`, `Pages`, `Server` with its proofs,
`Texts` and `Replies`, then the proofs about all modules that had none.

Next, to prove: what is safety in the three liveness properties, namely that no step of
a request but the retries of a create and the wait for a slug leads it back, so that only
fairness is left to be assumed; and the same for the shutdown.

To model, if anything: an abstract guest list whose answers are one atomic step, and
its refinement; the composition of `AdminAuth` and the access check, whose interface
is one statement today (`AdminByToken`).

## 6. Not modelled, and why

- The text fields of weddings, guests, events, gifts and wishes, their length limits,
  dates and links: they decide only whether a request is refused before its first
  write (`Validate` in `Replies`).
- CORS (a library), the health check, the settings other than
  `WISHES_REQUIRE_APPROVAL`, the wording of log lines: no state.
- The masking of secret fields by name: a list of two words, tested in
  `errorlog_test.go`. When a body is shown at all is modelled.
- The order of events, gift accounts and guests in their lists: an ORDER BY each.
- The statements of different requests in `Server`, and other requests in `Replies`:
  each abstracts from what the other modules model.
- `cmd/admin` reading a password from the terminal, and `create -wedding`, which is a
  create followed by a grant (`AdminAuth`, `Weddings`); when the grant fails the account
  remains, as the command reports.
- `bcrypt`, SHA-256 and random generators: a hash is the password it verifies, a
  fresh token or key is one that was never drawn; invite codes, which are short,
  do collide.
- Deletion of weddings and admins: the program has none.
- PostgreSQL itself beyond what is said above; in particular ties of `created_at`, and
  the order of two inserts that overlap, which the list of wishes may show either way.
- `rsvp_message` and `rsvp_responded_at`: written in the same statement as the count.
