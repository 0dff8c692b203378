------------------------------- MODULE Server -------------------------------
(***************************************************************************)
(* One server process: the requests it runs at the same time, the pool of  *)
(* database connections they share, the 5 s timeout of a request, the read *)
(* and write timeouts of its connection, and the end of the process at a   *)
(* deployment.                                                             *)
(*                                                                         *)
(* What the statements do is the matter of the other modules.  Here a      *)
(* request is a connection whose headers arrive, and then the order in     *)
(* which it reads its body, computes and asks the database, and what it    *)
(* holds meanwhile.  Time passes only while nothing is overdue: cutting    *)
(* off at a deadline takes no time.                                        *)
(***************************************************************************)
EXTENDS Naturals, Sequences, FiniteSets

CONSTANTS
    Slots,         \* bound: connections at the same time
    Serves,        \* bound: the kinds of requests each slot is used for
    HeadTimes,     \* bound: how long the headers of each slot take, if they come
    MaxOpen,       \* SetMaxOpenConns
    Timeout,       \* age at which the context of a request is cancelled
    ReadTimeout,   \* age of a connection at which nothing more is read from it
    WriteTimeout,  \* age at which its answer can no longer be written
    Drain,         \* how long Shutdown waits
    HashTime       \* bound: time of one bcrypt computation

ASSUME PoolAssumption == MaxOpen \in Nat \ {0} /\ IsFiniteSet(Slots)
ASSUME TimeAssumption ==
    /\ Timeout \in Nat \ {0} /\ ReadTimeout \in Nat /\ HashTime \in Nat
    /\ WriteTimeout \in Nat /\ Timeout + HashTime < WriteTimeout
    /\ Drain \in Nat /\ Timeout + HashTime < Drain

\* The steps of each kind of request.  "queries" is one statement or several,
\* each on a connection of its own; the rest of a create is one transaction.
PageSteps == <<"queries">>

AnswerSteps == <<"body", "queries">>

LoginSteps == <<"body", "queries", "hash", "queries">>

CreateSteps ==
    <<"queries", "body", "queries", "begin", "insert", "own", "commit", "queries">>

RenameSteps == <<"queries", "body", "queries", "update", "queries">>

Program ==
    [page |-> PageSteps, answer |-> AnswerSteps, login |-> LoginSteps,
     create |-> CreateSteps, rename |-> RenameSteps]

Ops == DOMAIN Program

ASSUME ServesAssumption ==
    Serves \in [Slots -> SUBSET Ops] /\ HeadTimes \in [Slots -> SUBSET Nat]

VARIABLES
    main,       \* where the main goroutine is
    listening,  \* the other goroutine accepts requests
    stop,       \* a signal is in the channel main waits on
    asked,      \* history: SIGTERM was sent to this process
    drained,    \* how long Shutdown has been waiting
    req         \* the connection or request in each slot

vars == <<main, listening, stop, asked, drained, req>>

\* A connection whose headers have not all arrived.
Connection == [at : {"head"}, age : Nat]

\* at: reading the body, computing, waiting for a connection of the pool, or
\* running a statement.  waited: how long the headers took; age: the time since
\* then.  late: the body took longer than the timeout.
Request == [op : Ops, step : 1..8, at : {"body", "hash", "wait", "run"},
            waited : Nat, age : Nat, spent : 0..HashTime, late : BOOLEAN]

Idle == [at |-> "idle"]

Init ==
    /\ main = "boot"
    /\ listening = FALSE /\ stop = FALSE /\ asked = FALSE
    /\ drained = 0
    /\ req = [r \in Slots |-> Idle]

-----------------------------------------------------------------------------
(* The pool.                                                               *)

Busy == {r \in Slots : req[r] # Idle}

\* The requests: the slots whose headers have been read.
Begun == {r \in Busy : req[r].at # "head"}

Kind(r) == Program[req[r].op][req[r].step]

\* Mutant: the grant is inserted through the pool, as most statements are.
OnTx_NotOwn == {"insert", "commit"}

\* Steps that run on the connection of the open transaction.
OnTx == {"insert", "own", "commit"}

InTx(r) ==
    /\ r \in Begun
    /\ \/ Kind(r) \in {"insert", "own", "commit"}
       \/ Kind(r) = "begin" /\ req[r].at = "run"

\* The connections in use: one of a transaction, and one of a statement that
\* runs outside of it.
Used ==
    {<<r, "tx">> : r \in {q \in Slots : InTx(q)}}
      \cup {<<r, "statement">> :
              r \in {q \in Begun : req[q].at = "run" /\ Kind(q) \notin OnTx \cup {"begin"}}}

\* Mutant: the pool opens as many connections as are asked for.
HasRoom_Unlimited == TRUE

HasRoom == Cardinality(Used) < MaxOpen

\* Types, and the limit of the pool.
TypeOK ==
    /\ main \in {"boot", "notified", "serving", "draining", "down"}
    /\ listening \in BOOLEAN /\ stop \in BOOLEAN /\ asked \in BOOLEAN
    /\ drained \in 0..Drain
    /\ req \in [Slots -> Request \cup Connection \cup {Idle}]
    /\ \A r \in Begun : req[r].step <= Len(Program[req[r].op])
    /\ Cardinality(Used) <= MaxOpen

\* A statement that needs the slug of an uncommitted row waits for it.  All
\* creates and renames want the same slug here.
Locked(r) ==
    /\ r \in Begun /\ req[r].at = "run" /\ Kind(r) \in {"insert", "update"}
    /\ \E h \in Begun \ {r} : Kind(h) \in {"own", "commit"}

-----------------------------------------------------------------------------
(* A request.                                                              *)

\* Where a step starts.
Entry(kind) ==
    IF kind \in {"body", "hash"} THEN kind ELSE IF kind \in OnTx THEN "run" ELSE "wait"

Goto(r, step) ==
    req' = [req EXCEPT ![r].step = step, ![r].spent = 0,
                       ![r].at = Entry(Program[req[r].op][step])]

\* The answer is written; a transaction still open is rolled back.
Answer(r) == req' = [req EXCEPT ![r] = Idle]

Advance(r) ==
    IF req[r].step = Len(Program[req[r].op]) THEN Answer(r) ELSE Goto(r, req[r].step + 1)

ServerUnchanged == UNCHANGED <<main, listening, stop, asked, drained>>

\* Mutant: the listener stays open until the process ends.
Accepting_Always == listening

\* Shutdown closes the listener first.
Accepting == listening /\ main # "draining"

\* A new connection, or the next request of one that was kept open.
Accept(r) ==
    /\ Accepting
    /\ req[r] = Idle
    /\ req' = [req EXCEPT ![r] = [at |-> "head", age |-> 0]]
    /\ ServerUnchanged

\* The headers have arrived, and the handler starts: even while the server shuts
\* down, which keeps a new connection open.
Begin(r) ==
    /\ req[r].at = "head"
    /\ req[r].age < ReadTimeout /\ req[r].age \in HeadTimes[r]
    /\ \E op \in Serves[r] :
         req' = [req EXCEPT ![r] = [op |-> op, step |-> 1, at |-> Entry(Program[op][1]),
                                    waited |-> @.age, age |-> 0, spent |-> 0, late |-> FALSE]]
    /\ ServerUnchanged

\* The client hangs up, its time is up, or Shutdown takes the connection for an
\* idle one, as it does with one kept open, and with a new one after a while.
Drop(r) ==
    /\ req[r].at = "head"
    /\ req' = [req EXCEPT ![r] = Idle]
    /\ ServerUnchanged

\* Mutant: cut off when the answer can no longer be written.
Expired_AtWriteTimeout(r) == req[r].age >= WriteTimeout

\* The context of the request is cancelled.
Expired(r) == req[r].age >= Timeout

\* The connection is too old for the rest of the body to be read.
Unread(r) == req[r].waited + req[r].age >= ReadTimeout

\* The body has arrived, or reading it has failed and the request with it.
ReadBody(r) ==
    /\ req[r].at = "body"
    /\ \/ /\ ~ Unread(r)
          /\ req' = [req EXCEPT ![r].step = @ + 1, ![r].late = Expired(r),
                                ![r].at = Entry(Program[req[r].op][req[r].step + 1])]
       \/ Answer(r)
    /\ ServerUnchanged

\* The pool gives a free connection to any of those that wait, unless their
\* context has ended.
Acquire(r) ==
    /\ req[r].at = "wait"
    /\ ~ Expired(r)
    /\ HasRoom
    /\ req' = [req EXCEPT ![r].at = "run"]
    /\ ServerUnchanged

\* The statement ends: well, and the request goes on, maybe with the next of
\* several queries; or the request ends early, with an error or a refusal.
Complete(r) ==
    /\ req[r].at = "run"
    /\ ~ Locked(r)
    /\ \/ Advance(r)
       \/ Kind(r) = "queries" /\ Goto(r, req[r].step)
       \/ Answer(r)
    /\ ServerUnchanged

\* bcrypt looks at no context.
Hashed(r) ==
    /\ req[r].at = "hash"
    /\ Advance(r) \/ Answer(r)
    /\ ServerUnchanged

\* Mutant: what has reached the database is left running.
Interruptible_Waiting == {"wait"}

\* database/sql and the driver give up on a cancelled context, whether they
\* wait for a connection, dial one or wait for a statement.
Interruptible == {"wait", "run"}

\* The context is cancelled, by the timeout or because the client hung up,
\* while the request waits or its statement runs: an error is answered.
CutOff(r) ==
    /\ req[r].at \in Interruptible
    /\ Answer(r)
    /\ ServerUnchanged

-----------------------------------------------------------------------------
(* The process.                                                            *)

\* ListenAndServe, in its own goroutine; after Shutdown it does nothing.
Listen ==
    /\ main \notin {"draining", "down"} /\ ~ listening
    /\ listening' = TRUE
    /\ UNCHANGED <<main, stop, asked, drained, req>>

Exit ==
    /\ main' = "down" /\ listening' = FALSE /\ stop' = FALSE /\ asked' = FALSE
    /\ drained' = 0
    /\ req' = [r \in Slots |-> Idle]

\* The port is taken: log.Fatalf.
ListenFails == main \notin {"draining", "down"} /\ ~ listening /\ Exit

Notify ==
    /\ main = "boot"
    /\ main' = "notified"
    /\ UNCHANGED <<listening, stop, asked, drained, req>>

\* main goes on to wait on the channel.
Wait ==
    /\ main = "notified"
    /\ main' = "serving"
    /\ UNCHANGED <<listening, stop, asked, drained, req>>

\* Mutant: a channel without a buffer; the signal is dropped unless main is
\* waiting for it.
Delivered_Unbuffered == main = "serving"

\* The channel holds one signal.
Delivered == TRUE

\* Before signal.Notify the signal ends the process at once; one that comes
\* while the server shuts down stays in the channel, and changes nothing.
Sigterm ==
    /\ \/ main = "boot" /\ Exit
       \/ /\ main \in {"notified", "serving"}
          /\ asked' = TRUE
          /\ stop' = (stop \/ Delivered)
          /\ UNCHANGED <<main, listening, drained, req>>

\* <-stop, and Shutdown with a context of its own
Shutdown ==
    /\ main = "serving" /\ stop
    /\ main' = "draining" /\ stop' = FALSE
    /\ UNCHANGED <<listening, asked, drained, req>>

\* Shutdown returns when no connection is left, or when its time is up.  Then the
\* pool is closed and the process ends.
Close ==
    /\ main = "draining"
    /\ Busy = {} \/ drained = Drain
    /\ Exit

Restart ==
    /\ main = "down"
    /\ main' = "boot"
    /\ UNCHANGED <<listening, stop, asked, drained, req>>

-----------------------------------------------------------------------------
(* Time.                                                                   *)

Overdue ==
    \/ main = "draining" /\ (Busy = {} \/ drained = Drain)
    \/ \E r \in Busy \ Begun : req[r].age >= ReadTimeout
    \/ \E r \in Begun :
         \/ req[r].at = "body" /\ Unread(r)
         \/ req[r].at = "hash" /\ req[r].spent = HashTime
         \/ req[r].at \in Interruptible /\ Expired(r)

AtMost(n, bound) == IF n < bound THEN n ELSE bound

\* Beyond the last deadline an age no longer matters.
Aged(q) ==
    IF q = Idle THEN Idle
    ELSE IF q.at = "head" THEN [q EXCEPT !.age = @ + 1]
    ELSE [q EXCEPT !.age = AtMost(@ + 1, WriteTimeout),
                   !.spent = IF q.at = "hash" THEN @ + 1 ELSE @]

Tick ==
    /\ ~ Overdue
    /\ req' = [r \in Slots |-> Aged(req[r])]
    /\ drained' = IF main = "draining" THEN drained + 1 ELSE drained
    /\ UNCHANGED <<main, listening, stop, asked>>

-----------------------------------------------------------------------------
Step(r) ==
    Begin(r) \/ Drop(r) \/ ReadBody(r) \/ Acquire(r) \/ Complete(r) \/ Hashed(r) \/ CutOff(r)

Process ==
    Listen \/ ListenFails \/ Notify \/ Wait \/ Sigterm \/ Shutdown \/ Close \/ Restart

Next == Tick \/ Process \/ \E r \in Slots : Accept(r) \/ Step(r)

\* The clock never stops, main goes on, and what has a deadline is done when
\* it is reached.  Neither the client nor the database is assumed to do
\* anything ever.
HeadEnds(r) == req[r].at = "head" /\ req[r].age >= ReadTimeout /\ Drop(r)
BodyEnds(r) == req[r].at = "body" /\ Unread(r) /\ ReadBody(r)
TimesOut(r) == req[r].at \in Interruptible /\ Expired(r) /\ CutOff(r)
HashEnds(r) == req[r].at = "hash" /\ req[r].spent = HashTime /\ Hashed(r)

Fairness ==
    /\ WF_vars(Tick)
    /\ WF_vars(Notify) /\ WF_vars(Wait) /\ WF_vars(Shutdown) /\ WF_vars(Close)
    /\ \A r \in Slots :
         /\ WF_vars(HeadEnds(r)) /\ WF_vars(BodyEnds(r))
         /\ WF_vars(TimesOut(r)) /\ WF_vars(HashEnds(r))

Spec == Init /\ [][Next]_vars /\ Fairness

-----------------------------------------------------------------------------
(* Properties.                                                             *)

\* Whoever waits, for a connection or for a slug, waits for somebody whose
\* statement the database is running: nobody waits for one who waits, however
\* many creates hold a connection for their transaction.
NoCircularWait ==
    \A r \in Begun :
      req[r].at = "wait" \/ Locked(r) =>
        \/ HasRoom
        \/ \E h \in Begun : req[h].at = "run" /\ ~ Locked(h)

\* main.go:48: "Request work is cut off at 5s, inside the 10s WriteTimeout, so
\* a slow query still gets an error response written" - unless it is the body
\* that was late.
AnsweredInTime ==
    \A r \in Begun : req[r].at # "body" /\ ~ req[r].late => req[r].age < WriteTimeout

\* A request whose headers and body have arrived in time is never lost to a
\* shutdown, whether it began before or while Shutdown waits (main.go:72): only
\* if its headers took so long that the rest of it fills what is left of the
\* 10 s.  (SIGTERM before signal.Notify spares none.)
ShutdownSparesRequests ==
    [][main = "draining" /\ main' = "down" =>
         \A r \in Begun :
           \/ req[r].at = "body" \/ req[r].late
           \/ req[r].waited + Timeout + HashTime >= Drain]_vars

\* Every connection is done with, whatever the client sends and the database
\* answers, provided that a statement ends when its context does (Interruptible).
RequestsEnd == \A r \in Slots : r \in Busy ~> r \notin Busy

\* A SIGTERM that does not end the process at once is not lost, whenever it
\* comes, and the process ends whatever its requests do.
SigtermEnds == asked ~> main = "down"
=============================================================================
