------------------------------ MODULE AdminAuth ------------------------------
(***************************************************************************)
(* Admin accounts and their sessions: logins, logouts and authenticated    *)
(* requests of the API, next to `admin create` and `admin passwd`, which   *)
(* run in a process of their own against the same database.  One action    *)
(* per SQL statement or clock reading; slots are used again.               *)
(*                                                                         *)
(* A password hash is represented by the password it verifies (bcrypt),    *)
(* a session row by the token whose SHA-256 is its key.                    *)
(***************************************************************************)
EXTENDS Naturals, FiniteSets

CONSTANTS
    Slots,           \* slots for concurrent requests and commands
    EmailInputs,     \* emails as typed
    NormalizeEmail,  \* normalizeEmail, on EmailInputs
    Passwords,       \* passwords that pass validHash
    Tokens,          \* session tokens; bounds how many logins are completed
    TTL,             \* sessionTTL, in ticks of the clock
    MaxClock,        \* bound: the clock stops here
    MaxResets,       \* bound: password changes per admin
    None             \* an absent row or field

ASSUME NormalizeAssumption ==
    /\ NormalizeEmail \in [EmailInputs -> EmailInputs]
    /\ \A e \in EmailInputs : NormalizeEmail[NormalizeEmail[e]] = NormalizeEmail[e]
ASSUME BoundAssumption ==
    TTL \in Nat \ {0} /\ MaxClock \in Nat /\ MaxResets \in Nat
\* late holds slots and tokens; the slots are finitely many to be counted.
ASSUME SlotAssumption == IsFiniteSet(Slots) /\ Slots \cap Tokens = {}

Emails == {NormalizeEmail[e] : e \in EmailInputs}
Times == 0..MaxClock
Resets == 0..MaxResets

VARIABLES
    hash,       \* admins.password_hash by email, None without an account
    sessions,   \* admin_sessions by token
    issued,     \* tokens that were ever drawn; the next one is not among them
    now,        \* the clock
    pc,         \* the statement each slot runs next
    req,        \* what each slot was sent and has read so far
    gen,        \* history: how often an admin's password was changed
    ended,      \* history: the last change whose passwd reported success
    late,       \* history: logins, then tokens, that passwd could not see
    loggedOut   \* history: tokens whose logout was answered with success

history == <<gen, ended, late, loggedOut>>
vars == <<hash, sessions, issued, now, pc, req, history>>

Session == [admin : Emails, expires : 0..(MaxClock + TTL),
            saved : Times,      \* history: when the row was inserted
            gen   : Resets]     \* history: the password the login verified

Request == [op       : {"login", "call", "logout", "create", "passwd"},
            admin    : Emails \cup {None},
            password : Passwords \cup {None},
            token    : Tokens \cup {None},
            clock    : Times \cup {None},
            since    : Times \cup {None},   \* history: when the token arrived
            gen      : Resets \cup {None}]

\* An absent row is no row, and an absent token no token.
ASSUME RecordAssumption ==
    None \notin Request /\ None \notin Session /\ None \notin Tokens

Statements == {"idle", "clock", "prune", "save", "query", "handle", "delete",
               "hash", "revoke", "register", "confirm"}

\* Types and keys; an account exists under its normalized email only.
TypeOK ==
    /\ hash \in [EmailInputs -> Passwords \cup {None}]
    /\ \A e \in EmailInputs : hash[e] # None => e \in Emails
    /\ sessions \in [Tokens -> Session \cup {None}]
    /\ \A t \in Tokens : sessions[t] # None => t \in issued
    /\ issued \subseteq Tokens
    /\ now \in Times
    /\ pc \in [Slots -> Statements]
    /\ req \in [Slots -> Request \cup {None}]
    /\ gen \in [EmailInputs -> Resets]
    /\ ended \in [EmailInputs -> Resets]
    /\ late \subseteq Slots \cup Tokens
    /\ loggedOut \subseteq Tokens

Init ==
    /\ hash = [e \in EmailInputs |-> None]
    /\ sessions = [t \in Tokens |-> None]
    /\ issued = {}
    /\ now = 0
    /\ pc = [s \in Slots |-> "idle"]
    /\ req = [s \in Slots |-> None]
    /\ gen = [e \in EmailInputs |-> 0]
    /\ ended = [e \in EmailInputs |-> 0]
    /\ late = {}
    /\ loggedOut = {}

-----------------------------------------------------------------------------
Busy(op) == {s \in Slots : req[s] # None /\ req[s].op = op}

\* A request or command arrives and goes on to step.  One that its first
\* statement refuses (a wrong password, an unknown email or token, a password
\* validHash rejects) leaves no trace and is not modelled.
Start(s, step, op, e, p, t, g) ==
    /\ pc[s] = "idle"
    /\ req' = [req EXCEPT ![s] = [op |-> op, admin |-> e, password |-> p,
                                  token |-> t, clock |-> None, gen |-> g,
                                  since |-> IF t = None THEN None ELSE now]]
    /\ pc' = [pc EXCEPT ![s] = step]
    /\ UNCHANGED <<hash, sessions, issued, now, history>>

Goto(s, step) == pc' = [pc EXCEPT ![s] = step]

Finish(s) == Goto(s, "idle") /\ req' = [req EXCEPT ![s] = None]

\* An error or a refusal: the slot ends with what it has done so far.
Fail(s) ==
    /\ pc[s] # "idle"
    /\ Finish(s)
    /\ late' = late \ {s}
    /\ UNCHANGED <<hash, sessions, issued, now, gen, ended, loggedOut>>

\* Time passes, up to the bound.
Tick ==
    /\ now < MaxClock
    /\ now' = now + 1
    /\ UNCHANGED <<hash, sessions, issued, pc, req, history>>

\* u.now(), handed to the statement after it.
ReadClock(s) ==
    /\ pc[s] = "clock"
    /\ req' = [req EXCEPT ![s].clock = now]
    /\ Goto(s, IF req[s].op = "login" THEN "prune" ELSE "query")
    /\ UNCHANGED <<hash, sessions, issued, now, history>>

-----------------------------------------------------------------------------
(* Login                                                                   *)

\* ByEmail and the bcrypt check of what it returned.
BeginLogin(s) ==
    /\ Cardinality(Busy("login")) < Cardinality(Tokens \ issued)
    /\ \E i \in EmailInputs :
         LET e == NormalizeEmail[i] IN
           /\ hash[e] # None
           /\ Start(s, "clock", "login", e, None, None, gen[e])

\* Mutant: the expiry of the new session is passed instead of the clock.
Expired_AtNewExpiry(e, time) ==
    {t \in Tokens : /\ sessions[t] # None /\ sessions[t].admin = e
                    /\ sessions[t].expires <= time + TTL}

\* The rows DeleteExpired(admin, now) selects.
Expired(e, time) ==
    {t \in Tokens : /\ sessions[t] # None /\ sessions[t].admin = e
                    /\ sessions[t].expires <= time}

Without(gone) == [t \in Tokens |-> IF t \in gone THEN None ELSE sessions[t]]

Prune(s) ==
    /\ pc[s] = "prune"
    /\ sessions' = Without(Expired(req[s].admin, req[s].clock))
    /\ Goto(s, "save")
    /\ UNCHANGED <<hash, issued, now, req, history>>

\* newToken and the INSERT; the expiry counts from the clock read before.
SaveSession(s) ==
    /\ pc[s] = "save"
    /\ \E t \in Tokens \ issued :
         /\ sessions' = [sessions EXCEPT ![t] =
              [admin |-> req[s].admin, expires |-> req[s].clock + TTL,
               saved |-> now, gen |-> req[s].gen]]
         /\ issued' = issued \cup {t}
         /\ late' = IF s \in late THEN (late \ {s}) \cup {t} ELSE late
    /\ Finish(s)
    /\ UNCHANGED <<hash, now, gen, ended, loggedOut>>

-----------------------------------------------------------------------------
(* RequireAdmin, and the requests behind it                                *)

BeginCall(s) ==
    \E op \in {"call", "logout"}, t \in issued :
      Start(s, "clock", op, None, None, t, None)

\* Mutant: a session still works at the instant it expires.
Valid_AtExpiry(t, time) == sessions[t] # None /\ sessions[t].expires >= time

\* The row AdminByToken(token, now) selects exists.
Valid(t, time) == sessions[t] # None /\ sessions[t].expires > time

Authenticate(s) ==
    /\ pc[s] = "query"
    /\ \/ ~ Valid(req[s].token, req[s].clock) /\ Finish(s) /\ UNCHANGED sessions
       \/ /\ Valid(req[s].token, req[s].clock)
          /\ req' = [req EXCEPT ![s].admin = sessions[req[s].token].admin]
          /\ Goto(s, IF req[s].op = "logout" THEN "delete" ELSE "handle")
          /\ UNCHANGED sessions
    /\ UNCHANGED <<hash, issued, now, history>>

\* The handler runs as the admin found, whatever happens to the session.
Handle(s) ==
    /\ pc[s] = "handle"
    /\ Finish(s)
    /\ UNCHANGED <<hash, sessions, issued, now, history>>

\* Mutant: every error of the DELETE, not only a missing row, is swallowed.
EndSession_AnyError(s) ==
    /\ pc[s] = "delete"
    /\ sessions' \in {sessions, Without({req[s].token})}
    /\ loggedOut' = loggedOut \cup {req[s].token}
    /\ Finish(s)
    /\ UNCHANGED <<hash, issued, now, gen, ended, late>>

\* DELETE by token, answered with success if the row was already gone too.
EndSession(s) ==
    /\ pc[s] = "delete"
    /\ sessions' = Without({req[s].token})
    /\ loggedOut' = loggedOut \cup {req[s].token}
    /\ Finish(s)
    /\ UNCHANGED <<hash, issued, now, gen, ended, late>>

-----------------------------------------------------------------------------
(* admin passwd                                                            *)

\* ByEmail, after validHash.
BeginPasswd(s) ==
    \E i \in EmailInputs, p \in Passwords :
      LET e == NormalizeEmail[i] IN
        /\ hash[e] # None
        /\ gen[e] + Cardinality({q \in Busy("passwd") : pc[q] = "hash"}) < MaxResets
        /\ Start(s, "hash", "passwd", e, p, None, None)

\* UPDATE admins SET password_hash
SaveHash(s) ==
    /\ pc[s] = "hash"
    /\ LET e == req[s].admin IN
         /\ hash' = [hash EXCEPT ![e] = req[s].password]
         /\ gen' = [gen EXCEPT ![e] = @ + 1]
         /\ req' = [req EXCEPT ![s].gen = gen[e] + 1]
    /\ Goto(s, "revoke")
    /\ UNCHANGED <<sessions, issued, now, ended, late, loggedOut>>

\* Mutant: DeleteExpired is called in place of DeleteForAdmin.
SessionsOf_Expired(e) ==
    {t \in Tokens : /\ sessions[t] # None /\ sessions[t].admin = e
                    /\ sessions[t].expires <= now}

\* The rows DeleteForAdmin(admin) selects.
SessionsOf(e) == {t \in Tokens : sessions[t] # None /\ sessions[t].admin = e}

\* History: logins that verified a password from before change g and have
\* not inserted their session yet.
InFlight(e, g) ==
    {q \in Busy("login") : req[q].admin = e /\ req[q].gen < g}

\* DELETE FROM admin_sessions; the command then reports success.
Revoke(s) ==
    /\ pc[s] = "revoke"
    /\ LET e == req[s].admin
           g == req[s].gen
       IN  /\ sessions' = Without(SessionsOf(e))
           /\ ended' = [ended EXCEPT ![e] = IF g > @ THEN g ELSE @]
           /\ late' = late \cup InFlight(e, g)
    /\ Finish(s)
    /\ UNCHANGED <<hash, issued, now, gen, loggedOut>>

-----------------------------------------------------------------------------
(* admin create                                                            *)

\* Mutant: the email is stored as typed.
BeginCreate_AsTyped(s) ==
    \E i \in EmailInputs, p \in Passwords :
      Start(s, "register", "create", i, p, None, None)

\* validateEmail and validHash.
BeginCreate(s) ==
    \E i \in EmailInputs, p \in Passwords :
      Start(s, "register", "create", NormalizeEmail[i], p, None, None)

\* Mutant: INSERT ... ON CONFLICT DO UPDATE.
Register_Upsert(s) ==
    /\ pc[s] = "register"
    /\ hash' = [hash EXCEPT ![req[s].admin] = req[s].password]
    /\ Goto(s, "confirm")
    /\ UNCHANGED <<sessions, issued, now, req, history>>

\* INSERT INTO admins; the unique index refuses a second account.
Register(s) ==
    /\ pc[s] = "register"
    /\ \/ hash[req[s].admin] # None /\ Finish(s) /\ UNCHANGED hash
       \/ /\ hash[req[s].admin] = None
          /\ hash' = [hash EXCEPT ![req[s].admin] = req[s].password]
          /\ Goto(s, "confirm")
          /\ UNCHANGED req
    /\ UNCHANGED <<sessions, issued, now, history>>

\* ByEmail, which finds the new row; the command reports success.
Confirm(s) ==
    /\ pc[s] = "confirm"
    /\ Finish(s)
    /\ UNCHANGED <<hash, sessions, issued, now, history>>

-----------------------------------------------------------------------------
Step(s) ==
    \/ ReadClock(s) \/ Prune(s) \/ SaveSession(s) \/ Authenticate(s)
    \/ Handle(s) \/ EndSession(s) \/ SaveHash(s) \/ Revoke(s)
    \/ Register(s) \/ Confirm(s)

Begin(s) ==
    BeginLogin(s) \/ BeginCall(s) \/ BeginPasswd(s) \/ BeginCreate(s)

Next == Tick \/ \E s \in Slots : Begin(s) \/ Step(s) \/ Fail(s)

Spec == Init /\ [][Next]_vars

-----------------------------------------------------------------------------
(* Properties.                                                             *)

\* After `admin passwd` has reported success, a session that rests on an
\* older password exists only if its login had checked that password before
\* the sessions were deleted and inserted its own row after that.
OnlyLateLoginsSurvive ==
    \A t \in Tokens :
      sessions[t] # None /\ sessions[t].gen < ended[sessions[t].admin] => t \in late

\* A token that logout answered with success never works again, also when
\* its session had expired, was pruned or was logged out twice meanwhile.
LogoutHolds ==
    \A t \in loggedOut : sessions[t] = None

\* A session that still works is only ever deleted by its own logout or by
\* a password change of its own admin: the pruning of a login, with a clock
\* read earlier, takes expired rows alone.
LiveSessionsKept ==
    [][\A t \in Tokens :
         sessions[t] # None /\ sessions[t].expires > now /\ sessions'[t] = None =>
           \E s \in Slots :
             \/ pc[s] = "delete" /\ req[s].token = t
             \/ pc[s] = "revoke" /\ req[s].admin = sessions[t].admin]_vars

\* Once TTL has passed since its insertion, a session lets in only requests
\* that had arrived before, however old the clock is that AdminByToken compares
\* with its expiry (auth.go:157), and however late after reading its own clock
\* the login inserted it (auth.go:136, 145).
SessionsLastTTL ==
    [][\A s \in Slots :
         pc[s] = "query" /\ pc'[s] \in {"handle", "delete"} =>
           LET end == sessions[req[s].token].saved + TTL
           IN  now >= end => req[s].since < end]_vars

\* Only passwd changes the password of an account: of two racing creates of
\* one email, the second is refused and leaves the first one's password.
PasswordsKept ==
    [][\A e \in Emails :
         hash[e] # None /\ hash'[e] # hash[e] =>
           \E s \in Slots : pc[s] = "hash" /\ req[s].admin = e]_vars

\* README.md:73: passwd sets a "new password; logs out every session".
ResetEndsSessions ==
    \A t \in Tokens :
      sessions[t] # None => sessions[t].gen >= ended[sessions[t].admin]
=============================================================================
