-------------------------- MODULE AdminAuthProofs --------------------------
(***************************************************************************)
(* Theorems about AdminAuth, for any number of accounts, sessions and      *)
(* concurrent requests, any time to live and any bounds.                   *)
(***************************************************************************)
EXTENDS AdminAuth, FiniteSetTheorems, TLAPS

USE DEF Emails, Times, Resets

\* The password changes of e that have not reached the account yet.
Hashing(e) == {s \in Slots : pc[s] = "hash" /\ req[s].admin = e}

\* A login that has verified its password and not inserted its session.
Verified(s) == pc[s] # "idle" /\ req[s].op = "login"

\* What a slot was sent and has read fits the statement it runs next.
SlotsInv ==
    \A s \in Slots :
      /\ pc[s] = "idle" <=> req[s] = None
      /\ pc[s] \in {"prune", "save"} => req[s].op = "login" /\ req[s].clock \in 0..now
      /\ pc[s] = "clock" => req[s].op \in {"login", "call", "logout"}
      /\ pc[s] = "clock" /\ req[s].op # "login" => req[s].since \in 0..now
      /\ pc[s] = "query" =>
           /\ req[s].op \in {"call", "logout"}
           /\ req[s].clock \in 0..now /\ req[s].since \in 0..req[s].clock
      /\ pc[s] = "delete" => req[s].op = "logout"
      /\ pc[s] \in {"hash", "revoke"} => req[s].op = "passwd"
      /\ pc[s] = "hash" => req[s].password \in Passwords
      /\ pc[s] = "revoke" => req[s].gen \in 0..gen[req[s].admin]
      /\ pc[s] = "register" => req[s].op = "create" /\ req[s].password \in Passwords
      /\ pc[s] # "idle" =>
           /\ req[s].op \in {"login", "passwd", "create"} => req[s].admin \in Emails
           /\ req[s].op = "login" => req[s].gen \in Resets
           /\ req[s].op \in {"call", "logout"} => req[s].token \in issued

\* Sessions expire no later than TTL after they were saved; a token that was
\* logged out is never drawn again.
SessionsInv ==
    /\ \A t \in Tokens : sessions[t] # None => sessions[t].expires <= sessions[t].saved + TTL
    /\ loggedOut \subseteq issued
    /\ LogoutHolds

\* The password changes stay within their bound, and what rests on an older
\* password than passwd has reported is late, in the table or on its way.
ResetsInv ==
    /\ \A e \in Emails : gen[e] + Cardinality(Hashing(e)) <= MaxResets
    /\ \A e \in EmailInputs : ended[e] <= gen[e]
    /\ \A s \in Slots : Verified(s) /\ req[s].gen < ended[req[s].admin] => s \in late
    /\ OnlyLateLoginsSurvive

\* The inductive invariant.
Inv == TypeOK /\ SlotsInv /\ SessionsInv /\ ResetsInv

-----------------------------------------------------------------------------
(* Facts about the constants, the bound and the requests.                  *)

LEMMA Constants ==
    /\ TTL \in Nat \ {0} /\ MaxClock \in Nat /\ MaxResets \in Nat
    /\ Emails \subseteq EmailInputs
    /\ \A e \in EmailInputs : NormalizeEmail[e] \in Emails
    /\ IsFiniteSet(Slots) /\ Slots \cap Tokens = {}
    /\ None \notin Request /\ None \notin Session /\ None \notin Tokens
BY NormalizeAssumption, BoundAssumption, SlotAssumption, RecordAssumption

\* The slots that are about to change a password are finitely many.
LEMMA HashingFinite ==
    ASSUME NEW e
    PROVE  IsFiniteSet(Hashing(e)) /\ Cardinality(Hashing(e)) \in Nat
BY Constants, FS_Subset, FS_CardinalityType DEF Hashing

\* A set with at most one more element has at most one more.
LEMMA OneMore ==
    ASSUME NEW S, NEW T, NEW x, IsFiniteSet(S), T \subseteq S \cup {x}
    PROVE  Cardinality(T) \in Nat /\ Cardinality(T) <= Cardinality(S) + 1
<1>1. /\ IsFiniteSet(S \cup {x})
      /\ Cardinality(S \cup {x}) = IF x \in S THEN Cardinality(S) ELSE Cardinality(S) + 1
  BY FS_AddElement
<1>2. Cardinality(S) \in Nat /\ Cardinality(S \cup {x}) \in Nat
  BY <1>1, FS_CardinalityType
<1>3. Cardinality(T) <= Cardinality(S \cup {x}) /\ Cardinality(T) \in Nat
  BY <1>1, FS_Subset, FS_CardinalityType
<1> QED BY <1>1, <1>2, <1>3

\* The bound of an account whose changes do not become more.
LEMMA BoundKept ==
    ASSUME Inv, NEW e \in Emails, Hashing(e)' \subseteq Hashing(e), gen'[e] = gen[e]
    PROVE  gen'[e] + Cardinality(Hashing(e)') <= MaxResets
<1>1. IsFiniteSet(Hashing(e)) /\ Cardinality(Hashing(e)) \in Nat
  BY HashingFinite
<1>2. Cardinality(Hashing(e)') <= Cardinality(Hashing(e)) /\ Cardinality(Hashing(e)') \in Nat
  BY <1>1, FS_Subset, FS_CardinalityType
<1>3. gen[e] \in Nat /\ gen[e] + Cardinality(Hashing(e)) <= MaxResets
  BY Constants DEF Inv, TypeOK, ResetsInv
<1> QED BY <1>1, <1>2, <1>3, Constants

LEMMA InitInv == Init => Inv
<1> SUFFICES ASSUME Init PROVE Inv
  OBVIOUS
<1>1. TypeOK
  BY Constants DEF Init, TypeOK, Statements
<1>2. SlotsInv
  BY DEF Init, SlotsInv
<1>3. SessionsInv
  BY DEF Init, SessionsInv, LogoutHolds
<1>4. \A e \in Emails : gen[e] + Cardinality(Hashing(e)) <= MaxResets
  <2> TAKE e \in Emails
  <2>1. Hashing(e) = {}
    BY DEF Init, Hashing
  <2> QED BY <2>1, FS_EmptySet, Constants DEF Init
<1>5. ResetsInv
  BY <1>4 DEF Init, ResetsInv, Verified, OnlyLateLoginsSurvive
<1> QED BY <1>1, <1>2, <1>3, <1>5 DEF Inv

-----------------------------------------------------------------------------
(* Ends of requests.                                                       *)

\* A slot that ends while neither accounts nor resets change.
LEMMA FinishResets ==
    ASSUME Inv, NEW s \in Slots, Finish(s), UNCHANGED <<gen, ended>>,
           late \ {s} \subseteq late', OnlyLateLoginsSurvive'
    PROVE  ResetsInv'
<1>1. pc' = [pc EXCEPT ![s] = "idle"] /\ req' = [req EXCEPT ![s] = None]
  BY DEF Finish, Goto
<1>2. \A e \in Emails : Hashing(e)' \subseteq Hashing(e)
  BY <1>1 DEF Hashing, Inv, TypeOK
<1>3. \A e \in Emails : gen'[e] + Cardinality(Hashing(e)') <= MaxResets
  BY <1>2, BoundKept
<1>4. \A q \in Slots : Verified(q)' /\ req'[q].gen < ended'[req'[q].admin] => q \in late'
  BY <1>1 DEF Inv, TypeOK, ResetsInv, Verified
<1>5. \A e \in EmailInputs : ended'[e] <= gen'[e]
  BY DEF Inv, ResetsInv
<1> QED BY <1>3, <1>4, <1>5 DEF ResetsInv

\* The facts about slots, when one of them ends.
LEMMA FinishSlots ==
    ASSUME Inv, NEW s \in Slots, Finish(s), UNCHANGED <<now, gen>>, issued \subseteq issued'
    PROVE  SlotsInv'
BY DEF Inv, TypeOK, SlotsInv, Finish, Goto

LEMMA FailInv == ASSUME Inv, NEW s \in Slots, Fail(s) PROVE Inv'
<1>1. /\ Finish(s) /\ late' = late \ {s}
      /\ UNCHANGED <<hash, sessions, issued, now, gen, ended, loggedOut>>
  BY DEF Fail
<1>2. TypeOK'
  BY <1>1 DEF Inv, TypeOK, Finish, Goto, Statements
<1>3. SlotsInv'
  BY <1>1, FinishSlots
<1>4. SessionsInv'
  BY <1>1 DEF Inv, SessionsInv, LogoutHolds
<1>5. OnlyLateLoginsSurvive'
  BY <1>1, Constants DEF Inv, ResetsInv, OnlyLateLoginsSurvive
<1>6. ResetsInv'
  BY <1>1, <1>5, FinishResets
<1> QED BY <1>2, <1>3, <1>4, <1>6 DEF Inv

LEMMA TickInv == ASSUME Inv, Tick PROVE Inv'
<1>1. now \in Nat /\ now' = now + 1 /\ now' \in Times
  BY Constants DEF Tick, Inv, TypeOK
<1>2. TypeOK'
  BY <1>1 DEF Tick, Inv, TypeOK, history
<1>3. SlotsInv'
  <2>1. 0..now \subseteq 0..now'
    BY <1>1
  <2> QED BY <2>1 DEF Tick, Inv, SlotsInv, history
<1>4. SessionsInv'
  BY DEF Tick, Inv, SessionsInv, LogoutHolds, history
<1>5. ResetsInv'
  BY DEF Tick, Inv, ResetsInv, Hashing, Verified, OnlyLateLoginsSurvive, history
<1> QED BY <1>2, <1>3, <1>4, <1>5 DEF Inv

-----------------------------------------------------------------------------
(* Starts of requests.                                                     *)

\* A slot that starts with what its first statement relies on.
LEMMA StartInv ==
    ASSUME Inv, NEW s \in Slots, NEW step, NEW op, NEW e, NEW p, NEW t, NEW g,
           Start(s, step, op, e, p, t, g),
           \/ /\ step = "clock" /\ op = "login"
              /\ e \in Emails /\ p = None /\ t = None /\ g = gen[e]
           \/ /\ step = "clock" /\ op \in {"call", "logout"}
              /\ e = None /\ p = None /\ t \in issued /\ g = None
           \/ /\ step = "hash" /\ op = "passwd"
              /\ e \in Emails /\ p \in Passwords /\ t = None /\ g = None
              /\ gen[e] + Cardinality(Hashing(e)) < MaxResets
           \/ /\ step = "register" /\ op = "create"
              /\ e \in Emails /\ p \in Passwords /\ t = None /\ g = None
    PROVE  Inv'
<1> DEFINE q == [op |-> op, admin |-> e, password |-> p, token |-> t,
                 clock |-> None, gen |-> g, since |-> IF t = None THEN None ELSE now]
<1>1. /\ pc[s] = "idle"
      /\ req' = [req EXCEPT ![s] = q] /\ pc' = [pc EXCEPT ![s] = step]
      /\ UNCHANGED <<hash, sessions, issued, now, gen, ended, late, loggedOut>>
  BY DEF Start, history
<1>2. q \in Request /\ q # None /\ step \in Statements
  <2>1. q \in Request
    BY Constants DEF Request, Inv, TypeOK
  <2> QED BY <2>1, Constants DEF Statements
<1> HIDE DEF q
<1>3. /\ q.op = op /\ q.admin = e /\ q.password = p /\ q.token = t /\ q.gen = g
      /\ op \in {"call", "logout"} => q.since = now /\ now \in 0..now
  BY Constants DEF q, Inv, TypeOK
<1>4. TypeOK'
  BY <1>1, <1>2 DEF Inv, TypeOK
<1>5. SlotsInv'
  BY <1>1, <1>2, <1>3, Constants DEF Inv, TypeOK, SlotsInv
<1>6. SessionsInv'
  BY <1>1 DEF Inv, SessionsInv, LogoutHolds
<1>7. ASSUME NEW f \in Emails
      PROVE  gen'[f] + Cardinality(Hashing(f)') <= MaxResets
  <2>1. CASE ~ (step = "hash" /\ f = e)
    <3>1. Hashing(f)' \subseteq Hashing(f)
      BY <1>1, <1>3, <2>1 DEF Hashing, Inv, TypeOK
    <3> QED BY <1>1, <3>1, BoundKept
  <2>2. CASE step = "hash" /\ f = e
    <3>1. Hashing(e)' \subseteq Hashing(e) \cup {s}
      BY <1>1 DEF Hashing, Inv, TypeOK
    <3>2. IsFiniteSet(Hashing(e)) /\ Cardinality(Hashing(e)) \in Nat
      BY HashingFinite
    <3>3. /\ Cardinality(Hashing(e)') <= Cardinality(Hashing(e)) + 1
          /\ Cardinality(Hashing(e)') \in Nat
      BY <3>1, <3>2, OneMore
    <3>5. gen'[f] = gen[e] /\ gen[e] \in Nat
      BY <1>1, <2>2, Constants DEF Inv, TypeOK
    <3>6. gen[e] + Cardinality(Hashing(e)) < MaxResets
      BY <2>2
    <3> QED BY <2>2, <3>2, <3>3, <3>5, <3>6, Constants
  <2> QED BY <2>1, <2>2
<1>8. ResetsInv'
  <2>1. \A r \in Slots : Verified(r)' /\ req'[r].gen < ended'[req'[r].admin] => r \in late'
    <3> SUFFICES ASSUME NEW r \in Slots, Verified(r)', req'[r].gen < ended'[req'[r].admin]
                 PROVE  r \in late'
      OBVIOUS
    <3>1. CASE r = s
      <4>1. op = "login" /\ g = gen[e] /\ e \in Emails
        BY <1>1, <1>3, <3>1 DEF Verified, Inv, TypeOK
      <4>2. ended[e] <= gen[e] /\ gen[e] \in Nat /\ ended[e] \in Nat
        BY <4>1, Constants DEF Inv, TypeOK, ResetsInv
      <4>3. gen[e] < ended[e]
        BY <1>1, <1>3, <3>1, <4>1 DEF Inv, TypeOK
      <4> QED BY <4>2, <4>3
    <3>2. CASE r # s
      BY <1>1, <3>2 DEF Verified, Inv, TypeOK, ResetsInv
    <3> QED BY <3>1, <3>2
  <2>2. OnlyLateLoginsSurvive'
    BY <1>1 DEF Inv, ResetsInv, OnlyLateLoginsSurvive
  <2>3. \A f \in EmailInputs : ended'[f] <= gen'[f]
    BY <1>1 DEF Inv, ResetsInv
  <2> QED BY <1>7, <2>1, <2>2, <2>3 DEF ResetsInv
<1> QED BY <1>4, <1>5, <1>6, <1>8 DEF Inv

LEMMA BeginInv == ASSUME Inv, NEW s \in Slots, Begin(s) PROVE Inv'
<1>1. CASE BeginLogin(s)
  <2>1. PICK i \in EmailInputs :
          Start(s, "clock", "login", NormalizeEmail[i], None, None, gen[NormalizeEmail[i]])
    BY <1>1 DEF BeginLogin
  <2> QED BY <2>1, StartInv, Constants
<1>2. CASE BeginCall(s)
  <2>1. PICK op \in {"call", "logout"}, t \in issued :
          Start(s, "clock", op, None, None, t, None)
    BY <1>2 DEF BeginCall
  <2> QED BY <2>1, StartInv
<1>3. CASE BeginPasswd(s)
  <2> DEFINE changing == {q \in Busy("passwd") : pc[q] = "hash"}
  <2>1. PICK i \in EmailInputs, p \in Passwords :
          /\ gen[NormalizeEmail[i]] + Cardinality(changing) < MaxResets
          /\ Start(s, "hash", "passwd", NormalizeEmail[i], p, None, None)
    BY <1>3 DEF BeginPasswd
  <2> DEFINE e == NormalizeEmail[i]
  <2>2. e \in Emails /\ gen[e] \in Nat
    BY Constants DEF Inv, TypeOK
  <2>3. Hashing(e) \subseteq changing /\ IsFiniteSet(changing)
    <3>1. Hashing(e) \subseteq changing
      BY DEF Hashing, Busy, Inv, SlotsInv
    <3>2. changing \subseteq Slots
      BY DEF Busy
    <3> QED BY <3>1, <3>2, Constants, FS_Subset
  <2>4. /\ Cardinality(Hashing(e)) <= Cardinality(changing)
        /\ Cardinality(Hashing(e)) \in Nat /\ Cardinality(changing) \in Nat
    BY <2>3, FS_Subset, FS_CardinalityType
  <2>5. gen[e] + Cardinality(Hashing(e)) < MaxResets
    BY <2>1, <2>2, <2>4, Constants
  <2> HIDE DEF e
  <2>6. Start(s, "hash", "passwd", e, p, None, None)
    BY <2>1 DEF e
  <2> QED BY <2>2, <2>5, <2>6, StartInv
<1>4. CASE BeginCreate(s)
  <2>1. PICK i \in EmailInputs, p \in Passwords :
          Start(s, "register", "create", NormalizeEmail[i], p, None, None)
    BY <1>4 DEF BeginCreate
  <2> QED BY <2>1, StartInv, Constants
<1> QED BY <1>1, <1>2, <1>3, <1>4 DEF Begin

-----------------------------------------------------------------------------
(* Steps of requests.                                                      *)

LEMMA ReadClockInv == ASSUME Inv, NEW s \in Slots, ReadClock(s) PROVE Inv'
<1> DEFINE step == IF req[s].op = "login" THEN "prune" ELSE "query"
<1>1. /\ pc[s] = "clock" /\ pc' = [pc EXCEPT ![s] = step]
      /\ req' = [req EXCEPT ![s].clock = now]
      /\ UNCHANGED <<hash, sessions, issued, now, gen, ended, late, loggedOut>>
  BY DEF ReadClock, Goto, history
<1>2. req[s] \in Request /\ req[s].op \in {"login", "call", "logout"} /\ req[s] # None
  BY <1>1 DEF Inv, TypeOK, SlotsInv
<1>3. now \in 0..now /\ now \in Times
  BY Constants DEF Inv, TypeOK
<1>4. [req[s] EXCEPT !.clock = now] \in Request
  BY <1>2, <1>3 DEF Request
<1>5. TypeOK'
  BY <1>1, <1>2, <1>4 DEF Inv, TypeOK, Statements
<1>6. SlotsInv'
  BY <1>1, <1>2, <1>3, <1>4, Constants DEF Inv, TypeOK, SlotsInv, Request
<1>7. SessionsInv'
  BY <1>1 DEF Inv, SessionsInv, LogoutHolds
<1>8. ASSUME NEW f \in Emails
      PROVE  gen'[f] + Cardinality(Hashing(f)') <= MaxResets
  <2>1. Hashing(f)' \subseteq Hashing(f)
    BY <1>1, <1>2 DEF Hashing, Inv, TypeOK, Request
  <2> QED BY <1>1, <2>1, BoundKept
<1>9. \A r \in Slots : Verified(r)' /\ req'[r].gen < ended'[req'[r].admin] => r \in late'
  BY <1>1, <1>2 DEF Verified, Inv, TypeOK, ResetsInv, Request
<1>10. ResetsInv'
  BY <1>1, <1>8, <1>9 DEF Inv, ResetsInv, OnlyLateLoginsSurvive
<1> QED BY <1>5, <1>6, <1>7, <1>10 DEF Inv

\* Rows that are deleted from the table.
LEMMA WithoutFacts ==
    ASSUME Inv, NEW gone, sessions' = Without(gone)
    PROVE  /\ sessions' \in [Tokens -> Session \cup {None}]
           /\ \A t \in Tokens : sessions'[t] # None => sessions'[t] = sessions[t] /\ t \notin gone
           /\ \A t \in Tokens : sessions[t] = None => sessions'[t] = None
BY DEF Without, Inv, TypeOK

\* The facts about slots when one goes on with nothing new in hand.
LEMMA GotoSlots ==
    ASSUME Inv, NEW s \in Slots, NEW step,
           pc' = [pc EXCEPT ![s] = step], UNCHANGED <<req, now, gen, issued>>,
           pc[s] # "idle",
           \/ pc[s] = "prune" /\ step = "save"
           \/ pc[s] = "register" /\ step = "confirm"
    PROVE  SlotsInv'
BY DEF Inv, TypeOK, SlotsInv

\* The facts about resets under the same condition.
LEMMA GotoResets ==
    ASSUME Inv, NEW s \in Slots, NEW step,
           pc' = [pc EXCEPT ![s] = step], UNCHANGED <<req, gen, ended, late>>,
           step \in {"save", "confirm"}, pc[s] # "idle", OnlyLateLoginsSurvive'
    PROVE  ResetsInv'
<1>1. ASSUME NEW f \in Emails
      PROVE  gen'[f] + Cardinality(Hashing(f)') <= MaxResets
  <2>1. Hashing(f)' \subseteq Hashing(f)
    BY DEF Hashing, Inv, TypeOK
  <2> QED BY <2>1, BoundKept
<1>2. \A r \in Slots : Verified(r)' => Verified(r)
  BY DEF Verified, Inv, TypeOK
<1> QED BY <1>1, <1>2 DEF Inv, ResetsInv

LEMMA PruneInv == ASSUME Inv, NEW s \in Slots, Prune(s) PROVE Inv'
<1> DEFINE gone == Expired(req[s].admin, req[s].clock)
<1> HIDE DEF gone
<1>1. /\ pc[s] = "prune" /\ pc' = [pc EXCEPT ![s] = "save"]
      /\ sessions' = Without(gone)
      /\ UNCHANGED <<hash, issued, now, req, gen, ended, late, loggedOut>>
  BY DEF Prune, Goto, history, gone
<1>2. TypeOK'
  BY <1>1, WithoutFacts DEF Inv, TypeOK, Statements
<1>3. SlotsInv'
  BY <1>1, GotoSlots
<1>4. SessionsInv'
  BY <1>1, WithoutFacts DEF Inv, SessionsInv, LogoutHolds, TypeOK
<1>5. OnlyLateLoginsSurvive'
  BY <1>1, WithoutFacts DEF Inv, ResetsInv, OnlyLateLoginsSurvive
<1>6. ResetsInv'
  BY <1>1, <1>5, GotoResets
<1> QED BY <1>2, <1>3, <1>4, <1>6 DEF Inv

LEMMA SaveSessionInv == ASSUME Inv, NEW s \in Slots, SaveSession(s) PROVE Inv'
<1> DEFINE row == [admin |-> req[s].admin, expires |-> req[s].clock + TTL,
                   saved |-> now, gen |-> req[s].gen]
<1>1. PICK t \in Tokens \ issued :
        /\ sessions' = [sessions EXCEPT ![t] = row]
        /\ issued' = issued \cup {t}
        /\ late' = IF s \in late THEN (late \ {s}) \cup {t} ELSE late
  BY DEF SaveSession
<1>2. /\ pc[s] = "save" /\ Finish(s)
      /\ UNCHANGED <<hash, now, gen, ended, loggedOut>>
  BY DEF SaveSession
<1>3. /\ req[s].op = "login" /\ req[s].admin \in Emails /\ req[s].gen \in Resets
      /\ req[s].clock \in 0..now /\ now \in Times
  BY <1>2 DEF Inv, TypeOK, SlotsInv
<1>4. row \in Session /\ row.expires <= row.saved + TTL
  BY <1>3, Constants DEF Session
<1> HIDE DEF row
<1>5. row.admin = req[s].admin /\ row.gen = req[s].gen
  BY DEF row
<1>6. TypeOK'
  BY <1>1, <1>2, <1>4 DEF Inv, TypeOK, Finish, Goto, Statements
<1>7. SlotsInv'
  BY <1>1, <1>2, FinishSlots
<1>8. SessionsInv'
  BY <1>1, <1>2, <1>4 DEF Inv, TypeOK, SessionsInv, LogoutHolds
<1>9. OnlyLateLoginsSurvive'
  <2> SUFFICES ASSUME NEW u \in Tokens, sessions'[u] # None,
                      sessions'[u].gen < ended'[sessions'[u].admin]
               PROVE  u \in late'
    BY DEF OnlyLateLoginsSurvive
  <2>1. CASE u = t
    <3>1. req[s].gen < ended[req[s].admin]
      BY <1>1, <1>2, <1>5, <2>1 DEF Inv, TypeOK
    <3>2. s \in late
      BY <1>2, <1>3, <3>1 DEF Inv, ResetsInv, Verified
    <3> QED BY <1>1, <2>1, <3>2
  <2>2. CASE u # t
    <3>1. u \in late
      BY <1>1, <1>2, <2>2 DEF Inv, TypeOK, ResetsInv, OnlyLateLoginsSurvive
    <3> QED BY <1>1, <3>1, Constants
  <2> QED BY <2>1, <2>2
<1>10. ResetsInv'
  BY <1>1, <1>2, <1>9, FinishResets
<1> QED BY <1>6, <1>7, <1>8, <1>10 DEF Inv

\* A request that ends without having changed the tables.
LEMMA EndInv ==
    ASSUME Inv, NEW s \in Slots, Finish(s),
           UNCHANGED <<hash, sessions, issued, now, history>>
    PROVE  Inv'
<1>1. UNCHANGED <<gen, ended, late, loggedOut>>
  BY DEF history
<1>2. TypeOK'
  BY <1>1 DEF Inv, TypeOK, Finish, Goto, Statements
<1>3. SlotsInv'
  BY <1>1, FinishSlots
<1>4. SessionsInv'
  BY <1>1 DEF Inv, SessionsInv, LogoutHolds
<1>5. OnlyLateLoginsSurvive'
  BY <1>1 DEF Inv, ResetsInv, OnlyLateLoginsSurvive
<1>6. ResetsInv'
  BY <1>1, <1>5, FinishResets
<1> QED BY <1>2, <1>3, <1>4, <1>6 DEF Inv

LEMMA AuthenticateInv == ASSUME Inv, NEW s \in Slots, Authenticate(s) PROVE Inv'
<1>1. CASE Finish(s)
  BY <1>1, EndInv DEF Authenticate
<1>2. CASE ~ Finish(s)
  <2> DEFINE admin == sessions[req[s].token].admin
             step == IF req[s].op = "logout" THEN "delete" ELSE "handle"
  <2>1. /\ pc[s] = "query" /\ Valid(req[s].token, req[s].clock)
        /\ req' = [req EXCEPT ![s].admin = admin] /\ pc' = [pc EXCEPT ![s] = step]
        /\ UNCHANGED <<hash, sessions, issued, now, gen, ended, late, loggedOut>>
    BY <1>2 DEF Authenticate, Goto, history
  <2>2. /\ req[s] \in Request /\ req[s] # None /\ req[s].op \in {"call", "logout"}
        /\ req[s].token \in Tokens /\ req[s].token \in issued
    BY <2>1 DEF Inv, TypeOK, SlotsInv
  <2>3. admin \in Emails
    BY <2>1, <2>2 DEF Valid, Inv, TypeOK, Session
  <2> HIDE DEF admin
  <2>4. [req[s] EXCEPT !.admin = admin] \in Request
    BY <2>2, <2>3 DEF Request
  <2>5. TypeOK'
    BY <2>1, <2>2, <2>4 DEF Inv, TypeOK, Statements
  <2>6. SlotsInv'
    BY <2>1, <2>2, <2>4, Constants DEF Inv, TypeOK, SlotsInv, Request
  <2>7. SessionsInv'
    BY <2>1 DEF Inv, SessionsInv, LogoutHolds
  <2>8. ASSUME NEW f \in Emails
        PROVE  gen'[f] + Cardinality(Hashing(f)') <= MaxResets
    <3>1. Hashing(f)' \subseteq Hashing(f)
      BY <2>1, <2>2 DEF Hashing, Inv, TypeOK
    <3> QED BY <2>1, <3>1, BoundKept
  <2>9. \A r \in Slots : Verified(r)' /\ req'[r].gen < ended'[req'[r].admin] => r \in late'
    BY <2>1, <2>2 DEF Verified, Inv, TypeOK, ResetsInv, Request
  <2>10. ResetsInv'
    BY <2>1, <2>8, <2>9 DEF Inv, ResetsInv, OnlyLateLoginsSurvive
  <2> QED BY <2>5, <2>6, <2>7, <2>10 DEF Inv
<1> QED BY <1>1, <1>2

LEMMA EndSessionInv == ASSUME Inv, NEW s \in Slots, EndSession(s) PROVE Inv'
<1>1. /\ pc[s] = "delete" /\ sessions' = Without({req[s].token})
      /\ loggedOut' = loggedOut \cup {req[s].token} /\ Finish(s)
      /\ UNCHANGED <<hash, issued, now, gen, ended, late>>
  BY DEF EndSession
<1>2. req[s].token \in issued /\ req[s].token \in Tokens
  BY <1>1 DEF Inv, TypeOK, SlotsInv
<1>3. TypeOK'
  BY <1>1, <1>2, WithoutFacts DEF Inv, TypeOK, Finish, Goto, Statements
<1>4. SlotsInv'
  BY <1>1, FinishSlots
<1>5. SessionsInv'
  BY <1>1, <1>2, WithoutFacts DEF Inv, SessionsInv, LogoutHolds, TypeOK
<1>6. OnlyLateLoginsSurvive'
  BY <1>1, WithoutFacts DEF Inv, ResetsInv, OnlyLateLoginsSurvive
<1>7. ResetsInv'
  BY <1>1, <1>6, FinishResets
<1> QED BY <1>3, <1>4, <1>5, <1>7 DEF Inv

LEMMA SaveHashInv == ASSUME Inv, NEW s \in Slots, SaveHash(s) PROVE Inv'
<1> DEFINE e == req[s].admin
<1>1. /\ pc[s] = "hash" /\ pc' = [pc EXCEPT ![s] = "revoke"]
      /\ hash' = [hash EXCEPT ![e] = req[s].password]
      /\ gen' = [gen EXCEPT ![e] = @ + 1]
      /\ req' = [req EXCEPT ![s].gen = gen[e] + 1]
      /\ UNCHANGED <<sessions, issued, now, ended, late, loggedOut>>
  BY DEF SaveHash, Goto
<1>2. /\ req[s] \in Request /\ req[s] # None /\ req[s].op = "passwd"
      /\ e \in Emails /\ e \in EmailInputs /\ req[s].password \in Passwords
  BY <1>1, Constants DEF Inv, TypeOK, SlotsInv
<1>3. gen[e] \in Nat /\ gen[e] + Cardinality(Hashing(e)) <= MaxResets
  BY <1>2, Constants DEF Inv, TypeOK, ResetsInv
<1>4. /\ IsFiniteSet(Hashing(e)) /\ s \in Hashing(e)
      /\ Cardinality(Hashing(e)) \in Nat
  BY <1>1, HashingFinite DEF Hashing
<1>5. /\ Cardinality(Hashing(e) \ {s}) = Cardinality(Hashing(e)) - 1
      /\ IsFiniteSet(Hashing(e) \ {s}) /\ Cardinality(Hashing(e) \ {s}) \in Nat
  BY <1>4, FS_RemoveElement, FS_CardinalityType
<1>6. gen[e] + 1 \in Resets
  BY <1>3, <1>4, <1>5, Constants
<1>7. [req[s] EXCEPT !.gen = gen[e] + 1] \in Request
  BY <1>2, <1>6 DEF Request
<1>8. TypeOK'
  BY <1>1, <1>2, <1>6, <1>7 DEF Inv, TypeOK, Statements
<1>9. /\ gen'[e] = gen[e] + 1
      /\ \A f \in EmailInputs : gen[f] \in Nat /\ gen'[f] \in Nat /\ gen[f] <= gen'[f]
  BY <1>1, <1>2, Constants DEF Inv, TypeOK
<1>10. SlotsInv'
  <2>1. ASSUME NEW r \in Slots, pc'[r] = "revoke"
        PROVE  req'[r].gen \in 0..gen'[req'[r].admin]
    <3>1. CASE r = s
      BY <1>1, <1>2, <1>3, <1>9, <3>1 DEF Inv, TypeOK, Request
    <3>2. CASE r # s
      <4>1. req'[r] = req[r] /\ req[r].gen \in 0..gen[req[r].admin]
        BY <1>1, <2>1, <3>2 DEF Inv, TypeOK, SlotsInv
      <4>2. req[r].admin \in EmailInputs
        BY <1>1, <2>1, <3>2, Constants DEF Inv, TypeOK, SlotsInv
      <4> QED BY <4>1, <4>2, <1>9
    <3> QED BY <3>1, <3>2
  <2> QED BY <1>1, <1>2, <1>7, <2>1, Constants DEF Inv, TypeOK, SlotsInv, Request
<1>11. SessionsInv'
  BY <1>1 DEF Inv, SessionsInv, LogoutHolds
<1>12. ASSUME NEW f \in Emails
       PROVE  gen'[f] + Cardinality(Hashing(f)') <= MaxResets
  <2>1. CASE f = e
    <3>1. Hashing(e)' \subseteq Hashing(e) \ {s}
      BY <1>1, <1>2 DEF Hashing, Inv, TypeOK
    <3>2. /\ Cardinality(Hashing(e)') <= Cardinality(Hashing(e) \ {s})
          /\ Cardinality(Hashing(e)') \in Nat
      BY <3>1, <1>5, FS_Subset, FS_CardinalityType
    <3>3. Cardinality(Hashing(f)') = Cardinality(Hashing(e)')
      <4>1. req'[s].admin = req[s].admin
        BY <1>1, <1>2 DEF Inv, TypeOK, Request
      <4> QED BY <2>1, <4>1 DEF Hashing
    <3> QED BY <1>3, <1>4, <1>5, <1>9, <2>1, <3>2, <3>3, Constants
  <2>2. CASE f # e
    <3>1. Hashing(f)' \subseteq Hashing(f)
      <4> SUFFICES ASSUME NEW q \in Slots, pc'[q] = "hash", req'[q].admin = f
                   PROVE  pc[q] = "hash" /\ req[q].admin = f
        BY DEF Hashing
      <4>1. q # s
        BY <1>1 DEF Inv, TypeOK
      <4> QED BY <1>1, <4>1 DEF Inv, TypeOK
    <3>2. gen'[f] = gen[f]
      BY <1>1, <2>2, Constants DEF Inv, TypeOK
    <3> QED BY <3>1, <3>2, BoundKept
  <2> QED BY <2>1, <2>2
<1>13. \A r \in Slots : Verified(r)' /\ req'[r].gen < ended'[req'[r].admin] => r \in late'
  BY <1>1, <1>2 DEF Verified, Inv, TypeOK, ResetsInv, Request
<1>14. \A f \in EmailInputs : ended'[f] <= gen'[f]
  BY <1>1, <1>9, Constants DEF Inv, TypeOK, ResetsInv
<1>15. OnlyLateLoginsSurvive'
  BY <1>1 DEF Inv, ResetsInv, OnlyLateLoginsSurvive
<1>16. ResetsInv'
  BY <1>12, <1>13, <1>14, <1>15 DEF ResetsInv
<1> QED BY <1>8, <1>10, <1>11, <1>16 DEF Inv

LEMMA RevokeInv == ASSUME Inv, NEW s \in Slots, Revoke(s) PROVE Inv'
<1> DEFINE e == req[s].admin
           g == req[s].gen
           gone == SessionsOf(e)
<1> HIDE DEF gone
<1>1. /\ pc[s] = "revoke" /\ sessions' = Without(gone)
      /\ ended' = [ended EXCEPT ![e] = IF g > @ THEN g ELSE @]
      /\ late' = late \cup InFlight(e, g) /\ Finish(s)
      /\ UNCHANGED <<hash, issued, now, gen, loggedOut>>
  BY DEF Revoke, gone
<1>2. /\ req[s].op = "passwd" /\ e \in Emails /\ e \in EmailInputs
      /\ g \in 0..gen[e] /\ gen[e] \in Resets
  BY <1>1, Constants DEF Inv, TypeOK, SlotsInv
<1>3. ended[e] \in Resets /\ ended[e] <= gen[e] /\ g \in Resets
  BY <1>2, Constants DEF Inv, TypeOK, ResetsInv
<1>4. /\ ended'[e] \in Resets /\ ended'[e] <= gen[e]
      /\ ended'[e] = g \/ ended'[e] = ended[e]
  BY <1>1, <1>2, <1>3 DEF Inv, TypeOK
<1>5. InFlight(e, g) \subseteq Slots
  BY DEF InFlight, Busy
<1>6. TypeOK'
  BY <1>1, <1>2, <1>4, <1>5, WithoutFacts DEF Inv, TypeOK, Finish, Goto, Statements
<1>7. SlotsInv'
  BY <1>1, FinishSlots
<1>8. SessionsInv'
  BY <1>1, WithoutFacts DEF Inv, SessionsInv, LogoutHolds, TypeOK
<1>9. OnlyLateLoginsSurvive'
  <2> SUFFICES ASSUME NEW t \in Tokens, sessions'[t] # None,
                      sessions'[t].gen < ended'[sessions'[t].admin]
               PROVE  t \in late'
    BY DEF OnlyLateLoginsSurvive
  <2>1. sessions'[t] = sessions[t] /\ sessions[t] # None /\ t \notin gone
    BY <1>1, WithoutFacts
  <2>2. sessions[t].admin # e
    BY <2>1 DEF SessionsOf, gone
  <2>3. ended'[sessions[t].admin] = ended[sessions[t].admin]
    BY <1>1, <2>1, <2>2, Constants DEF Inv, TypeOK, Session
  <2> QED BY <1>1, <2>1, <2>3 DEF Inv, ResetsInv, OnlyLateLoginsSurvive
<1>10. ASSUME NEW f \in Emails
       PROVE  gen'[f] + Cardinality(Hashing(f)') <= MaxResets
  <2>1. Hashing(f)' \subseteq Hashing(f)
    BY <1>1 DEF Hashing, Inv, TypeOK, Finish, Goto
  <2> QED BY <1>1, <2>1, BoundKept
<1>11. ASSUME NEW r \in Slots, Verified(r)', req'[r].gen < ended'[req'[r].admin]
       PROVE  r \in late'
  <2>1. r # s /\ req'[r] = req[r] /\ Verified(r) /\ req[r] # None
    BY <1>1, <1>11 DEF Verified, Inv, TypeOK, SlotsInv, Finish, Goto
  <2>2. CASE req[r].admin = e /\ ended'[e] = g
    BY <1>1, <1>11, <2>1, <2>2 DEF InFlight, Busy, Verified
  <2>3. CASE req[r].admin # e \/ ended'[e] = ended[e]
    <3>1. req[r].admin \in EmailInputs
      BY <2>1, Constants DEF Verified, Inv, SlotsInv
    <3>2. ended'[req[r].admin] = ended[req[r].admin]
      BY <1>1, <1>2, <2>3, <3>1 DEF Inv, TypeOK
    <3> QED BY <1>1, <1>11, <2>1, <3>2 DEF Inv, ResetsInv
  <2> QED BY <1>4, <2>2, <2>3
<1>12. \A f \in EmailInputs : ended'[f] <= gen'[f]
  BY <1>1, <1>2, <1>4 DEF Inv, TypeOK, ResetsInv
<1>13. ResetsInv'
  BY <1>9, <1>10, <1>11, <1>12 DEF ResetsInv
<1> QED BY <1>6, <1>7, <1>8, <1>13 DEF Inv

LEMMA RegisterInv == ASSUME Inv, NEW s \in Slots, Register(s) PROVE Inv'
<1>1. CASE Finish(s) /\ UNCHANGED hash
  BY <1>1, EndInv DEF Register
<1>2. CASE ~ (Finish(s) /\ UNCHANGED hash)
  <2>1. /\ pc[s] = "register" /\ pc' = [pc EXCEPT ![s] = "confirm"]
        /\ hash' = [hash EXCEPT ![req[s].admin] = req[s].password]
        /\ UNCHANGED <<req, sessions, issued, now, gen, ended, late, loggedOut>>
    BY <1>2 DEF Register, Goto, history
  <2>2. req[s].password \in Passwords /\ req[s].admin \in Emails
    BY <2>1 DEF Inv, SlotsInv
  <2>3. TypeOK'
    BY <2>1, <2>2 DEF Inv, TypeOK, Statements
  <2>4. SlotsInv'
    BY <2>1, GotoSlots
  <2>5. SessionsInv'
    BY <2>1 DEF Inv, SessionsInv, LogoutHolds
  <2>6. OnlyLateLoginsSurvive'
    BY <2>1 DEF Inv, ResetsInv, OnlyLateLoginsSurvive
  <2>7. ResetsInv'
    BY <2>1, <2>6, GotoResets
  <2> QED BY <2>3, <2>4, <2>5, <2>7 DEF Inv
<1> QED BY <1>1, <1>2

-----------------------------------------------------------------------------
(* The theorems.                                                           *)

LEMMA NextInv == Inv /\ [Next]_vars => Inv'
<1> SUFFICES ASSUME Inv, [Next]_vars PROVE Inv'
  OBVIOUS
<1>1. CASE Tick
  BY <1>1, TickInv
<1>2. ASSUME NEW s \in Slots, Begin(s) PROVE Inv'
  BY <1>2, BeginInv
<1>3. ASSUME NEW s \in Slots, Fail(s) PROVE Inv'
  BY <1>3, FailInv
<1>4. ASSUME NEW s \in Slots, Step(s) PROVE Inv'
  <2>1. CASE Handle(s) \/ Confirm(s)
    BY <2>1, EndInv DEF Handle, Confirm
  <2> QED BY <1>4, <2>1, ReadClockInv, PruneInv, SaveSessionInv, AuthenticateInv, EndSessionInv,
             SaveHashInv, RevokeInv, RegisterInv DEF Step
<1>5. CASE UNCHANGED vars
  BY <1>5 DEF vars, history, Inv, TypeOK, SlotsInv, SessionsInv, LogoutHolds, ResetsInv,
              Hashing, Verified, OnlyLateLoginsSurvive
<1> QED BY <1>1, <1>2, <1>3, <1>4, <1>5 DEF Next

\* The inductive invariant holds in every reachable state.
THEOREM Inductive == Spec => []Inv
<1>1. Init => Inv
  BY InitInv
<1>2. Inv /\ [Next]_vars => Inv'
  BY NextInv
<1> QED BY <1>1, <1>2, PTL DEF Spec

\* Types and keys of accounts and sessions (usecase/auth.go, 0002_admin_auth.sql).
THEOREM Typed == Spec => []TypeOK
<1>1. Inv => TypeOK
  BY DEF Inv
<1> QED BY <1>1, Inductive, PTL

\* After passwd (cmd/admin) has reported success, only logins that straddled
\* its DeleteForAdmin survive.
THEOREM ResetsEndSessions == Spec => []OnlyLateLoginsSurvive
<1>1. Inv => OnlyLateLoginsSurvive
  BY DEF Inv, ResetsInv
<1> QED BY <1>1, Inductive, PTL

\* A token that Logout (usecase/auth.go) answered never works again.
THEOREM LogoutsHold == Spec => []LogoutHolds
<1>1. Inv => LogoutHolds
  BY DEF Inv, SessionsInv
<1> QED BY <1>1, Inductive, PTL

\* A session that works is deleted by its own logout or a reset alone, never
\* by the DeleteExpired of a login.
THEOREM PruningSparesLiveSessions == Spec => LiveSessionsKept
<1> DEFINE Kept ==
      \A t \in Tokens :
        sessions[t] # None /\ sessions[t].expires > now /\ sessions'[t] = None =>
          \E s \in Slots :
            \/ pc[s] = "delete" /\ req[s].token = t
            \/ pc[s] = "revoke" /\ req[s].admin = sessions[t].admin
<1>1. Inv /\ [Next]_vars => [Kept]_vars
  <2> SUFFICES ASSUME Inv, [Next]_vars, NEW t \in Tokens, sessions[t] # None,
                      sessions[t].expires > now, sessions'[t] = None
               PROVE  \E s \in Slots :
                        \/ pc[s] = "delete" /\ req[s].token = t
                        \/ pc[s] = "revoke" /\ req[s].admin = sessions[t].admin
    OBVIOUS
  <2>1. sessions' # sessions
    OBVIOUS
  <2>2. ASSUME NEW s \in Slots, Prune(s) PROVE FALSE
    <3>1. t \in Expired(req[s].admin, req[s].clock)
      BY <2>2 DEF Prune, Without
    <3>2. sessions[t].expires <= req[s].clock /\ req[s].clock \in 0..now
      BY <2>2, <3>1 DEF Prune, Expired, Inv, SlotsInv
    <3>3. sessions[t].expires \in Nat /\ now \in Nat
      BY Constants DEF Inv, TypeOK, Session
    <3> QED BY <3>2, <3>3
  <2>3. ASSUME NEW s \in Slots, SaveSession(s) PROVE FALSE
    <3>1. PICK u \in Tokens \ issued : sessions' = [sessions EXCEPT ![u] =
            [admin |-> req[s].admin, expires |-> req[s].clock + TTL,
             saved |-> now, gen |-> req[s].gen]]
      BY <2>3 DEF SaveSession
    <3>2. t # u
      BY <3>1 DEF Inv, TypeOK
    <3> QED BY <3>1, <3>2 DEF Inv, TypeOK
  <2>4. ASSUME NEW s \in Slots, EndSession(s)
        PROVE  pc[s] = "delete" /\ req[s].token = t
    BY <2>4 DEF EndSession, Without
  <2>5. ASSUME NEW s \in Slots, Revoke(s)
        PROVE  pc[s] = "revoke" /\ req[s].admin = sessions[t].admin
    BY <2>5 DEF Revoke, Without, SessionsOf
  <2>6. PICK s \in Slots : Prune(s) \/ SaveSession(s) \/ EndSession(s) \/ Revoke(s)
    BY <2>1 DEF Next, vars, history, Tick, Begin, BeginLogin, BeginCall, BeginPasswd,
         BeginCreate, Start, Step, Fail, ReadClock, Authenticate, Handle, SaveHash,
         Register, Confirm
  <2> QED BY <2>2, <2>3, <2>4, <2>5, <2>6
<1>2. [][Kept]_vars => LiveSessionsKept
  BY PTL DEF LiveSessionsKept
<1> QED BY <1>1, <1>2, Inductive, PTL DEF Spec

\* AdminByToken lets in no request that arrives TTL or more after the insertion
\* of its session, whenever the clocks that are compared were read.
THEOREM SessionsExpire == Spec => SessionsLastTTL
<1> DEFINE Fresh ==
      \A s \in Slots :
        pc[s] = "query" /\ pc'[s] \in {"handle", "delete"} =>
          LET end == sessions[req[s].token].saved + TTL
          IN  now >= end => req[s].since < end
<1>1. Inv /\ [Next]_vars => [Fresh]_vars
  <2> SUFFICES ASSUME Inv, [Next]_vars, NEW s \in Slots, pc[s] = "query",
                      pc'[s] \in {"handle", "delete"}
               PROVE  req[s].since < sessions[req[s].token].saved + TTL
    OBVIOUS
  <2>1. Authenticate(s)
    <3>1. pc \in [Slots -> Statements] /\ pc' # pc
      BY DEF Inv, TypeOK
    <3>2. PICK r \in Slots : Begin(r) \/ Step(r) \/ Fail(r)
      BY <3>1 DEF Next, vars, Tick
    <3>3. ~ Begin(r)
      BY <3>1 DEF Begin, BeginLogin, BeginCall, BeginPasswd, BeginCreate, Start
    <3>4. ~ Fail(r)
      BY <3>1 DEF Fail, Finish, Goto
    <3>5. Authenticate(r)
      BY <3>1, <3>2, <3>3, <3>4 DEF Step, ReadClock, Handle, SaveHash, Prune, SaveSession,
           EndSession, Revoke, Register, Confirm, Finish, Goto
    <3>6. r = s
      BY <3>1, <3>5 DEF Authenticate, Finish, Goto
    <3> QED BY <3>5, <3>6
  <2>2. Valid(req[s].token, req[s].clock)
    BY <2>1 DEF Authenticate, Finish, Goto, Inv, TypeOK
  <2>3. /\ req[s].token \in Tokens /\ now \in Nat
        /\ req[s].clock \in 0..now /\ req[s].since \in 0..req[s].clock
    BY Constants DEF Inv, TypeOK, SlotsInv
  <2>4. /\ sessions[req[s].token] \in Session
        /\ sessions[req[s].token].expires > req[s].clock
        /\ sessions[req[s].token].expires <= sessions[req[s].token].saved + TTL
    BY <2>2, <2>3 DEF Valid, Inv, TypeOK, SessionsInv
  <2> QED BY <2>3, <2>4, Constants DEF Session
<1>2. [][Fresh]_vars => SessionsLastTTL
  BY PTL DEF SessionsLastTTL
<1> QED BY <1>1, <1>2, Inductive, PTL DEF Spec

\* Only SetPasswordHash of passwd changes the password of an account; the
\* Create of a second admin of that email does not.
THEOREM OnlyPasswdChangesPasswords == Spec => PasswordsKept
<1> DEFINE Kept ==
      \A e \in Emails :
        hash[e] # None /\ hash'[e] # hash[e] =>
          \E s \in Slots : pc[s] = "hash" /\ req[s].admin = e
<1>1. Inv /\ [Next]_vars => [Kept]_vars
  <2> SUFFICES ASSUME Inv, [Next]_vars, NEW e \in Emails, hash[e] # None, hash'[e] # hash[e]
               PROVE  \E s \in Slots : pc[s] = "hash" /\ req[s].admin = e
    OBVIOUS
  <2>1. PICK s \in Slots : SaveHash(s) \/ Register(s)
    BY DEF Next, vars, history, Tick, Begin, BeginLogin, BeginCall, BeginPasswd,
         BeginCreate, Start, Step, Fail, ReadClock, Authenticate, Handle, Prune, SaveSession,
         EndSession, Revoke, Confirm
  <2>2. ~ Register(s)
    BY Constants DEF Register, Inv, TypeOK
  <2> QED BY <2>1, <2>2, Constants DEF SaveHash, Inv, TypeOK
<1>2. [][Kept]_vars => PasswordsKept
  BY PTL DEF PasswordsKept
<1> QED BY <1>1, <1>2, Inductive, PTL DEF Spec
=============================================================================
