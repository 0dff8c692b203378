--------------------------- MODULE RepliesProofs ---------------------------
(***************************************************************************)
(* Theorems about Replies, for any limits, bodies and slugs: what a reply  *)
(* and a line of the log say of the request, and what a slug is found      *)
(* under.                                                                  *)
(***************************************************************************)
EXTENDS Replies, WellFoundedInduction, TLAPS

\* The steps that may follow one whose effect lasts: none of them is refused,
\* but a wedding may be gone when it is read back.
Safe == {"token", "save", "reload"}

\* All steps.
Steps == Lasting \cup Passing \cup {"limit", "valid", "password", "id", "slug", "body"}

\* What has been done and what is to come fit what was written so far.
ProgressInv ==
    /\ reply = 0 /\ written =>
         \A i \in DOMAIN Program[route] : i >= step => Program[route][i] \in Safe
    /\ \A i \in DOMAIN Program[route] :
         route # "Logout" /\ (i < step \/ reply = 200) /\ Program[route][i] \in Lasting
           => written
    /\ reply \in 400..499 => ~ written \/ (reply = 404 /\ At = "reload")

\* Nothing has failed and nothing is logged as long as there is no reply.
LogInv ==
    /\ reply = 0 => broke = None /\ log = <<>>
    /\ FailuresLogged

\* A slug that is stored matches the pattern.
SlugInv == slug # <<>> => slugPattern(slug)

\* The inductive invariant.
Inv == TypeOK /\ ProgressInv /\ LogInv /\ SlugInv

-----------------------------------------------------------------------------
(* The handlers.                                                           *)

\* The order of the steps of a handler, which the proofs rest on: after a step
\* whose effect lasts only safe ones come, only a logout ends a session, and a
\* guest is stored with a code that was drawn before.
Ordered(r, q) ==
    /\ q \in Seq(Steps) /\ q # <<>>
    /\ \A i \in DOMAIN q :
         /\ q[i] \in Lasting => \A j \in DOMAIN q : j > i => q[j] \in Safe
         /\ q[i] = "logout" => r = "Logout"
         /\ q[i] = "invite" => i > 1

LEMMA AccessOrdered ==
    ASSUME NEW r, NEW q, Ordered(r, q)
    PROVE  Ordered(r, Access \o q)
<1> DEFINE p == Access \o q
<1>1. /\ q \in Seq(Steps) /\ Len(q) \in Nat /\ DOMAIN q = 1..Len(q)
      /\ p \in Seq(Steps) /\ Len(p) = Len(q) + 3 /\ DOMAIN p = 1..(Len(q) + 3)
      /\ p[1] = "session" /\ p[2] = "wedding" /\ p[3] = "granted"
      /\ \A i \in DOMAIN q : p[i + 3] = q[i]
  BY DEF Ordered, Access, Steps, Passing
<1>2. ASSUME NEW i \in DOMAIN p
      PROVE  \/ p[i] \in {"session", "wedding", "granted"}
             \/ i - 3 \in DOMAIN q /\ p[i] = q[i - 3]
  <2>1. CASE i <= 3
    BY <1>1, <2>1
  <2>2. CASE i > 3
    <3>1. i - 3 \in DOMAIN q /\ (i - 3) + 3 = i
      BY <1>1, <2>2
    <3> QED BY <1>1, <3>1
  <2> QED BY <1>1, <2>1, <2>2
<1>3. p # <<>>
  BY <1>1
<1> HIDE DEF p
<1>4. ASSUME NEW i \in DOMAIN p
      PROVE  /\ p[i] \in Lasting => \A j \in DOMAIN p : j > i => p[j] \in Safe
             /\ p[i] = "logout" => r = "Logout"
             /\ p[i] = "invite" => i > 1
  <2>1. CASE p[i] \in {"session", "wedding", "granted"}
    BY <2>1 DEF Lasting
  <2>2. CASE i - 3 \in DOMAIN q /\ p[i] = q[i - 3]
    <3>1. ASSUME p[i] \in Lasting, NEW j \in DOMAIN p, j > i PROVE p[j] \in Safe
      <4>1. j - 3 \in DOMAIN q /\ j - 3 > i - 3 /\ p[j] = q[j - 3]
        <5>1. i >= 4 /\ j >= 4 /\ j \in Nat /\ i \in Nat
          BY <1>1, <2>2, <3>1
        <5>2. j - 3 \in DOMAIN q /\ (j - 3) + 3 = j
          BY <1>1, <5>1
        <5> QED BY <1>1, <3>1, <5>1, <5>2
      <4> QED BY <2>2, <3>1, <4>1 DEF Ordered
    <3>2. p[i] = "invite" => i > 1
      BY <1>1, <2>2
    <3> QED BY <2>2, <3>1, <3>2 DEF Ordered
  <2> QED BY <1>2, <2>1, <2>2
<1> QED BY <1>1, <1>3, <1>4 DEF Ordered, p

LEMMA RSVPOrdered ==
    ASSUME NEW r \in DOMAIN RSVPHandlers PROVE Ordered(r, RSVPHandlers[r])
<1>1. CASE r = "GetInvitation"
  BY <1>1 DEF RSVPHandlers, Ordered, Lasting, Safe, Steps, Passing
<1>2. CASE r = "GetGuestByCode"
  BY <1>2 DEF RSVPHandlers, Ordered, Lasting, Safe, Steps, Passing
<1>3. CASE r = "SubmitRSVP"
  BY <1>3 DEF RSVPHandlers, Ordered, Lasting, Safe, Steps, Passing
<1> QED BY <1>1, <1>2, <1>3 DEF RSVPHandlers

LEMMA AuthOrdered ==
    ASSUME NEW r \in DOMAIN AuthHandlers PROVE Ordered(r, AuthHandlers[r])
<1>1. CASE r = "Login"
  BY <1>1 DEF AuthHandlers, Ordered, Lasting, Safe, Steps, Passing
<1>2. CASE r = "Logout"
  BY <1>2 DEF AuthHandlers, Ordered, Lasting, Safe, Steps, Passing
<1>3. CASE r = "Me"
  BY <1>3 DEF AuthHandlers, Ordered, Lasting, Safe, Steps, Passing
<1> QED BY <1>1, <1>2, <1>3 DEF AuthHandlers

LEMMA WeddingOrdered ==
    ASSUME NEW r \in DOMAIN WeddingHandlers PROVE Ordered(r, WeddingHandlers[r])
<1>1. CASE r = "GetWedding"
  BY <1>1 DEF WeddingHandlers, Ordered, Lasting, Safe, Steps, Passing
<1>2. CASE r = "CreateWedding"
  BY <1>2 DEF WeddingHandlers, Ordered, Lasting, Safe, Steps, Passing
<1>3. CASE r = "UpdateWedding"
  <2>1. Ordered(r, <<"body", "wedding", "slug", "free", "rename", "reload">>)
    BY DEF Ordered, Lasting, Safe, Steps, Passing
  <2> QED BY <1>3, <2>1, AccessOrdered DEF WeddingHandlers
<1> QED BY <1>1, <1>2, <1>3 DEF WeddingHandlers

\* The suffixes that handlers behind Access share.
LEMMA SharedOrdered ==
    ASSUME NEW r
    PROVE  /\ Ordered(r, Access \o <<"wedding", "rows">>)
           /\ Ordered(r, Access \o <<"id", "wedding", "edit">>)
           /\ Ordered(r, Access \o <<"body", "wedding", "valid", "insert">>)
<1>1. Ordered(r, <<"wedding", "rows">>)
  BY DEF Ordered, Lasting, Safe, Steps, Passing
<1>2. Ordered(r, <<"id", "wedding", "edit">>)
  BY DEF Ordered, Lasting, Safe, Steps, Passing
<1>3. Ordered(r, <<"body", "wedding", "valid", "insert">>)
  BY DEF Ordered, Lasting, Safe, Steps, Passing
<1> QED BY <1>1, <1>2, <1>3, AccessOrdered

LEMMA WishOrdered ==
    ASSUME NEW r \in DOMAIN WishHandlers PROVE Ordered(r, WishHandlers[r])
<1>1. CASE r = "ListWishes"
  BY <1>1 DEF WishHandlers, Ordered, Lasting, Safe, Steps, Passing
<1>2. CASE r = "CreateWish"
  BY <1>2 DEF WishHandlers, Ordered, Lasting, Safe, Steps, Passing
<1>3. CASE r = "SetWishApproval"
  <2>1. Ordered(r, <<"id", "body", "wedding", "edit">>)
    BY DEF Ordered, Lasting, Safe, Steps, Passing
  <2> QED BY <1>3, <2>1, AccessOrdered DEF WishHandlers
<1>4. CASE r = "ListAllWishes"
  BY <1>4, SharedOrdered DEF WishHandlers
<1>5. CASE r = "DeleteWish"
  BY <1>5, SharedOrdered DEF WishHandlers
<1> QED BY <1>1, <1>2, <1>3, <1>4, <1>5 DEF WishHandlers

LEMMA GuestOrdered ==
    ASSUME NEW r \in DOMAIN GuestHandlers PROVE Ordered(r, GuestHandlers[r])
<1>1. CASE r = "CreateGuest"
  <2>1. Ordered(r, <<"body", "wedding", "valid", "code", "invite">>)
    BY DEF Ordered, Lasting, Safe, Steps, Passing
  <2> QED BY <1>1, <2>1, AccessOrdered DEF GuestHandlers
<1>2. CASE r = "UpdateGuest"
  <2>1. Ordered(r, <<"id", "body", "wedding", "valid", "edit">>)
    BY DEF Ordered, Lasting, Safe, Steps, Passing
  <2> QED BY <1>2, <2>1, AccessOrdered DEF GuestHandlers
<1>3. CASE r = "ListGuests"
  BY <1>3, SharedOrdered DEF GuestHandlers
<1>4. CASE r = "DeleteGuest"
  BY <1>4, SharedOrdered DEF GuestHandlers
<1>5. CASE r = "GetRSVPSummary"
  BY <1>5, SharedOrdered DEF GuestHandlers
<1> QED BY <1>1, <1>2, <1>3, <1>4, <1>5 DEF GuestHandlers

LEMMA GiftOrdered ==
    ASSUME NEW r \in DOMAIN GiftHandlers PROVE Ordered(r, GiftHandlers[r])
<1>1. CASE r = "ListGifts"
  BY <1>1, SharedOrdered DEF GiftHandlers
<1>2. CASE r = "CreateGift"
  BY <1>2, SharedOrdered DEF GiftHandlers
<1>3. CASE r = "DeleteGift"
  BY <1>3, SharedOrdered DEF GiftHandlers
<1> QED BY <1>1, <1>2, <1>3 DEF GiftHandlers

LEMMA EventOrdered ==
    ASSUME NEW r \in DOMAIN EventHandlers PROVE Ordered(r, EventHandlers[r])
<1>1. CASE r = "CreateEvent"
  BY <1>1, SharedOrdered DEF EventHandlers
<1>2. CASE r = "DeleteEvent"
  BY <1>2, SharedOrdered DEF EventHandlers
<1> QED BY <1>1, <1>2 DEF EventHandlers

LEMMA ProgramOrdered == ASSUME NEW r \in Routes PROVE Ordered(r, Program[r])
<1> DEFINE file == CHOOSE f \in Handlers : r \in DOMAIN f
<1>1. file \in Handlers /\ r \in DOMAIN file
  BY DEF Routes
<1>2. Program[r] = file[r]
  BY DEF Program
<1> HIDE DEF file
<1>3. Ordered(r, file[r])
  BY <1>1, RSVPOrdered, AuthOrdered, WeddingOrdered, WishOrdered, GuestOrdered, GiftOrdered,
     EventOrdered DEF Handlers
<1> QED BY <1>2, <1>3

\* What the proofs use of the route of a request.
LEMMA RouteFacts ==
    ASSUME NEW r \in Routes
    PROVE  /\ Len(Program[r]) \in Nat /\ Len(Program[r]) >= 1
           /\ DOMAIN Program[r] = 1..Len(Program[r])
           /\ \A i \in DOMAIN Program[r] :
                /\ Program[r][i] \in Lasting =>
                     \A j \in DOMAIN Program[r] : j > i => Program[r][j] \in Safe
                /\ Program[r][i] = "logout" => r = "Logout"
                /\ Program[r][i] = "invite" => i > 1
<1> DEFINE q == Program[r]
<1>1. Ordered(r, q)
  BY ProgramOrdered
<1> HIDE DEF q
<1>2. /\ Len(q) \in Nat /\ Len(q) >= 1 /\ DOMAIN q = 1..Len(q)
  BY <1>1 DEF Ordered
<1> QED BY <1>1, <1>2 DEF Ordered, q

-----------------------------------------------------------------------------
(* How a step moves the request on.                                        *)

Statuses == {0, 200, 400, 401, 404, 413, 429, 500}

LEMMA Here ==
    ASSUME TypeOK
    PROVE  /\ step \in 1..Len(Program[route]) /\ Len(Program[route]) \in Nat
           /\ DOMAIN Program[route] = 1..Len(Program[route])
           /\ At \in Lasting => \A j \in DOMAIN Program[route] :
                                  j > step => Program[route][j] \in Safe
           /\ At = "logout" => route = "Logout"
           /\ At = "invite" => step > 1
BY RouteFacts DEF TypeOK, At

\* A step forward keeps the account of what was done, if what it does for good
\* is written down.
LEMMA Advancing ==
    ASSUME TypeOK, ProgressInv, reply = 0, Advance,
           written => written', written' => written \/ At \in Lasting,
           At \in Lasting => written' \/ At = "logout"
    PROVE  /\ route' \in Routes /\ step' \in DOMAIN Program[route'] /\ reply' \in {0, 200}
           /\ ProgressInv'
<1>1. /\ step \in 1..Len(Program[route]) /\ Len(Program[route]) \in Nat
      /\ DOMAIN Program[route] = 1..Len(Program[route])
      /\ At \in Lasting => \A j \in DOMAIN Program[route] :
                             j > step => Program[route][j] \in Safe
      /\ At = "logout" => route = "Logout"
  BY Here
<1>2. /\ route' = route
      /\ \/ step' = step /\ step = Len(Program[route]) /\ reply' = 200
         \/ step' = step + 1 /\ step < Len(Program[route]) /\ reply' = 0
  BY <1>1 DEF Advance, Answer
<1>3. route' \in Routes /\ step' \in DOMAIN Program[route'] /\ reply' \in {0, 200}
  BY <1>1, <1>2 DEF TypeOK
<1>4. ASSUME reply' = 0, written', NEW i \in DOMAIN Program[route], i >= step'
      PROVE  Program[route][i] \in Safe
  <2>1. i > step
    BY <1>1, <1>2, <1>4
  <2>2. CASE written
    BY <2>1, <2>2, <1>1 DEF ProgressInv
  <2>3. CASE At \in Lasting
    BY <2>1, <2>3, <1>1
  <2> QED BY <1>4, <2>2, <2>3
<1>5. ASSUME route # "Logout", NEW i \in DOMAIN Program[route], i < step' \/ reply' = 200,
             Program[route][i] \in Lasting
      PROVE  written'
  <2>1. i < step \/ i = step
    BY <1>1, <1>2, <1>5
  <2>2. CASE i < step
    BY <1>5, <2>2 DEF ProgressInv
  <2>3. CASE i = step
    BY <1>1, <1>5, <2>3 DEF At
  <2> QED BY <2>1, <2>2, <2>3
<1>6. reply' \notin 400..499
  <2>1. reply' = 0 \/ reply' = 200
    BY <1>2
  <2> QED BY <2>1
<1>7. /\ reply' = 0 /\ written' =>
           \A i \in DOMAIN Program[route'] : i >= step' => Program[route'][i] \in Safe
      /\ \A i \in DOMAIN Program[route'] :
           route' # "Logout" /\ (i < step' \/ reply' = 200) /\ Program[route'][i] \in Lasting
             => written'
  BY <1>2, <1>4, <1>5
<1> QED BY <1>3, <1>6, <1>7 DEF ProgressInv

\* An answer does too: a refusal while nothing is written, or of what is gone
\* when it is read back.
LEMMA Answering ==
    ASSUME TypeOK, ProgressInv, reply = 0, NEW status \in Statuses \ {0, 200}, Answer(status),
           written => written',
           \/ status = 500
           \/ written' = written /\ (At \notin Safe \/ (At = "reload" /\ status = 404))
    PROVE  /\ route' \in Routes /\ step' \in DOMAIN Program[route'] /\ reply' = status
           /\ ProgressInv'
<1>1. route' = route /\ step' = step /\ reply' = status /\ At' = At
  BY DEF Answer, At
<1>2. route' \in Routes /\ step' \in DOMAIN Program[route']
  BY <1>1 DEF TypeOK
<1>3. reply' # 0 /\ reply' # 200
  BY <1>1
<1>4. ASSUME reply' \in 400..499 PROVE ~ written' \/ (reply' = 404 /\ At' = "reload")
  <2>1. status # 500
    BY <1>1, <1>4
  <2>2. CASE At = "reload" /\ status = 404
    BY <1>1, <2>2
  <2>3. CASE written' = written /\ At \notin Safe
    <3>1. step \in DOMAIN Program[route] /\ step >= step
      BY Here
    <3>2. ~ written
      BY <2>3, <3>1 DEF ProgressInv, At
    <3> QED BY <2>3, <3>2
  <2> QED BY <2>1, <2>2, <2>3
<1>5. ASSUME route' # "Logout", NEW i \in DOMAIN Program[route'], i < step' \/ reply' = 200,
             Program[route'][i] \in Lasting
      PROVE  written'
  BY <1>1, <1>3, <1>5 DEF ProgressInv
<1> QED BY <1>1, <1>2, <1>3, <1>4, <1>5 DEF ProgressInv

-----------------------------------------------------------------------------
(* The copy of the body and the log.                                       *)

LEMMA BytesType ==
    ASSUME NEW from \in Nat, NEW n \in Nat
    PROVE  /\ Bytes(from, n) \in Seq(Nat) /\ Len(Bytes(from, n)) = n
           /\ Bytes(from, n) = <<>> <=> n = 0
           /\ \A i \in 1..n : Bytes(from, n)[i] = from + i
<1>1. Bytes(from, n) \in [1..n -> Nat]
  BY DEF Bytes
<1>2. Bytes(from, n) \in Seq(Nat)
  BY <1>1
<1>3. DOMAIN Bytes(from, n) = 1..n /\ Len(Bytes(from, n)) = n
  BY <1>2 DEF Bytes
<1> QED BY <1>2, <1>3 DEF Bytes

LEMMA Joined ==
    ASSUME NEW s \in Seq(Nat), NEW t \in Seq(Nat)
    PROVE  /\ s \o t \in Seq(Nat) /\ Len(s \o t) = Len(s) + Len(t)
           /\ \A i \in 1..Len(t) : (s \o t)[Len(s) + i] = t[i]
OBVIOUS

\* The first bytes that were read, up to the limit of the copy.
CopyOf(n) == [buf |-> Bytes(0, IF n > Cap THEN Cap ELSE n), truncated |-> n > Cap]

\* As more bytes are read the copy goes on where it was.
LEMMA Capturing ==
    ASSUME got \in Nat, copy = CopyOf(got), NEW n \in Nat \ {0}
    PROVE  Captured(n) = CopyOf(got + n)
<1> DEFINE kept == IF got > Cap THEN Cap ELSE got
<1>0. Cap \in Nat \ {0}
  BY BoundsAssumption
<1>1. kept \in Nat /\ kept <= Cap
  BY <1>0
<1>2. copy.buf = Bytes(0, kept) /\ Len(copy.buf) = kept /\ copy.buf \in Seq(Nat)
  BY <1>1, BytesType DEF CopyOf
<1>3. ASSUME NEW m \in Nat, m = 0 \/ kept = got
      PROVE  copy.buf \o Bytes(got, m) = Bytes(0, kept + m)
  <2> DEFINE p == copy.buf \o Bytes(got, m)
             q == Bytes(0, kept + m)
  <2>1. Bytes(got, m) \in Seq(Nat) /\ Len(Bytes(got, m)) = m
    BY BytesType
  <2>0. kept + m \in Nat
    BY <1>1
  <2>2. q \in Seq(Nat) /\ Len(q) = kept + m /\ \A i \in 1..(kept + m) : q[i] = 0 + i
    <3> HIDE DEF kept
    <3> QED BY <2>0, BytesType
  <2>3. p \in Seq(Nat) /\ Len(p) = kept + m
    BY <1>2, <2>1, Joined
  <2>4. ASSUME NEW i \in 1..(kept + m) PROVE p[i] = i
    <3>1. CASE i <= kept
      <4>1. p[i] = copy.buf[i]
        BY <1>1, <1>2, <2>1, <3>1
      <4>2. copy.buf[i] = 0 + i
        <5>1. i \in 1..kept
          BY <1>1, <3>1
        <5>2. \A k \in 1..kept : Bytes(0, kept)[k] = 0 + k
          <6> HIDE DEF kept
          <6> QED BY <1>1, BytesType
        <5> HIDE DEF kept
        <5> QED BY <1>2, <5>1, <5>2
      <4> QED BY <4>1, <4>2
    <3>2. CASE i > kept
      <4>1. i - kept \in 1..m /\ m # 0
        BY <1>1, <3>2
      <4>2. p[i] = Bytes(got, m)[i - kept]
        <5>1. Len(copy.buf) + (i - kept) = i
          BY <1>1, <1>2
        <5>2. (copy.buf \o Bytes(got, m))[Len(copy.buf) + (i - kept)] = Bytes(got, m)[i - kept]
          <6> HIDE DEF kept, p
          <6> QED BY <1>2, <2>1, <4>1, Joined
        <5> QED BY <5>1, <5>2
      <4>3. Bytes(got, m)[i - kept] = got + (i - kept)
        BY <4>1, BytesType
      <4>4. kept = got
        BY <1>3, <4>1
      <4> HIDE DEF p, kept
      <4> QED BY <1>1, <4>2, <4>3, <4>4
    <3>3. i \in Nat /\ kept \in Nat
      BY <1>1
    <3> HIDE DEF kept, p
    <3> QED BY <3>1, <3>2, <3>3
  <2>5. \A i \in 1..(kept + m) : q[i] = i
    BY <1>1, <2>2
  <2> HIDE DEF p, q
  <2>6. DOMAIN p = 1..(kept + m) /\ DOMAIN q = 1..(kept + m) /\ kept + m \in Nat
    BY <1>1, <2>2, <2>3
  <2>7. p = q
    BY <2>2, <2>3, <2>4, <2>5, <2>6
  <2> QED BY <2>7 DEF p, q
<1>4. CASE Cap - kept < n
  <2>1. Captured(n) = [buf |-> copy.buf \o Bytes(got, Cap - kept), truncated |-> TRUE]
    BY <1>2, <1>4 DEF Captured
  <2>2. Cap - kept \in Nat /\ (Cap - kept = 0 \/ kept = got) /\ kept + (Cap - kept) = Cap
    BY <1>0, <1>1
  <2>3. copy.buf \o Bytes(got, Cap - kept) = Bytes(0, Cap)
    BY <1>3, <2>2
  <2>4. got + n > Cap
    BY <1>0, <1>1, <1>4
  <2> QED BY <2>1, <2>3, <2>4 DEF CopyOf
<1>5. CASE ~ (Cap - kept < n)
  <2>1. kept = got /\ kept + n = got + n /\ ~ (got + n > Cap) /\ ~ (got > Cap)
    BY <1>0, <1>1, <1>5
  <2>2. Captured(n) = [copy EXCEPT !.buf = copy.buf \o Bytes(got, n)]
    BY <1>2, <1>5 DEF Captured
  <2>3. Captured(n) = [buf |-> copy.buf \o Bytes(got, n), truncated |-> FALSE]
    <3>1. (got > Cap) = FALSE
      BY <2>1
    <3>2. DOMAIN copy = {"buf", "truncated"} /\ copy.truncated = FALSE
      BY <3>1 DEF CopyOf
    <3>3. \A x : [copy EXCEPT !.buf = x] = [buf |-> x, truncated |-> copy.truncated]
      BY <3>2
    <3> QED BY <2>2, <3>2, <3>3
  <2>4. copy.buf \o Bytes(got, n) = Bytes(0, got + n)
    BY <1>3, <2>1
  <2>5. (got + n > Cap) = FALSE
    BY <2>1
  <2>6. CopyOf(got + n) = [buf |-> Bytes(0, got + n), truncated |-> FALSE]
    BY <2>1, <2>5 DEF CopyOf
  <2> QED BY <2>3, <2>4, <2>6
<1> QED BY <1>4, <1>5

\* What a line shows of the body.
LEMMA Payloads ==
    ASSUME TypeOK
    PROVE  /\ Payload(copy) = None <=> got = 0
           /\ Payload(copy) = "fields" =>
                got <= Cap /\ got >= body.value /\ (got > body.value => body.blank)
<1>0. Cap \in Nat \ {0} /\ MaxBody \in Nat
  BY BoundsAssumption
<1> DEFINE kept == IF got > Cap THEN Cap ELSE got
<1>1. got \in Nat /\ kept \in Nat /\ (kept = 0 <=> got = 0) /\ (~ (got > Cap) => kept = got)
  BY <1>0 DEF TypeOK
<1>2. copy.buf = Bytes(0, kept) /\ copy.truncated = (got > Cap)
  BY DEF TypeOK
<1>3. Len(copy.buf) = kept /\ (copy.buf = <<>> <=> got = 0)
  BY <1>1, <1>2, BytesType
<1>4. body.value \in Nat
  BY BoundsAssumption DEF TypeOK, Body, NoBody
<1>5. Payload(copy) = None <=> got = 0
  BY <1>3 DEF Payload, None
<1>6. ASSUME Payload(copy) = "fields"
      PROVE  got <= Cap /\ got >= body.value /\ (got > body.value => body.blank)
  <2>1. /\ ~ copy.truncated /\ Len(copy.buf) >= body.value
        /\ Len(copy.buf) > body.value => body.blank
    BY <1>6 DEF Payload, None
  <2>2. ~ (got > Cap)
    BY <1>2, <2>1
  <2>3. Len(copy.buf) = got
    BY <1>1, <1>3, <2>2
  <2> QED BY <1>0, <1>1, <2>1, <2>2, <2>3
<1> QED BY <1>5, <1>6

\* Nothing is logged as long as nothing fails.
LEMMA Quiet ==
    ASSUME LogInv, reply = 0, reply' # 500, UNCHANGED <<broke, log>>
    PROVE  LogInv'
<1>1. broke' = None /\ log' = <<>>
  BY DEF LogInv
<1>2. Len(log') = 0 /\ DOMAIN log' = {}
  BY <1>1
<1> QED BY <1>1, <1>2 DEF LogInv, FailuresLogged

\* A failure is logged once, by its own name if by any.
LEMMA Failing ==
    ASSUME TypeOK, LogInv, reply = 0, NEW err, reply' = 500, LogError(err), broke' # None,
           UNCHANGED <<body, got, copy>>,
           err.origin # None => err.origin = Named(broke'),
           err.origin = None => broke' \in {"codes", "home"}
    PROVE  LogInv'
<1> DEFINE line == [origin |-> err.origin, payload |-> Payload(copy)]
<1>1. log' = <<line>>
  BY DEF LogInv, LogError
<1> HIDE DEF line
<1>2. Len(log') = 1 /\ DOMAIN log' = {1} /\ log'[1] = line
  BY <1>1
<1>3. line.origin = err.origin /\ line.payload = Payload(copy)
  BY DEF line
<1>4. /\ Payload(copy) = None <=> got = 0
      /\ Payload(copy) = "fields" =>
           got <= Cap /\ got >= body.value /\ (got > body.value => body.blank)
  BY Payloads
<1>5. /\ log'[1].origin # None => log'[1].origin = Named(broke')
      /\ log'[1].origin = None => broke' \in {"codes", "home"}
      /\ log'[1].payload = None <=> got' = 0
      /\ log'[1].payload = "fields" =>
           got' <= Cap /\ got' >= body'.value /\ (got' > body'.value => body'.blank)
  BY <1>2, <1>3, <1>4
<1> QED BY <1>2, <1>5 DEF LogInv, FailuresLogged

-----------------------------------------------------------------------------
(* Slugs.                                                                  *)

\* Of some positions up to n, one is the last, and one the first.
LEMMA Last ==
    ASSUME NEW n \in Nat, NEW S \in SUBSET (1..n), S # {}
    PROVE  \E k \in S : \A m \in S : m <= k
<1> DEFINE B == {n - k : k \in S}
           R == OpToRel(<, Nat)
<1>1. IsWellFoundedOn(R, Nat)
  BY NatLessThanWellFounded
<1>2. \A x, y \in Nat : <<x, y>> \in R <=> x < y
  BY DEF OpToRel
<1>3. B \in SUBSET Nat /\ B # {}
  <2>1. \A k \in S : n - k \in Nat
    OBVIOUS
  <2> QED BY <2>1
<1> HIDE DEF R
<1>4. PICK b \in B : \A c \in B : ~ (<<c, b>> \in R)
  <2> HIDE DEF B
  <2> QED BY <1>1, <1>3, WFMin
<1>5. PICK k \in S : b = n - k
  OBVIOUS
<1>6. ASSUME NEW m \in S PROVE m <= k
  <2>1. n - m \in B /\ n - m \in Nat /\ b \in Nat
    OBVIOUS
  <2>2. ~ (n - m < b)
    <3> HIDE DEF B
    <3> QED BY <1>2, <1>4, <2>1
  <2> QED BY <1>5, <2>2
<1> QED BY <1>6

LEMMA First ==
    ASSUME NEW n \in Nat, NEW S \in SUBSET (1..n), S # {}
    PROVE  \E k \in S : \A m \in S : k <= m
<1> DEFINE T == {(n + 1) - k : k \in S}
<1>1. T \in SUBSET (1..n) /\ T # {}
  <2>1. \A k \in S : (n + 1) - k \in 1..n
    OBVIOUS
  <2> QED BY <2>1
<1>2. PICK t \in T : \A u \in T : u <= t
  <2> HIDE DEF T
  <2> QED BY <1>1, Last
<1>3. PICK k \in S : t = (n + 1) - k
  OBVIOUS
<1>4. ASSUME NEW m \in S PROVE k <= m
  <2>1. (n + 1) - m <= t
    BY <1>2
  <2> QED BY <1>3, <2>1
<1> QED BY <1>4

\* Facts about sequences.
LEMMA AsSequence ==
    ASSUME NEW S, NEW n \in Nat, NEW t \in [1..n -> S]
    PROVE  t \in Seq(S) /\ Len(t) = n
OBVIOUS

LEMMA SameSequence ==
    ASSUME NEW S, NEW s \in Seq(S), NEW t \in Seq(S), Len(s) = Len(t),
           \A i \in 1..Len(s) : s[i] = t[i]
    PROVE  s = t
OBVIOUS

LEMMA Narrowed ==
    ASSUME NEW S, NEW T, NEW s \in Seq(S), \A i \in DOMAIN s : s[i] \in T
    PROVE  s \in Seq(T)
<1>1. Len(s) \in Nat /\ DOMAIN s = 1..Len(s)
  OBVIOUS
<1>2. s \in [1..Len(s) -> T]
  BY <1>1
<1> QED BY <1>1, <1>2, AsSequence

\* What is left of a text when it is trimmed runs from a character to a
\* character, and around it are blanks only.
LEMMA Trimmed ==
    ASSUME NEW s \in Seq(Characters), Inked(s) # {}
    PROVE  \E f, l \in DOMAIN s :
             /\ f <= l /\ s[f] # " " /\ s[l] # " "
             /\ TrimSpace(s) = SubSeq(s, f, l)
             /\ \A i \in DOMAIN s : i < f \/ i > l => s[i] = " "
<1> DEFINE I == Inked(s)
           f == CHOOSE i \in I : \A k \in I : i <= k
           l == CHOOSE i \in I : \A k \in I : k <= i
<1>0. Len(s) \in Nat /\ DOMAIN s = 1..Len(s)
  OBVIOUS
<1>1. I \in SUBSET (1..Len(s))
  BY <1>0 DEF Inked
<1>2. (\E i \in I : \A k \in I : i <= k) /\ (\E i \in I : \A k \in I : k <= i)
  <2> HIDE DEF I
  <2>1. I # {}
    BY DEF I
  <2> QED BY <1>0, <1>1, <2>1, First, Last
<1>3. f \in I /\ (\A k \in I : f <= k) /\ l \in I /\ (\A k \in I : k <= l)
  <2> HIDE DEF I
  <2> QED BY <1>2
<1>4. TrimSpace(s) = SubSeq(s, f, l)
  BY DEF TrimSpace
<1>5. \A i \in DOMAIN s : i \in I <=> s[i] # " "
  BY DEF Inked
<1> HIDE DEF f, l, I
<1>6. f \in DOMAIN s /\ l \in DOMAIN s /\ f <= l
  BY <1>0, <1>1, <1>3
<1>7. ASSUME NEW i \in DOMAIN s, i < f \/ i > l PROVE s[i] = " "
  <2>1. i \notin I
    <3>1. i \in Nat /\ f \in Nat /\ l \in Nat
      BY <1>0, <1>6
    <3>2. ~ (f <= i /\ i <= l)
      BY <1>7, <3>1
    <3> QED BY <1>3, <3>2
  <2> QED BY <1>5, <2>1
<1> QED BY <1>3, <1>4, <1>5, <1>6, <1>7

\* So a normalized text is those characters in lower case.
LEMMA Normalized ==
    ASSUME NEW s \in Seq(Characters), NEW f \in DOMAIN s, NEW l \in DOMAIN s, f <= l,
           TrimSpace(s) = SubSeq(s, f, l)
    PROVE  /\ normalizeSlug(s) \in Seq({"a", "-", " "})
           /\ Len(normalizeSlug(s)) = l - f + 1
           /\ \A i \in 1..(l - f + 1) : normalizeSlug(s)[i] = ToLower(s[f + i - 1])
<1> DEFINE n == l - f + 1
           t == normalizeSlug(s)
<1>1. /\ Len(s) \in Nat /\ DOMAIN s = 1..Len(s) /\ n \in Nat
      /\ \A i \in 1..n : f + i - 1 \in DOMAIN s
  OBVIOUS
<1>2. /\ Len(SubSeq(s, f, l)) = n /\ DOMAIN SubSeq(s, f, l) = 1..n
      /\ \A i \in 1..n : SubSeq(s, f, l)[i] = s[f + i - 1]
  BY <1>1
<1>3. t = [i \in 1..n |-> ToLower(s[f + i - 1])]
  <2> HIDE DEF n
  <2> QED BY <1>2 DEF normalizeSlug
<1>4. ASSUME NEW i \in 1..n PROVE ToLower(s[f + i - 1]) \in {"a", "-", " "}
  <2>1. s[f + i - 1] \in Characters
    BY <1>1
  <2> QED BY <2>1 DEF ToLower, Characters
<1>0. n \in Nat
  BY <1>1
<1>5. t \in [1..n -> {"a", "-", " "}]
  <2> HIDE DEF n
  <2> QED BY <1>3, <1>4
<1>6. t \in Seq({"a", "-", " "}) /\ Len(t) = n
  <2> HIDE DEF n, t
  <2> QED BY <1>0, <1>5, AsSequence
<1> HIDE DEF n, t
<1>8. \A i \in 1..n : t[i] = ToLower(s[f + i - 1])
  BY <1>3
<1> QED BY <1>6, <1>8 DEF n, t

\* A stored slug begins and ends with a letter or digit and has no two hyphens
\* in a row.
LEMMA SlugShape ==
    ASSUME NEW s \in Seq({"a", "-"}), s # <<>>, slugPattern(s)
    PROVE  /\ s[1] = "a" /\ s[Len(s)] = "a"
           /\ \A i \in 2..Len(s) : "a" \in {s[i - 1], s[i]}
<1>1. Len(s) \in Nat /\ Len(s) >= 1 /\ DOMAIN s = 1..Len(s)
      /\ \A i \in 1..Len(s) : s[i] \in {"a", "-"}
  OBVIOUS
<1>2. /\ 0 \in Ends(s) /\ Len(s) + 1 \in Ends(s)
      /\ \A i \in 1..Len(s) : s[i] = "-" => i \in Ends(s)
      /\ \A i \in Ends(s) : i + 1 \notin Ends(s)
  BY <1>1 DEF slugPattern, Ends
<1>3. s[1] = "a"
  <2>1. 0 + 1 \notin Ends(s)
    BY <1>2
  <2> QED BY <1>1, <1>2, <2>1
<1>4. s[Len(s)] = "a"
  <2>1. Len(s) \notin Ends(s)
    BY <1>2
  <2> QED BY <1>1, <1>2, <2>1
<1>5. ASSUME NEW i \in 2..Len(s) PROVE "a" \in {s[i - 1], s[i]}
  <2>1. i - 1 \in 1..Len(s) /\ i \in 1..Len(s) /\ (i - 1) + 1 = i
    BY <1>1
  <2>2. ~ (i - 1 \in Ends(s) /\ i \in Ends(s))
    BY <1>2, <2>1
  <2> QED BY <1>1, <1>2, <2>1, <2>2
<1> QED BY <1>3, <1>4, <1>5

\* The letters that stand for one of a slug.
LEMMA Lowered ==
    ASSUME NEW c \in Characters, NEW d \in {"a", "-"}
    PROVE  ToLower(c) = d <=> c \in (IF d = "a" THEN {"a", "A"} ELSE {d})
BY DEF ToLower, Characters

\* A slug is what any of its spellings is normalized to, and nothing else is.
LEMMA Spelling ==
    ASSUME NEW link \in Seq(Characters), NEW s \in Seq({"a", "-"}), s # <<>>, slugPattern(s)
    PROVE  normalizeSlug(link) = s <=> Spells(link, s)
<1> DEFINE n == Len(s)
<1>1. n \in Nat /\ n >= 1 /\ DOMAIN s = 1..n /\ s[1] = "a" /\ s[n] = "a"
      /\ \A i \in 1..n : s[i] \in {"a", "-"}
  BY SlugShape
<1>2. Len(link) \in Nat /\ DOMAIN link = 1..Len(link)
      /\ \A i \in 1..Len(link) : link[i] \in Characters
  OBVIOUS
<1> HIDE DEF n
<1>3. ASSUME normalizeSlug(link) = s PROVE Spells(link, s)
  <2>1. Inked(link) # {}
    <3>1. SUFFICES ASSUME Inked(link) = {} PROVE FALSE
      OBVIOUS
    <3>2. TrimSpace(link) = <<>>
      BY <3>1 DEF TrimSpace
    <3>3. DOMAIN normalizeSlug(link) = DOMAIN TrimSpace(link)
      BY DEF normalizeSlug
    <3>4. DOMAIN s = {} /\ 1 \in DOMAIN s
      BY <1>1, <1>3, <3>2, <3>3
    <3> QED BY <3>4
  <2>2. PICK f, l \in DOMAIN link :
             /\ f <= l /\ link[f] # " " /\ link[l] # " "
             /\ TrimSpace(link) = SubSeq(link, f, l)
             /\ \A i \in DOMAIN link : i < f \/ i > l => link[i] = " "
    BY <2>1, Trimmed
  <2>3. n = l - f + 1 /\ \A i \in 1..n : s[i] = ToLower(link[f + i - 1])
    BY <1>3, <2>2, Normalized DEF n
  <2> DEFINE b == f - 1
  <2>0. f \in 1..Len(link) /\ l \in 1..Len(link)
    BY <1>2
  <2>4. b \in 0..Len(link) /\ b + n <= Len(link)
    BY <1>1, <1>2, <2>0, <2>3
  <2>5. ASSUME NEW i \in DOMAIN link, i \in (b + 1)..(b + n)
        PROVE  link[i] \in (IF s[i - b] = "a" THEN {"a", "A"} ELSE {s[i - b]})
    <3>1. i - b \in 1..n /\ f + (i - b) - 1 = i
      BY <1>1, <1>2, <2>0, <2>5
    <3>2. ToLower(link[i]) = s[i - b]
      BY <2>3, <3>1
    <3> QED BY <1>1, <1>2, <3>1, <3>2, Lowered
  <2>6. ASSUME NEW i \in DOMAIN link, i \notin (b + 1)..(b + n)
        PROVE  link[i] = " "
    <3>1. i < f \/ i > l
      BY <1>1, <1>2, <2>0, <2>3, <2>6
    <3> QED BY <2>2, <3>1
  <2> HIDE DEF b
  <2> QED BY <2>4, <2>5, <2>6 DEF Spells, n
<1>4. ASSUME Spells(link, s) PROVE normalizeSlug(link) = s
  <2>1. PICK b \in 0..Len(link) :
          /\ b + n <= Len(link)
          /\ \A i \in DOMAIN link :
               IF i \in (b + 1)..(b + n)
               THEN link[i] \in (IF s[i - b] = "a" THEN {"a", "A"} ELSE {s[i - b]})
               ELSE link[i] = " "
    BY <1>4 DEF Spells, n
  <2>2. /\ \A i \in (b + 1)..(b + n) : i \in DOMAIN link
        /\ b + 1 \in DOMAIN link /\ b + n \in DOMAIN link
        /\ b + 1 \in (b + 1)..(b + n) /\ b + n \in (b + 1)..(b + n)
        /\ (b + 1) - b = 1 /\ (b + n) - b = n
    <3>0. Len(link) \in Nat
      BY <1>2
    <3>1. b \in Nat /\ n \in Nat /\ n >= 1 /\ Len(link) \in Nat /\ b + n <= Len(link)
      <4>1. b \in Nat
        BY <3>0
      <4>2. b + n <= Len(link)
        BY <2>1
      <4> QED BY <1>1, <3>0, <4>1, <4>2
    <3> QED BY <1>2, <3>1
  <2>3. link[b + 1] # " " /\ link[b + n] # " "
    <3>1. link[b + 1] \in {"a", "A"}
      BY <1>1, <2>1, <2>2
    <3>2. link[b + n] \in {"a", "A"}
      BY <1>1, <2>1, <2>2
    <3> QED BY <3>1, <3>2
  <2>4. Inked(link) # {}
    BY <2>2, <2>3 DEF Inked
  <2>5. PICK f, l \in DOMAIN link :
             /\ f <= l /\ link[f] # " " /\ link[l] # " "
             /\ TrimSpace(link) = SubSeq(link, f, l)
             /\ \A i \in DOMAIN link : i < f \/ i > l => link[i] = " "
    BY <2>4, Trimmed
  <2>6. f = b + 1 /\ l = b + n
    <3>1. f \in (b + 1)..(b + n) /\ l \in (b + 1)..(b + n)
      BY <2>1, <2>5
    <3>2. ~ (b + 1 < f) /\ ~ (b + n > l)
      BY <2>2, <2>3, <2>5
    <3>3. b \in Nat /\ n \in Nat /\ f \in Nat /\ l \in Nat
      BY <1>1, <1>2
    <3> QED BY <3>1, <3>2, <3>3
  <2> DEFINE t == normalizeSlug(link)
  <2>7. t \in Seq({"a", "-", " "}) /\ Len(t) = n /\ \A i \in 1..n : t[i] = ToLower(link[b + i])
    <3>1. /\ t \in Seq({"a", "-", " "}) /\ Len(t) = l - f + 1
          /\ \A i \in 1..(l - f + 1) : t[i] = ToLower(link[f + i - 1])
      BY <2>5, Normalized
    <3>0. b \in Nat /\ n \in Nat
      BY <1>1
    <3>2. l - f + 1 = n /\ \A i \in 1..n : f + i - 1 = b + i
      BY <3>0, <2>6
    <3> QED BY <3>1, <3>2
  <2>8. ASSUME NEW i \in 1..n PROVE t[i] = s[i]
    <3>0. b \in Nat /\ n \in Nat
      BY <1>1
    <3>1. b + i \in (b + 1)..(b + n) /\ (b + i) - b = i
      BY <3>0
    <3>2. link[b + i] \in (IF s[i] = "a" THEN {"a", "A"} ELSE {s[i]})
      BY <2>1, <2>2, <3>1
    <3>3. link[b + i] \in Characters
      BY <1>2, <2>2, <3>1
    <3>4. s[i] \in {"a", "-"}
      BY <1>1
    <3>5. ToLower(link[b + i]) = s[i]
      BY <3>2, <3>3, <3>4, Lowered
    <3> QED BY <2>7, <3>5
  <2> HIDE DEF t
  <2>9. t = s
    <3>1. Len(t) = Len(s) /\ \A i \in 1..Len(t) : t[i] = s[i]
      BY <2>7, <2>8 DEF n
    <3>2. t \in Seq({"a", "-", " "})
      BY <2>7
    <3>3. \A i \in DOMAIN s : s[i] \in {"a", "-", " "}
      BY <1>1
    <3>4. s \in Seq({"a", "-", " "})
      BY <3>3, Narrowed
    <3> QED BY <3>1, <3>2, <3>4, SameSequence
  <2> QED BY <2>9 DEF t
<1> QED BY <1>3, <1>4

\* What is stored for a text is empty or a slug.
LEMMA Stored ==
    ASSUME NEW typed \in Seq(Characters)
    PROVE  LET s == AsStored(typed) IN
             s # <<>> => s \in Seq({"a", "-"}) /\ Len(s) <= MaxSlug /\ slugPattern(s)
<1> DEFINE s == normalizeSlug(typed)
<1>1. SUFFICES ASSUME AsStored(typed) # <<>>
               PROVE  AsStored(typed) \in Seq({"a", "-"}) /\ Len(AsStored(typed)) <= MaxSlug
                      /\ slugPattern(AsStored(typed))
  OBVIOUS
<1>2. AsStored(typed) = s /\ Len(s) <= MaxSlug /\ slugPattern(s)
  BY <1>1 DEF AsStored
<1>3. s \in Seq({"a", "-"})
  <2>1. CASE Inked(typed) = {}
    <3>1. TrimSpace(typed) = <<>>
      BY <2>1 DEF TrimSpace
    <3>2. s = [i \in {} |-> ToLower(<<>>[i])]
      BY <3>1 DEF normalizeSlug
    <3>3. s = <<>>
      <4> HIDE DEF s
      <4>1. s \in [1..0 -> {"a"}]
        BY <3>2
      <4>2. s \in Seq({"a"}) /\ Len(s) = 0
        BY <4>1
      <4> QED BY <4>2
    <3> QED BY <1>1, <1>2, <3>3
  <2>2. CASE Inked(typed) # {}
    <3>1. s \in Seq({"a", "-", " "})
      BY <2>2, Trimmed, Normalized
    <3>2. \A i \in DOMAIN s : s[i] \in {"a", "-"}
      BY <1>2 DEF slugPattern
    <3> HIDE DEF s
    <3> QED BY <3>1, <3>2, Narrowed
  <2> QED BY <2>1, <2>2
<1> QED BY <1>2, <1>3

-----------------------------------------------------------------------------
(* The steps of a request.                                                 *)

LEMMA NoCopy == CopyOf(0) = [buf |-> <<>>, truncated |-> FALSE]
<1>1. Cap \in Nat \ {0}
  BY BoundsAssumption
<1>2. (0 > Cap) = FALSE /\ Bytes(0, 0) = <<>>
  BY <1>1, BytesType
<1> QED BY <1>1, <1>2 DEF CopyOf

LEMMA Starting ==
    ASSUME NEW r \in Routes, NEW b \in Bodies \cup {NoBody}, Begin(r, b)
    PROVE  Inv'
<1>1. MaxBody \in Nat /\ Cap \in Nat /\ Attempts \in Nat \ {0} /\ MaxSlug \in Nat
  BY BoundsAssumption, SlugAssumption
<1>2. /\ route' = r /\ step' = 1 /\ body' = b
      /\ got' = 0 /\ copy' = CopyOf(0) /\ tries' = 0 /\ slug' = <<>>
      /\ written' = FALSE /\ broke' = None /\ reply' = 0 /\ log' = <<>>
  BY NoCopy DEF Begin
<1>3. Len(Program[r]) \in Nat /\ Len(Program[r]) >= 1 /\ DOMAIN Program[r] = 1..Len(Program[r])
  BY RouteFacts
<1>4. TypeOK'
  <2>1. slug' \in Seq({"a", "-"}) /\ Len(slug') <= MaxSlug
    BY <1>1, <1>2
  <2>2. step' \in DOMAIN Program[route'] /\ got' \in 0..(MaxBody + 1) /\ tries' \in 0..(Attempts - 1)
    BY <1>1, <1>2, <1>3
  <2> QED BY <1>2, <2>1, <2>2 DEF TypeOK, CopyOf
<1>5. ProgressInv'
  <2>1. ASSUME NEW i \in DOMAIN Program[r] PROVE ~ (i < step')
    BY <1>2, <1>3
  <2>2. reply' \notin 400..499 /\ ~ written' /\ reply' # 200
    BY <1>2
  <2> QED BY <1>2, <2>1, <2>2 DEF ProgressInv
<1>6. LogInv' /\ SlugInv'
  BY <1>2 DEF LogInv, FailuresLogged, SlugInv
<1> QED BY <1>4, <1>5, <1>6 DEF Inv

\* What every step leaves of the types to the step itself.
LEMMA Typing ==
    ASSUME TypeOK, UNCHANGED <<body, got, copy>>,
           route' \in Routes, step' \in DOMAIN Program[route'], reply' \in Statuses,
           tries' \in 0..(Attempts - 1), written' \in BOOLEAN,
           slug' \in Seq({"a", "-"}), Len(slug') <= MaxSlug
    PROVE  TypeOK'
BY DEF TypeOK, Statuses

\* A check that changes nothing: the request goes on or is refused.
LEMMA Checking ==
    ASSUME Inv, reply = 0, At \notin Lasting, At \notin Safe, CheckUnchanged,
           Advance \/ (\E status \in Statuses \ {0, 200, 500} : Answer(status)),
           slug' = slug \/ (\E typed \in Slugs : slug' = AsStored(typed) /\ slug' # <<>>)
    PROVE  Inv'
<1> USE DEF Inv
<1>1. UNCHANGED <<body, got, copy, tries, written, broke, log>>
  BY DEF CheckUnchanged
<1>2. /\ route' \in Routes /\ step' \in DOMAIN Program[route'] /\ reply' \in Statuses \ {500}
      /\ ProgressInv'
  <2>1. CASE Advance
    BY <1>1, <2>1, Advancing DEF Statuses
  <2>2. ASSUME NEW status \in Statuses \ {0, 200, 500}, Answer(status)
        PROVE  /\ route' \in Routes /\ step' \in DOMAIN Program[route']
               /\ reply' \in Statuses \ {500} /\ ProgressInv'
    BY <1>1, <2>2, Answering
  <2> QED BY <2>1, <2>2
<1>3. /\ slug' \in Seq({"a", "-"}) /\ Len(slug') <= MaxSlug
      /\ slug' # <<>> => slugPattern(slug')
  <2>1. CASE slug' = slug
    BY <2>1 DEF TypeOK, SlugInv
  <2>2. ASSUME NEW typed \in Slugs, slug' = AsStored(typed), slug' # <<>>
        PROVE  slug' \in Seq({"a", "-"}) /\ Len(slug') <= MaxSlug /\ slugPattern(slug')
    <3>1. typed \in Seq(Characters)
      BY BoundsAssumption
    <3>2. LET s == AsStored(typed) IN
            s # <<>> => s \in Seq({"a", "-"}) /\ Len(s) <= MaxSlug /\ slugPattern(s)
      BY <3>1, Stored
    <3> QED BY <2>2, <3>2
  <2> QED BY <2>1, <2>2
<1>4. TypeOK'
  <2>1. tries' \in 0..(Attempts - 1) /\ written' \in BOOLEAN
    BY <1>1 DEF TypeOK
  <2> QED BY <1>1, <1>2, <1>3, <2>1, Typing
<1>5. LogInv'
  BY <1>1, <1>2, Quiet
<1> QED BY <1>2, <1>3, <1>4, <1>5 DEF SlugInv

LEMMA Checks ==
    ASSUME Inv, RateLimit \/ Validate \/ CheckPassword \/ pathUUID \/ ValidateWedding
    PROVE  Inv'
<1>1. ASSUME NEW s \in {"limit", "valid", "password", "id", "slug"}, At = s
      PROVE  At \notin Lasting /\ At \notin Safe
  BY <1>1 DEF Lasting, Safe
<1>2. CASE RateLimit
  BY <1>1, <1>2, Checking DEF RateLimit, Statuses
<1>3. CASE Validate
  <2>1. Status(Plain("invalid")) = 400
    BY DEF Status, Plain
  <2> QED BY <1>1, <1>3, <2>1, Checking DEF Validate, Statuses
<1>4. CASE CheckPassword
  <2>1. Status(Plain("credentials")) = 401
    BY DEF Status, Plain
  <2> QED BY <1>1, <1>4, <2>1, Checking DEF CheckPassword, Statuses
<1>5. CASE pathUUID
  BY <1>1, <1>5, Checking DEF pathUUID, Statuses
<1>6. CASE ValidateWedding
  <2>1. Status(Plain("invalid")) = 400
    BY DEF Status, Plain
  <2>2. reply = 0 /\ At = "slug" /\ CheckUnchanged
    BY <1>6 DEF ValidateWedding
  <2>3. Advance \/ (\E status \in Statuses \ {0, 200, 500} : Answer(status))
    BY <1>6, <2>1 DEF ValidateWedding, Statuses
  <2>4. slug' = slug \/ (\E typed \in Slugs : slug' = AsStored(typed) /\ slug' # <<>>)
    BY <1>6 DEF ValidateWedding
  <2> QED BY <1>1, <2>2, <2>3, <2>4, Checking
<1> QED BY <1>2, <1>3, <1>4, <1>5, <1>6

LEMMA Reading == ASSUME Inv, ReadBody PROVE Inv'
<1> USE DEF Inv
<1>1. PICK n \in 1..Chunk :
         /\ got' = got + n /\ got' <= MaxBody + 1 /\ copy' = Captured(n)
         /\ Advance \/ Answer(400) \/ Answer(413) \/ UNCHANGED <<route, step, reply>>
  BY DEF ReadBody
<1>2. reply = 0 /\ At = "body" /\ UNCHANGED <<body, tries, slug, written, broke, log>>
  BY DEF ReadBody
<1>3. At \notin Lasting /\ At \notin Safe
  BY <1>2 DEF Lasting, Safe
<1>4. /\ route' \in Routes /\ step' \in DOMAIN Program[route'] /\ reply' \in Statuses \ {500}
      /\ ProgressInv'
  <2>1. CASE Advance
    BY <1>2, <1>3, <2>1, Advancing DEF Statuses
  <2>2. ASSUME NEW status \in {400, 413}, Answer(status)
        PROVE  /\ route' \in Routes /\ step' \in DOMAIN Program[route']
               /\ reply' \in Statuses \ {500} /\ ProgressInv'
    <3>1. status \in Statuses \ {0, 200, 500}
      BY DEF Statuses
    <3> QED BY <1>2, <1>3, <2>2, <3>1, Answering
  <2>3. CASE UNCHANGED <<route, step, reply>>
    <3>1. reply' = 0 /\ At' = At
      BY <1>2, <2>3 DEF At
    <3> QED BY <1>2, <2>3, <3>1 DEF TypeOK, ProgressInv, Statuses
  <2> QED BY <1>1, <2>1, <2>2, <2>3
<1>5. got' \in 0..(MaxBody + 1) /\ copy' = CopyOf(got')
  <2>1. MaxBody \in Nat /\ Chunk \in Nat
    BY BoundsAssumption
  <2>2. got \in Nat /\ copy = CopyOf(got) /\ n \in Nat \ {0}
    BY <2>1 DEF TypeOK, CopyOf
  <2> QED BY <1>1, <2>1, <2>2, Capturing
<1>6. TypeOK'
  BY <1>2, <1>4, <1>5 DEF TypeOK, CopyOf, Statuses
<1>7. LogInv'
  BY <1>2, <1>4, Quiet
<1> QED BY <1>2, <1>4, <1>6, <1>7 DEF SlugInv

LEMMA Ending == ASSUME Inv, BodyEnds PROVE Inv'
<1> USE DEF Inv
<1>1. /\ reply = 0 /\ At = "body" /\ Answer(400)
      /\ UNCHANGED <<body, got, copy, tries, slug, written, broke, log>>
  BY DEF BodyEnds, BodyUnchanged
<1>2. At \notin Safe
  BY <1>1 DEF Safe
<1>3. /\ route' \in Routes /\ step' \in DOMAIN Program[route'] /\ reply' = 400
      /\ ProgressInv'
  BY <1>1, <1>2, Answering DEF Statuses
<1>4. TypeOK'
  BY <1>1, <1>3 DEF TypeOK
<1>5. LogInv'
  BY <1>1, <1>3, Quiet
<1> QED BY <1>1, <1>3, <1>4, <1>5 DEF SlugInv

\* A statement answers: the request goes on, is refused without anything
\* written, or failed and is logged.
LEMMA Asked ==
    ASSUME Inv, reply = 0, UNCHANGED <<body, got, copy, slug>>, tries' \in 0..(Attempts - 1),
           written' \in BOOLEAN,
           route' \in Routes, step' \in DOMAIN Program[route'], reply' \in Statuses,
           ProgressInv', LogInv'
    PROVE  Inv'
<1>1. TypeOK'
  BY Typing DEF Inv, TypeOK
<1> QED BY <1>1 DEF Inv, SlugInv

LEMMA Succeeding == ASSUME Inv, Succeeds PROVE Inv'
<1> USE DEF Inv
<1>1. /\ reply = 0 /\ Advance /\ written' = (written \/ At \in Lasting)
      /\ UNCHANGED <<body, got, copy, tries, slug, broke, log>>
  BY DEF Succeeds, Asking, BodyUnchanged
<1>2. /\ route' \in Routes /\ step' \in DOMAIN Program[route'] /\ reply' \in {0, 200}
      /\ ProgressInv'
  BY <1>1, Advancing
<1>3. LogInv'
  BY <1>1, <1>2, Quiet
<1>4. tries' \in 0..(Attempts - 1) /\ written' \in BOOLEAN /\ reply' \in Statuses
  BY <1>1, <1>2 DEF TypeOK, Statuses
<1> QED BY <1>1, <1>2, <1>3, <1>4, Asked

LEMMA Refusing == ASSUME Inv, Refused PROVE Inv'
<1> USE DEF Inv
<1>1. /\ reply = 0 /\ At \in Lasting \cup Passing
      /\ UNCHANGED <<body, got, copy, tries, slug, written>>
  BY DEF Refused, Asking, BodyUnchanged
<1>2. PICK kind \in Refusals(At) \ {"duplicate"} :
         IF At = "logout" THEN Advance /\ UNCHANGED <<broke, log>>
         ELSE Missing(Translated(At, Plain(kind)))
  BY DEF Refused
<1>3. tries' \in 0..(Attempts - 1) /\ written' \in BOOLEAN
  BY <1>1 DEF TypeOK
<1>4. CASE At = "logout"
  <2>1. /\ route' \in Routes /\ step' \in DOMAIN Program[route'] /\ reply' \in {0, 200}
        /\ ProgressInv'
    BY <1>1, <1>2, <1>4, Advancing
  <2>2. LogInv'
    BY <1>1, <1>2, <1>4, <2>1, Quiet
  <2> QED BY <1>1, <1>3, <2>1, <2>2, Asked DEF Statuses
<1>5. CASE At \notin {"logout", "home"}
  <2> DEFINE err == Translated(At, Plain(kind))
  <2>1. \/ kind = "invalid" /\ At = "free"
        \/ kind = "notfound" /\ At \notin {"token", "save"}
    BY <1>2 DEF Refusals, Counted
  <2>2. \/ Status(err) \in {400, 401} /\ At \notin Safe
        \/ Status(err) = 404 /\ (At \notin Safe \/ At = "reload")
    <3>1. CASE kind = "invalid" /\ At = "free"
      <4>1. err = Plain("invalid") /\ At \notin Safe
        BY <3>1 DEF Translated, Safe
      <4> QED BY <4>1 DEF Status, Plain
    <3>2. CASE kind = "notfound" /\ At \in {"session", "admin"}
      <4>1. err = Plain("credentials") /\ At \notin Safe
        BY <3>2 DEF Translated, Authenticated, Plain, Safe
      <4> QED BY <4>1 DEF Status, Plain
    <3>3. CASE kind = "notfound" /\ At \notin {"session", "admin", "token", "save", "home"}
      <4>1. err = Plain("notfound")
        BY <3>3 DEF Translated, slugConflict, Plain
      <4>2. Status(err) = 404
        BY <4>1 DEF Status, Plain
      <4> QED BY <3>3, <4>2 DEF Safe
    <3> QED BY <1>5, <2>1, <3>1, <3>2, <3>3
  <2>3. Missing(err)
    BY <1>2, <1>5
  <2> HIDE DEF err
  <2>4. Answer(Status(err)) /\ UNCHANGED <<broke, log>>
    BY <2>2, <2>3 DEF Missing, Fail
  <2>5. /\ route' \in Routes /\ step' \in DOMAIN Program[route'] /\ reply' = Status(err)
        /\ ProgressInv'
    BY <1>1, <2>2, <2>4, Answering DEF Statuses
  <2>6. LogInv'
    BY <1>1, <2>2, <2>4, <2>5, Quiet
  <2> QED BY <1>1, <1>3, <2>2, <2>5, <2>6, Asked DEF Statuses
<1>6. CASE At = "home"
  <2> DEFINE err == Plain("internal")
  <2>1. kind = "notfound" /\ At \notin Safe
    BY <1>2, <1>6 DEF Refusals, Safe
  <2>2. Translated(At, Plain(kind)) = err
    BY <1>6, <2>1 DEF Translated, Homeless, Plain
  <2>3. Status(err) = 500 /\ err.origin = None
    BY DEF Status, Plain
  <2>4. Missing(err)
    BY <1>2, <1>6, <2>2
  <2> HIDE DEF err
  <2>5. Answer(500) /\ LogError(err) /\ broke' = "home"
    BY <1>6, <2>3, <2>4 DEF Missing, Fail
  <2>6. /\ route' \in Routes /\ step' \in DOMAIN Program[route'] /\ reply' = 500
        /\ ProgressInv'
    BY <1>1, <2>5, Answering DEF Statuses
  <2>7. LogInv'
    BY <1>1, <2>3, <2>5, <2>6, Failing DEF None
  <2> QED BY <1>1, <1>3, <2>6, <2>7, Asked DEF Statuses
<1> QED BY <1>4, <1>5, <1>6

LEMMA Colliding == ASSUME Inv, Collides PROVE Inv'
<1> USE DEF Inv
<1>1. reply = 0 /\ UNCHANGED <<body, got, copy, slug, written>>
  BY DEF Collides, Asking, BodyUnchanged
<1>2. At \in {"register", "rename", "invite"} /\ At \notin Safe
  BY DEF Collides, Refusals, Safe
<1>3. Attempts \in Nat \ {0} /\ tries \in 0..(Attempts - 1) /\ written' \in BOOLEAN
  BY <1>1, BoundsAssumption DEF TypeOK
<1>4. CASE At # "invite"
  <2> DEFINE err == Translated(At, Plain("duplicate"))
  <2>1. Fail(err) /\ UNCHANGED <<tries, broke>>
    BY <1>4 DEF Collides
  <2>2. Status(err) = 400
    <3>1. err = Plain("invalid")
      BY <1>2, <1>4 DEF Translated, slugConflict, Plain
    <3> QED BY <3>1 DEF Status, Plain
  <2> HIDE DEF err
  <2>3. Answer(400) /\ UNCHANGED log
    BY <2>1, <2>2 DEF Fail
  <2>4. /\ route' \in Routes /\ step' \in DOMAIN Program[route'] /\ reply' = 400
        /\ ProgressInv'
    BY <1>1, <1>2, <2>3, Answering DEF Statuses
  <2>5. LogInv'
    BY <1>1, <2>1, <2>3, <2>4, Quiet
  <2> QED BY <1>1, <1>3, <2>1, <2>4, <2>5, Asked DEF Statuses
<1>5. CASE At = "invite" /\ tries + 1 < Attempts /\ tries' = tries + 1 /\ step' = step - 1
           /\ UNCHANGED <<route, broke, reply, log>>
  <2>1. /\ step \in 1..Len(Program[route]) /\ Len(Program[route]) \in Nat
        /\ DOMAIN Program[route] = 1..Len(Program[route]) /\ step > 1
    BY <1>5, Here
  <2>2. route' \in Routes /\ step' \in DOMAIN Program[route'] /\ tries' \in 0..(Attempts - 1)
    BY <1>3, <1>5, <2>1 DEF TypeOK
  <2>3. ~ written
    BY <1>1, <1>2, <2>1 DEF ProgressInv, At
  <2>4. ProgressInv'
    <3>1. \A i \in DOMAIN Program[route] : i < step' => i < step
      BY <1>5, <2>1
    <3>2. reply' = 0 /\ ~ written' /\ route' = route
      BY <1>1, <1>5, <2>3
    <3> QED BY <1>1, <3>1, <3>2 DEF ProgressInv
  <2>5. LogInv' /\ reply' \in Statuses
    BY <1>1, <1>5, Quiet DEF Statuses
  <2> QED BY <1>1, <1>3, <2>2, <2>4, <2>5, Asked
<1>6. CASE At = "invite" /\ Fail(Plain("duplicate")) /\ broke' = "codes" /\ UNCHANGED tries
  <2>1. Status(Plain("duplicate")) = 500 /\ Plain("duplicate").origin = None
    BY DEF Status, Plain
  <2>2. Answer(500) /\ LogError(Plain("duplicate"))
    BY <1>6, <2>1 DEF Fail
  <2>3. /\ route' \in Routes /\ step' \in DOMAIN Program[route'] /\ reply' = 500
        /\ ProgressInv'
    BY <1>1, <2>2, Answering DEF Statuses
  <2>4. LogInv'
    BY <1>1, <1>6, <2>1, <2>2, <2>3, Failing DEF None
  <2> QED BY <1>1, <1>3, <1>6, <2>3, <2>4, Asked DEF Statuses
<1> QED BY <1>4, <1>5, <1>6 DEF Collides

LEMMA Breaking == ASSUME Inv, Breaks PROVE Inv'
<1> USE DEF Inv
<1> DEFINE function == Named(At)
           err == Translated(At, Wrap(Plain("driver"), function))
<1>1. /\ reply = 0 /\ At \in Lasting \cup Passing /\ Fail(err) /\ broke' = At
      /\ written' \in {written, written \/ At \in Lasting}
      /\ UNCHANGED <<body, got, copy, tries, slug>>
  BY DEF Breaks, Asking, BodyUnchanged
<1>2. err = [kind |-> "driver", origin |-> function]
  <2> HIDE DEF function
  <2>1. Wrap(Plain("driver"), function) = [kind |-> "driver", origin |-> function]
    BY DEF Wrap, Plain
  <2> QED BY <2>1 DEF Translated, Authenticated, Homeless, slugConflict
<1>3. Status(err) = 500 /\ err.origin = function
  <2> HIDE DEF function, err
  <2> QED BY <1>2 DEF Status
<1>4. At # None /\ function # None
  BY <1>1 DEF Lasting, Passing, None, Named, Counted
<1>5. written' \in BOOLEAN /\ (written => written') /\ tries' \in 0..(Attempts - 1)
  BY <1>1 DEF TypeOK
<1> HIDE DEF err
<1>6. Answer(500) /\ LogError(err)
  BY <1>1, <1>3 DEF Fail
<1>7. /\ route' \in Routes /\ step' \in DOMAIN Program[route'] /\ reply' = 500
      /\ ProgressInv'
  BY <1>1, <1>5, <1>6, Answering DEF Statuses
<1>8. LogInv'
  BY <1>1, <1>3, <1>4, <1>6, <1>7, Failing
<1> QED BY <1>1, <1>5, <1>7, <1>8, Asked DEF Statuses

-----------------------------------------------------------------------------
(* The theorems.                                                           *)

\* In every state what a request has written fits the steps it has done and
\* those to come, and what is logged fits what has failed.
THEOREM Inductive == Spec => []Inv
<1>1. Init => Inv
  <2> SUFFICES ASSUME Init PROVE Inv
    OBVIOUS
  <2>1. MaxBody \in Nat /\ Cap \in Nat /\ Attempts \in Nat \ {0} /\ MaxSlug \in Nat
    BY BoundsAssumption, SlugAssumption
  <2>2. /\ route = "GetWedding" /\ step = 1 /\ body = NoBody
        /\ got = 0 /\ copy = CopyOf(0) /\ tries = 0 /\ slug = <<>>
        /\ written = FALSE /\ broke = None /\ reply = 0 /\ log = <<>>
    BY NoCopy DEF Init
  <2>3. route \in Routes
    <3>1. "GetWedding" \in DOMAIN WeddingHandlers
      BY DEF WeddingHandlers
    <3> QED BY <2>2, <3>1 DEF Routes, Handlers
  <2>4. /\ Len(Program[route]) \in Nat /\ Len(Program[route]) >= 1
        /\ DOMAIN Program[route] = 1..Len(Program[route])
    BY <2>3, RouteFacts
  <2>5. TypeOK
    <3>1. slug \in Seq({"a", "-"}) /\ Len(slug) <= MaxSlug
      BY <2>1, <2>2
    <3>2. step \in DOMAIN Program[route] /\ got \in 0..(MaxBody + 1) /\ tries \in 0..(Attempts - 1)
      BY <2>1, <2>2, <2>4
    <3> QED BY <2>2, <2>3, <3>1, <3>2 DEF TypeOK, CopyOf
  <2>6. ProgressInv
    <3>1. ASSUME NEW i \in DOMAIN Program[route] PROVE ~ (i < step)
      BY <2>2, <2>4
    <3>2. reply \notin 400..499 /\ ~ written /\ reply # 200
      BY <2>2
    <3> QED BY <2>2, <3>1, <3>2 DEF ProgressInv
  <2>7. LogInv /\ SlugInv
    BY <2>2 DEF LogInv, FailuresLogged, SlugInv
  <2> QED BY <2>5, <2>6, <2>7 DEF Inv
<1>2. Inv /\ [Next]_vars => Inv'
  <2> SUFFICES ASSUME Inv, [Next]_vars PROVE Inv'
    OBVIOUS
  <2>1. CASE Start
    BY <2>1, Starting DEF Start
  <2>2. CASE RateLimit \/ Validate \/ CheckPassword \/ pathUUID \/ ValidateWedding
    BY <2>2, Checks
  <2>3. CASE ReadBody
    BY <2>3, Reading
  <2>4. CASE BodyEnds
    BY <2>4, Ending
  <2>5. CASE Succeeds
    BY <2>5, Succeeding
  <2>6. CASE Refused
    BY <2>6, Refusing
  <2>7. CASE Collides
    BY <2>7, Colliding
  <2>8. CASE Breaks
    BY <2>8, Breaking
  <2>9. CASE UNCHANGED vars
    BY <2>9 DEF vars, Inv, TypeOK, ProgressInv, LogInv, FailuresLogged, SlugInv, At
  <2> QED BY <2>1, <2>2, <2>3, <2>4, <2>5, <2>6, <2>7, <2>8, <2>9 DEF Next
<1> QED BY <1>1, <1>2, PTL DEF Spec

\* The copy that may be logged is always the first bytes of the body that were
\* read, cut at its limit and marked as cut exactly when something is missing;
\* (bodyCapture.Read); and all other variables have their types.
THEOREM Typed == Spec => []TypeOK
<1>1. Inv => TypeOK
  BY DEF Inv
<1> QED BY <1>1, Inductive, PTL

\* A refusal means that nothing was changed, but for what is gone when it is
\* read back, and a success that the change was made (writeUsecaseError and the
\* order of the statements in every handler).
THEOREM RepliesAreTrue == Spec => []RepliesTellEffects
<1>1. Inv => RepliesTellEffects
  <2> SUFFICES ASSUME Inv PROVE RepliesTellEffects
    OBVIOUS
  <2>1. ASSUME reply = 200, route \in Writing \ {"Logout"} PROVE written
    <3>1. PICK i \in DOMAIN Program[route] : Program[route][i] \in Lasting
      BY <2>1 DEF Writing
    <3> QED BY <2>1, <3>1 DEF Inv, ProgressInv
  <2> QED BY <2>1 DEF Inv, ProgressInv, RepliesTellEffects
<1> QED BY <1>1, Inductive, PTL

\* Every failure is a 500 with one line in the log, and nothing else is logged.
\* The line names no function but the one that failed or its helper, names none
\* only if no invite code was free or a guest has no wedding, and shows no body
\* that was cut or not understood (LogError, redactedPayload, errtrace.Wrap).
THEOREM FailuresAreLogged == Spec => []FailuresLogged
<1>1. Inv => FailuresLogged
  BY DEF Inv, LogInv
<1> QED BY <1>1, Inductive, PTL

\* A wedding is found under its slug in any case and between blanks, and under
\* nothing else, and a slug has no empty segment (normalizeSlug, slugPattern).
THEOREM SlugsAreFound == Spec => []SlugsFound
<1>1. Inv => SlugsFound
  <2> SUFFICES ASSUME Inv, slug # <<>>
               PROVE  /\ \A link \in Slugs : normalizeSlug(link) = slug <=> Spells(link, slug)
                      /\ slug[1] = "a" /\ slug[Len(slug)] = "a"
                      /\ \A i \in 2..Len(slug) : "a" \in {slug[i - 1], slug[i]}
    BY DEF SlugsFound
  <2>1. slug \in Seq({"a", "-"}) /\ slugPattern(slug)
    BY DEF Inv, TypeOK, SlugInv
  <2>2. ASSUME NEW link \in Slugs PROVE normalizeSlug(link) = slug <=> Spells(link, slug)
    <3>1. link \in Seq(Characters)
      BY BoundsAssumption
    <3> QED BY <2>1, <3>1, Spelling
  <2> QED BY <2>1, <2>2, SlugShape
<1> QED BY <1>1, Inductive, PTL

\* A slug that is stored is stored again as it is, when an update of the
\* wedding sends it back (WeddingInput.validate).
THEOREM SlugsAreStable == Spec => [](slug # <<>> => AsStored(slug) = slug)
<1>1. Inv => (slug # <<>> => AsStored(slug) = slug)
  <2> SUFFICES ASSUME Inv, slug # <<>> PROVE AsStored(slug) = slug
    OBVIOUS
  <2>1. slug \in Seq({"a", "-"}) /\ slugPattern(slug) /\ Len(slug) <= MaxSlug
    BY DEF Inv, TypeOK, SlugInv
  <2>2. Len(slug) \in Nat /\ DOMAIN slug = 1..Len(slug)
        /\ \A i \in DOMAIN slug : slug[i] \in {"a", "-"}
    BY <2>1
  <2>3. slug \in Seq(Characters)
    <3>1. \A i \in DOMAIN slug : slug[i] \in Characters
      BY <2>2 DEF Characters
    <3> QED BY <2>1, <3>1, Narrowed
  <2>4. Spells(slug, slug)
    <3>1. 0 \in 0..Len(slug) /\ 0 + Len(slug) <= Len(slug)
      BY <2>2
    <3>2. ASSUME NEW i \in DOMAIN slug
          PROVE  /\ i \in (0 + 1)..(0 + Len(slug)) /\ i - 0 = i
                 /\ slug[i] \in (IF slug[i] = "a" THEN {"a", "A"} ELSE {slug[i]})
      BY <2>2
    <3> QED BY <3>1, <3>2 DEF Spells
  <2>5. normalizeSlug(slug) = slug
    BY <2>1, <2>3, <2>4, Spelling
  <2> QED BY <2>1, <2>5 DEF AsStored
<1> QED BY <1>1, Inductive, PTL
=============================================================================
