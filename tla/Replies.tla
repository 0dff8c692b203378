------------------------------ MODULE Replies ------------------------------
(***************************************************************************)
(* One request, from the bytes of its body to its reply and to the line    *)
(* that is logged when it fails: which checks it passes in which order,    *)
(* what every check and every statement may answer, how an error travels   *)
(* from the repository to the reply, and what the log keeps of the body.   *)
(*                                                                         *)
(* The tables are not part of this module: whatever other requests do, a   *)
(* statement finds a row or not, and it takes effect or fails.             *)
(***************************************************************************)
EXTENDS Naturals, Sequences, Texts

CONSTANTS
    MaxBody,   \* maxBodyBytes
    Cap,       \* maxLoggedBody
    Attempts,  \* inviteCodeAttempts
    Bodies,    \* bound: bodies sent
    Chunk,     \* bound: bytes that arrive at once
    Slugs      \* bound: slugs as admins and links spell them

\* value: length of the first JSON value; kind: a "whole" object of known
\* fields, one with an "unknown" field, "garbage" that no more bytes can make
\* a value of, or a value that is "open" at the end of the body.  after: bytes
\* behind it, which are white space if blank.
Body == [value : Nat, kind : {"whole", "unknown", "garbage", "open"},
         after : Nat, blank : BOOLEAN]

ASSUME BoundsAssumption ==
    /\ MaxBody \in Nat /\ Cap \in Nat \ {0} /\ Attempts \in Nat \ {0} /\ Chunk \in Nat
    /\ Slugs \subseteq Seq(Characters)
    /\ Bodies \subseteq Body /\ \A b \in Bodies : b.kind = "open" => b.after = 0

\* RequireAdmin and RequireWeddingAccess, before every handler under /admin/w.
Access == <<"session", "wedding", "granted">>

\* The checks and statements of each handler, in their order, by source file.
RSVPHandlers ==
    [GetInvitation  |-> <<"limit", "guest", "home", "rows", "rows">>,
     GetGuestByCode |-> <<"limit", "guest">>,
     SubmitRSVP     |-> <<"limit", "body", "guest", "valid", "edit">>]

AuthHandlers ==
    [Login  |-> <<"limit", "body", "valid", "admin", "password", "prune", "token", "save">>,
     Logout |-> <<"session", "logout">>,
     Me     |-> <<"session", "rows">>]

WeddingHandlers ==
    [GetWedding    |-> <<"wedding", "rows">>,
     CreateWedding |-> <<"session", "body", "slug", "free", "begin", "register", "own", "commit",
                         "reload">>,
     UpdateWedding |-> Access \o <<"body", "wedding", "slug", "free", "rename", "reload">>]

WishHandlers ==
    [ListWishes      |-> <<"wedding", "rows">>,
     ListAllWishes   |-> Access \o <<"wedding", "rows">>,
     CreateWish      |-> <<"limit", "body", "wedding", "valid", "insert">>,
     SetWishApproval |-> Access \o <<"id", "body", "wedding", "edit">>,
     DeleteWish      |-> Access \o <<"id", "wedding", "edit">>]

GuestHandlers ==
    [ListGuests     |-> Access \o <<"wedding", "rows">>,
     CreateGuest    |-> Access \o <<"body", "wedding", "valid", "code", "invite">>,
     UpdateGuest    |-> Access \o <<"id", "body", "wedding", "valid", "edit">>,
     DeleteGuest    |-> Access \o <<"id", "wedding", "edit">>,
     GetRSVPSummary |-> Access \o <<"wedding", "rows">>]

GiftHandlers ==
    [ListGifts  |-> Access \o <<"wedding", "rows">>,
     CreateGift |-> Access \o <<"body", "wedding", "valid", "insert">>,
     DeleteGift |-> Access \o <<"id", "wedding", "edit">>]

EventHandlers ==
    [CreateEvent |-> Access \o <<"body", "wedding", "valid", "insert">>,
     DeleteEvent |-> Access \o <<"id", "wedding", "edit">>]

Handlers ==
    {RSVPHandlers, AuthHandlers, WeddingHandlers, WishHandlers, GuestHandlers, GiftHandlers,
     EventHandlers}

Routes == UNION {DOMAIN file : file \in Handlers}

Program == [r \in Routes |-> (CHOOSE file \in Handlers : r \in DOMAIN file)[r]]

\* Statements that change a row for good when they take effect.
Lasting == {"prune", "save", "insert", "invite", "edit", "logout", "rename", "commit"}

Writing == {r \in Routes : \E i \in DOMAIN Program[r] : Program[r][i] \in Lasting}

VARIABLES
    route, step,  \* what the request does next
    body, got,    \* what is sent with it, and how many bytes of that were read
    copy,         \* bodyCapture
    tries,        \* codes drawn
    slug,         \* the slug stored
    written,      \* history: a statement of the request took effect for good
    broke,        \* history: the step that failed for a reason of its own
    reply,        \* the status, 0 before there is one
    log           \* the ERROR lines

vars == <<route, step, body, got, copy, tries, slug, written, broke, reply, log>>

None == "none"

NoBody == [value |-> 0, kind |-> "open", after |-> 0, blank |-> TRUE]

Begin(r, b) ==
    /\ route' = r /\ step' = 1 /\ body' = b
    /\ got' = 0 /\ copy' = [buf |-> <<>>, truncated |-> FALSE]
    /\ tries' = 0 /\ slug' = <<>>
    /\ written' = FALSE /\ broke' = None /\ reply' = 0 /\ log' = <<>>

Init ==
    /\ route = "GetWedding" /\ step = 1 /\ body = NoBody
    /\ got = 0 /\ copy = [buf |-> <<>>, truncated |-> FALSE]
    /\ tries = 0 /\ slug = <<>>
    /\ written = FALSE /\ broke = None /\ reply = 0 /\ log = <<>>

At == Program[route][step]

-----------------------------------------------------------------------------
(* Errors.                                                                 *)

\* What an error is to errors.Is and errors.As, and the function errtrace.Wrap
\* recorded on it.
Plain(kind) == [kind |-> kind, origin |-> None]

\* errtrace.Wrap: the first function that wraps an error is kept.
Wrap(err, function) == IF err.origin # None THEN err ELSE [err EXCEPT !.origin = function]

\* These statements share a helper that counts the rows, and it is the helper
\* that wraps their errors.
Counted == {"edit", "logout", "rename"}

\* The function that wraps what the driver answered to a step.
Named(s) == IF s \in Counted THEN "requireAffected" ELSE s

\* Authenticate and Login: no session or account is bad credentials, any other
\* error is passed on.
Authenticated(err) == IF err.kind = "notfound" THEN Plain("credentials") ELSE err

\* A duplicate means that a concurrent request took the slug.
slugConflict(err) == IF err.kind = "duplicate" THEN Plain("invalid") ELSE err

\* A guest without a wedding is a failure, and its error forgets the other.
Homeless(err) == IF err.kind = "notfound" THEN Plain("internal") ELSE err

\* What a usecase makes of the error of a repository.
Translated(s, err) ==
    IF s \in {"session", "admin"} THEN Authenticated(err)
    ELSE IF s \in {"register", "rename"} THEN slugConflict(err)
    ELSE IF s = "home" THEN Homeless(err)
    ELSE err

\* writeUsecaseError, which RequireAdmin and RequireWeddingAccess agree with.
Status(err) ==
    CASE err.kind = "invalid"     -> 400
      [] err.kind = "credentials" -> 401
      [] err.kind = "notfound"    -> 404
      [] OTHER                    -> 500

-----------------------------------------------------------------------------
(* The log.                                                                *)

\* Mutant: what cannot be taken apart is logged as it is.
Payload_Raw(c) == IF c.buf = <<>> THEN None ELSE IF c.truncated THEN "withheld" ELSE "fields"

\* redactedPayload: the copy is one whole JSON object, nothing but white space
\* follows, or nothing of it is shown.
Payload(c) ==
    IF c.buf = <<>> THEN None
    ELSE IF /\ ~ c.truncated
            /\ body.kind \in {"whole", "unknown"} /\ Len(c.buf) >= body.value
            /\ Len(c.buf) > body.value => body.blank
         THEN "fields" ELSE "withheld"

LogError(err) == log' = Append(log, [origin |-> err.origin, payload |-> Payload(copy)])

-----------------------------------------------------------------------------
(* The steps.                                                              *)

Answer(status) == reply' = status /\ UNCHANGED <<route, step>>

\* The last step is followed by the response of the handler, 200 or 201.
Advance ==
    IF step = Len(Program[route])
    THEN Answer(200)
    ELSE step' = step + 1 /\ UNCHANGED <<route, reply>>

BodyUnchanged == UNCHANGED <<body, got, copy>>

\* The request is refused or fails with an error; only a failure is logged.
Fail(err) ==
    /\ Answer(Status(err))
    /\ IF Status(err) = 500 THEN LogError(err) ELSE UNCHANGED log

Start ==
    /\ reply # 0
    /\ \E r \in Routes :
         \E b \in IF "body" \in {Program[r][i] : i \in DOMAIN Program[r]}
                  THEN Bodies ELSE {NoBody} : Begin(r, b)

\* Everything else stays as it is while the request itself is checked.
CheckUnchanged == UNCHANGED <<body, got, copy, tries, written, broke, log>>

\* The counter of the client is above its limit, or not.
RateLimit ==
    /\ reply = 0 /\ At = "limit"
    /\ Advance \/ Answer(429)
    /\ CheckUnchanged /\ UNCHANGED slug

\* The fields are as they should be, or not.
Validate ==
    /\ reply = 0 /\ At = "valid"
    /\ Advance \/ Answer(Status(Plain("invalid")))
    /\ CheckUnchanged /\ UNCHANGED slug

CheckPassword ==
    /\ reply = 0 /\ At = "password"
    /\ Advance \/ Answer(Status(Plain("credentials")))
    /\ CheckUnchanged /\ UNCHANGED slug

\* The id in the path has the form of one, or nothing can have it.
pathUUID ==
    /\ reply = 0 /\ At = "id"
    /\ Advance \/ Answer(404)
    /\ CheckUnchanged /\ UNCHANGED slug

\* The fields of a wedding, of which the slug is one.
ValidateWedding ==
    /\ reply = 0 /\ At = "slug"
    /\ \/ \E typed \in Slugs :
            /\ AsStored(typed) # <<>>
            /\ slug' = AsStored(typed)
            /\ Advance
       \/ Answer(Status(Plain("invalid"))) /\ UNCHANGED slug
    /\ CheckUnchanged

Bytes(from, n) == [i \in 1..n |-> from + i]

\* Mutant: the copy counts as cut when it is just full.
Captured_AtLimit(n) ==
    LET room == Cap - Len(copy.buf)
    IN IF room <= n THEN [buf |-> copy.buf \o Bytes(got, room), truncated |-> TRUE]
       ELSE [copy EXCEPT !.buf = @ \o Bytes(got, n)]

\* bodyCapture.Read, when the next n bytes have arrived.
Captured(n) ==
    LET room == Cap - Len(copy.buf)
    IN IF room < n THEN [buf |-> copy.buf \o Bytes(got, room), truncated |-> TRUE]
       ELSE [copy EXCEPT !.buf = @ \o Bytes(got, n)]

\* decodeJSON: some bytes arrive, at most one more than is allowed.  The value
\* is decoded as soon as its last byte is there, whatever follows.
ReadBody ==
    /\ reply = 0 /\ At = "body"
    /\ \E n \in 1..Chunk :
         LET read == got + n IN
         /\ read <= body.value + body.after /\ read <= MaxBody + 1
         /\ got' = read
         /\ copy' = Captured(n)
         /\ IF body.kind # "open" /\ body.value <= read /\ body.value <= MaxBody
            THEN IF body.kind = "whole" THEN Advance ELSE Answer(400)
            ELSE IF read > MaxBody THEN Answer(413) ELSE UNCHANGED <<route, step, reply>>
    /\ UNCHANGED <<body, tries, slug, written, broke, log>>

\* The body ends before its value does, or the connection fails.
BodyEnds ==
    /\ reply = 0 /\ At = "body"
    /\ Answer(400)
    /\ BodyUnchanged /\ UNCHANGED <<tries, slug, written, broke, log>>

\* The other steps that ask the database, or the random generator.
Passing == {"session", "wedding", "granted", "guest", "home", "rows", "admin", "token", "code",
            "free", "begin", "register", "own", "reload"}

\* How a step can end without having failed: no such row, or one in the way.
Refusals(s) ==
    (IF s \in {"session", "wedding", "granted", "guest", "home", "admin", "reload"} \cup Counted
     THEN {"notfound"} ELSE {})
      \cup (IF s = "free" THEN {"invalid"} ELSE {})
      \cup (IF s \in {"register", "rename", "invite"} THEN {"duplicate"} ELSE {})

Asking == reply = 0 /\ At \in Lasting \cup Passing

\* The row is missing: a refusal, unless the usecase makes a failure of it.
Missing(err) == Fail(err) /\ broke' = IF Status(err) = 500 THEN At ELSE broke

\* Mutant: nobody looks how many rows an edit has reached.
Refused_Uncounted ==
    /\ Asking
    /\ \E kind \in Refusals(At) \ {"duplicate"} :
         IF At \in {"logout", "edit"} THEN Advance /\ UNCHANGED <<broke, log>>
         ELSE Missing(Translated(At, Plain(kind)))
    /\ BodyUnchanged /\ UNCHANGED <<tries, slug, written>>

\* There is no such row.  That a session is gone is as good as ending it.
Refused ==
    /\ Asking
    /\ \E kind \in Refusals(At) \ {"duplicate"} :
         IF At = "logout" THEN Advance /\ UNCHANGED <<broke, log>>
         ELSE Missing(Translated(At, Plain(kind)))
    /\ BodyUnchanged /\ UNCHANGED <<tries, slug, written>>

\* A row is in the way, of a slug or of an invite code.  Another code is drawn,
\* but not for ever.
Collides ==
    /\ Asking
    /\ "duplicate" \in Refusals(At)
    /\ IF At # "invite" THEN Fail(Translated(At, Plain("duplicate"))) /\ UNCHANGED <<tries, broke>>
       ELSE \/ /\ tries + 1 < Attempts
               /\ tries' = tries + 1 /\ step' = step - 1
               /\ UNCHANGED <<route, broke, reply, log>>
            \/ /\ tries + 1 = Attempts
               /\ Fail(Plain("duplicate")) /\ broke' = "codes"
               /\ UNCHANGED tries
    /\ BodyUnchanged /\ UNCHANGED <<slug, written>>

Succeeds ==
    /\ Asking
    /\ Advance
    /\ written' = (written \/ At \in Lasting)
    /\ BodyUnchanged /\ UNCHANGED <<tries, slug, broke, log>>

\* A lost connection, the timeout, any other error.  A statement that was
\* reported to have failed may have taken effect.
Breaks ==
    /\ Asking
    /\ Fail(Translated(At, Wrap(Plain("driver"), Named(At))))
    /\ broke' = At
    /\ written' \in {written, written \/ At \in Lasting}
    /\ BodyUnchanged /\ UNCHANGED <<tries, slug>>

Next ==
    \/ Start \/ RateLimit \/ Validate \/ CheckPassword \/ pathUUID \/ ValidateWedding
    \/ ReadBody \/ BodyEnds \/ Succeeds \/ Refused \/ Collides \/ Breaks

Spec == Init /\ [][Next]_vars

-----------------------------------------------------------------------------
(* Properties.                                                             *)

\* Types; and the copy for the log is the first bytes that were read, cut at
\* its limit and marked exactly when something is missing.
TypeOK ==
    /\ route \in Routes /\ step \in DOMAIN Program[route]
    /\ body \in Bodies \cup {NoBody} /\ got \in 0..(MaxBody + 1)
    /\ copy = [buf |-> Bytes(0, IF got > Cap THEN Cap ELSE got), truncated |-> got > Cap]
    /\ tries \in 0..(Attempts - 1)
    /\ slug \in Seq({"a", "-"}) /\ Len(slug) <= MaxSlug
    /\ written \in BOOLEAN
    /\ reply \in {0, 200, 400, 401, 404, 413, 429, 500}

\* A refusal means that nothing was changed and a success that the change was
\* made; only after a 500 the client cannot know.  The exceptions: a wedding
\* that is renamed by somebody else before it is read back is a 404 for a write
\* that was made, and logging out of a session that is gone is a success.
RepliesTellEffects ==
    /\ reply = 200 /\ route \in Writing \ {"Logout"} => written
    /\ reply \in 400..499 => ~ written \/ (reply = 404 /\ At = "reload")

\* Every failure is a 500 with one line in the log, and nothing else is either.
\* A line that names a function names the one that failed, or the helper that
\* counts its rows, never another.  Lines without a name, which errtrace.go:1
\* does not expect, are those of the two failures that no repository reports:
\* no free invite code (guest.go:85), and a guest without a wedding
\* (invitation.go:65).  The body is shown only if all of it, and nothing but
\* what the handler has decoded, is in the copy.
FailuresLogged ==
    reply # 0 =>
      /\ reply = 500 <=> broke # None
      /\ Len(log) = IF broke = None THEN 0 ELSE 1
      /\ \A i \in DOMAIN log :
           /\ log[i].origin # None => log[i].origin = Named(broke)
           /\ log[i].origin = None => broke \in {"codes", "home"}
           /\ log[i].payload = None <=> got = 0
           /\ log[i].payload = "fields" =>
                /\ got <= Cap /\ got >= body.value
                /\ got > body.value => body.blank

\* A link spells a slug if it is the slug in any case, between blanks.
Spells(link, s) ==
    \E b \in 0..Len(link) :
      /\ b + Len(s) <= Len(link)
      /\ \A i \in DOMAIN link :
           IF i \in (b + 1)..(b + Len(s))
           THEN link[i] \in (IF s[i - b] = "a" THEN {"a", "A"} ELSE {s[i - b]})
           ELSE link[i] = " "

\* A wedding is found under its slug in any case and between blanks, and under
\* nothing else; its slug neither begins nor ends with a hyphen, nor has two in
\* a row (validate.go:26).
SlugsFound ==
    slug # <<>> =>
      /\ \A link \in Slugs : normalizeSlug(link) = slug <=> Spells(link, slug)
      /\ slug[1] = "a" /\ slug[Len(slug)] = "a"
      /\ \A i \in 2..Len(slug) : "a" \in {slug[i - 1], slug[i]}
=============================================================================
