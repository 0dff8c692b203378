------------------------------ MODULE GuestList ------------------------------
(***************************************************************************)
(* The guest list: admins add, edit and remove guests of their wedding     *)
(* while guests answer by invite code.  One action per SQL statement; slots *)
(* are used again.  An admin request is already scoped to a wedding        *)
(* (module Weddings), a guest's request is addressed by the code alone.    *)
(***************************************************************************)
EXTENDS Integers, FiniteSets, Functions

CONSTANTS
    Slots,           \* slots for concurrent requests
    Weddings,        \* weddings with a guest list
    GuestIds,        \* primary keys; bounds how many guests are ever added
    CodeInputs,      \* invite codes as a guest may type them
    NormalizeCode,   \* normalizeInviteCode, on CodeInputs
    Codes,           \* codes generateInviteCode can draw
    Attempts,        \* inviteCodeAttempts
    MaxInputs,       \* max_guests in a request body
    CountInputs,     \* attending_count in a request body
    None             \* an absent row or field

ASSUME CodeAssumption ==
    /\ Codes \subseteq CodeInputs
    /\ NormalizeCode \in [CodeInputs -> CodeInputs]
    /\ \A c \in Codes : NormalizeCode[c] = c
ASSUME InputAssumption ==
    /\ Attempts \in Nat \ {0}
    /\ MaxInputs \subseteq Int /\ CountInputs \subseteq Int
\* Ids end somewhere, and are not the ids of requests.
ASSUME IdAssumption ==
    /\ IsFiniteSet(GuestIds)
    /\ GuestIds \cap Slots = {}
    /\ None \notin GuestIds

VARIABLES
    guests,     \* the guests table by id
    spent,      \* ids that were ever drawn
    pc,         \* the statement each slot runs next
    req,        \* what each slot was sent and has read so far
    cut         \* history: requests, then guests, whose allowance was lowered
                \* after the lookup their answer was checked against

vars == <<guests, spent, pc, req, cut>>

\* rsvp_message and rsvp_responded_at are written with the count, and left out.
Guest == [wedding : Weddings, code : Codes,
          max    : Nat \ {0},                              \* max_guests
          status : {"pending", "attending", "declined"},   \* rsvp_status
          count  : Nat]                                    \* attending_count

Request == [op      : {"create", "update", "delete", "rsvp"},
            wedding : Weddings \cup {None},    \* scope of an admin request
            guest   : GuestIds \cup {None},    \* {id}, or what the lookup found
            max     : Nat,
            status  : {"attending", "declined", "pending"},
            count   : Nat,
            tries   : 0..Attempts]             \* INSERTs a create has run

\* An absent row is none of the rows, nor an absent request one.
ASSUME RecordAssumption == None \notin Guest /\ None \notin Request

\* Types, and the unique index on invite_code.
TypeOK ==
    /\ guests \in [GuestIds -> Guest \cup {None}]
    /\ \A g, h \in GuestIds :
         guests[g] # None /\ guests[h] # None /\ guests[g].code = guests[h].code => g = h
    /\ spent \subseteq GuestIds
    /\ pc \in [Slots -> {"idle", "insert", "write", "save"}]
    /\ req \in [Slots -> Request \cup {None}]
    /\ cut \subseteq Slots \cup GuestIds

Init ==
    /\ guests = [g \in GuestIds |-> None]
    /\ spent = {}
    /\ pc = [s \in Slots |-> "idle"]
    /\ req = [s \in Slots |-> None]
    /\ cut = {}

-----------------------------------------------------------------------------
Present == {g \in GuestIds : guests[g] # None}

\* GetByInviteCode
ByCode(c) == {g \in Present : guests[g].code = c}

\* Mutant: the row is looked up by its id alone.
Scoped_ById(g, w) == {h \in Present : h = g}

\* WHERE id = $1 AND wedding_id = $2, of Update and Delete.
Scoped(g, w) == {h \in Present : h = g /\ guests[h].wedding = w}

\* Mutant: the default is left to the database, which has one for NULL only.
Allowance_AsSent(max) == max

\* validate: an allowance below one is one.
Allowance(max) == IF max <= 0 THEN 1 ELSE max

Start(s, step, q) ==
    /\ pc[s] = "idle"
    /\ req' = [req EXCEPT ![s] = q]
    /\ pc' = [pc EXCEPT ![s] = step]
    /\ UNCHANGED <<guests, spent, cut>>

Goto(s, step) == pc' = [pc EXCEPT ![s] = step]

Finish(s) == Goto(s, "idle") /\ req' = [req EXCEPT ![s] = None]

\* An error, or the 5 s timeout: the request ends with what it has done.
Fail(s) ==
    /\ pc[s] # "idle"
    /\ Finish(s)
    /\ cut' = cut \ {s}
    /\ UNCHANGED <<guests, spent>>

Blank == [op |-> "create", wedding |-> None, guest |-> None, max |-> 0,
          status |-> "pending", count |-> 0, tries |-> 0]

-----------------------------------------------------------------------------
(* POST /admin/w/{slug}/guests                                             *)

\* A create is started only while an id is left for it.
BeginCreate(s) ==
    /\ Cardinality({q \in Slots : pc[q] = "insert"}) < Cardinality(GuestIds \ spent)
    /\ \E w \in Weddings, m \in MaxInputs :
         Start(s, "insert", [Blank EXCEPT !.op = "create", !.wedding = w,
                                          !.max = Allowance(m)])

NewGuest(s, code) ==
    [wedding |-> req[s].wedding, code |-> code, max |-> req[s].max,
     status |-> "pending", count |-> 0]

\* An INSERT that stores the guest, under a code nobody holds.
Stored(s, c) ==
    /\ ByCode(c) = {}
    /\ \E g \in GuestIds \ spent :
         /\ guests' = [guests EXCEPT ![g] = NewGuest(s, c)]
         /\ spent' = spent \cup {g}

\* A code that somebody else holds: the next one is drawn, or it was the last.
Collided(s, c) ==
    /\ ByCode(c) # {}
    /\ \/ /\ req[s].tries + 1 < Attempts
          /\ req' = [req EXCEPT ![s].tries = @ + 1]
          /\ UNCHANGED pc
       \/ req[s].tries + 1 = Attempts /\ Finish(s)
    /\ UNCHANGED <<guests, spent>>

\* Mutant: any error is retried, not only a collision.
InsertGuest_RetryAnyError(s) ==
    /\ pc[s] = "insert"
    /\ \E c \in Codes :
         \/ Collided(s, c)
         \/ /\ Stored(s, c)
            /\ \/ /\ req[s].tries + 1 < Attempts
                  /\ req' = [req EXCEPT ![s].tries = @ + 1]
                  /\ UNCHANGED pc
               \/ Finish(s)
    /\ UNCHANGED cut

\* newInviteCode and the INSERT.  If the guest was stored the create is over,
\* also when the connection was lost before the answer and a 500 is all the
\* admin sees; an INSERT that failed and stored nothing is Fail.
InsertGuest(s) ==
    /\ pc[s] = "insert"
    /\ \E c \in Codes : Collided(s, c) \/ (Stored(s, c) /\ Finish(s))
    /\ UNCHANGED cut

-----------------------------------------------------------------------------
(* PUT and DELETE /admin/w/{slug}/guests/{id}                              *)

BeginEdit(s) ==
    \E op \in {"update", "delete"}, w \in Weddings, g \in spent, m \in MaxInputs :
      Start(s, "write", [Blank EXCEPT !.op = op, !.wedding = w, !.guest = g,
                                      !.max = Allowance(m)])

\* History: answers in flight for g, and the one g has, become cut.
Cut(g) == {g} \cup {q \in Slots : req[q] # None /\ req[q].op = "rsvp" /\ req[q].guest = g}

\* Mutant: the UPDATE writes every column of the row it was given.
Edited_Whole(g, max) ==
    [guests[g] EXCEPT !.max = max, !.status = "pending", !.count = 0]

\* The columns UpdateGuest sets; the answer is left alone.
Edited(g, max) == [guests[g] EXCEPT !.max = max]

\* UPDATE guests ... WHERE id AND wedding_id; no row is a 404.
UpdateGuest(s) ==
    /\ pc[s] = "write"
    /\ req[s].op = "update"
    /\ LET rows == Scoped(req[s].guest, req[s].wedding)
           lowered == {g \in rows : req[s].max < guests[g].max}
       IN  /\ guests' = [g \in GuestIds |->
                           IF g \in rows THEN Edited(g, req[s].max) ELSE guests[g]]
           /\ cut' = cut \cup UNION {Cut(g) : g \in lowered}
    /\ Finish(s)
    /\ UNCHANGED spent

\* DELETE FROM guests WHERE id AND wedding_id
DeleteGuest(s) ==
    /\ pc[s] = "write"
    /\ req[s].op = "delete"
    /\ LET rows == Scoped(req[s].guest, req[s].wedding)
       IN  /\ guests' = [g \in GuestIds |-> IF g \in rows THEN None ELSE guests[g]]
           /\ cut' = cut \ rows
    /\ Finish(s)
    /\ UNCHANGED spent

-----------------------------------------------------------------------------
(* POST /guests/{code}/rsvp                                                *)

\* Mutant: the count is compared before it is raised to one.
Answer_Unclamped(attending, count) == IF attending THEN count ELSE 0

\* attending_count as it will be stored.
Answer(attending, count) ==
    IF ~ attending THEN 0 ELSE IF count < 1 THEN 1 ELSE count

\* Mutant: off by one.
Exceeds_ByOne(count, max) == count > max + 1

Exceeds(count, max) == count > max

\* GuestByInviteCode finds the guest, and the answer is within the allowance
\* the guest has now.  An answer that is refused leaves no trace.
BeginRSVP(s) ==
    \E c \in CodeInputs, attending \in BOOLEAN, n \in CountInputs :
      \E g \in ByCode(NormalizeCode[c]) :
        LET count == Answer(attending, n) IN
          /\ attending => ~ Exceeds(count, guests[g].max)
          /\ Start(s, "save", [Blank EXCEPT !.op = "rsvp", !.guest = g, !.count = count,
                         !.status = IF attending THEN "attending" ELSE "declined"])

\* The rows WHERE id = $5, with the id the lookup found.
AnswerRows(s) == Present \cap {req[s].guest}

\* SaveRSVP: all its columns at once; a guest deleted meanwhile is a 404.
SaveRSVP(s) ==
    /\ pc[s] = "save"
    /\ guests' = [g \in GuestIds |->
         IF g \in AnswerRows(s)
         THEN [guests[g] EXCEPT !.status = req[s].status, !.count = req[s].count]
         ELSE guests[g]]
    /\ cut' = IF s \in cut THEN (cut \cup AnswerRows(s)) \ {s} ELSE cut \ AnswerRows(s)
    /\ Finish(s)
    /\ UNCHANGED spent

-----------------------------------------------------------------------------
(* GET /admin/w/{slug}/rsvp-summary, one statement                         *)
Answered(w, status) ==
    {g \in Present : guests[g].wedding = w /\ guests[g].status = status}

Count(w, status) == Cardinality(Answered(w, status))

Summary(w) ==
    LET rows == {g \in Present : guests[g].wedding = w}
    IN  [total           |-> Cardinality(rows),
         invited         |-> SumFunction([g \in rows |-> guests[g].max]),
         pending         |-> Count(w, "pending"),
         attending       |-> Count(w, "attending"),
         attendingPeople |-> SumFunction([g \in Answered(w, "attending") |-> guests[g].count]),
         declined        |-> Count(w, "declined")]

-----------------------------------------------------------------------------
Step(s) ==
    \/ InsertGuest(s) \/ UpdateGuest(s) \/ DeleteGuest(s) \/ SaveRSVP(s)

Begin(s) == BeginCreate(s) \/ BeginEdit(s) \/ BeginRSVP(s)

Next == \E s \in Slots : Begin(s) \/ Step(s) \/ Fail(s)

Spec == Init /\ [][Next]_vars

-----------------------------------------------------------------------------
(* Properties.                                                             *)

\* A guest comes with more people than the invite allows only if an admin
\* lowered the allowance after that answer was checked against it.
OverAllowanceOnlyAfterCut ==
    \A g \in Present :
      guests[g].status = "attending" /\ guests[g].count > guests[g].max => g \in cut

\* The numbers of the dashboard agree with each other: every guest is in one
\* column, those who come are at least one person each, and no more people
\* come than are invited unless an allowance was cut.
SummaryAddsUp ==
    \A w \in Weddings :
      LET s == Summary(w) IN
        /\ s.pending + s.attending + s.declined = s.total
        /\ s.attending <= s.attendingPeople
        /\ s.attendingPeople > s.invited =>
             \E g \in cut \cap Present : guests[g].wedding = w

\* An answer changes only by an RSVP whose lookup found that very guest: not
\* by an admin's edit that was under way, and not by an RSVP for an earlier
\* holder of a code that was drawn again.
AnswersKept ==
    [][\A g \in Present :
         guests'[g] # None /\
         <<guests'[g].status, guests'[g].count>> # <<guests[g].status, guests[g].count>> =>
           \E s \in Slots : pc[s] = "save" /\ req[s].guest = g]_vars

\* A guest is edited and removed only by an admin scoped to its wedding, and
\* keeps its wedding and its code.
GuestsStayInWedding ==
    [][\A g \in Present :
         /\ guests'[g] # None => /\ guests'[g].wedding = guests[g].wedding
                                 /\ guests'[g].code = guests[g].code
         /\ guests'[g] = None \/ guests'[g].max # guests[g].max =>
              \E s \in Slots : /\ pc[s] = "write" /\ req[s].guest = g
                               /\ req[s].wedding = guests[g].wedding]_vars

\* However many codes collide, a create stores one guest at most, of its own
\* wedding: the statement that stores a guest stores no other one, and none of
\* its create runs after it, whatever became of the answer (guest.go:75-83).
CreateStoresOne ==
    [][\A g \in GuestIds :
         guests[g] = None /\ guests'[g] # None =>
           /\ \A h \in GuestIds \ {g} : guests[h] = None => guests'[h] = None
           /\ \E s \in Slots : /\ pc[s] = "insert" /\ pc'[s] = "idle"
                               /\ guests'[g].wedding = req[s].wedding]_vars
=============================================================================
