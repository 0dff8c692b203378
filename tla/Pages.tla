-------------------------------- MODULE Pages --------------------------------
(***************************************************************************)
(* The two pages the website loads in one request: a guest's invitation    *)
(* (by code) and the wedding page (by slug).  Each is put together from    *)
(* several statements without a transaction, while admins rename weddings, *)
(* edit the schedule and the gift accounts and remove guests.              *)
(*                                                                         *)
(* An admin's write is the one statement that takes effect; how it gets    *)
(* there is the matter of modules Weddings and GuestList.                  *)
(***************************************************************************)
EXTENDS FiniteSets

CONSTANTS
    Slots,       \* slots for concurrent page requests
    Weddings,    \* the weddings; none is ever deleted
    Slugs,       \* slugs they move between
    Codes,       \* invite codes, one for each guest
    RowIds,      \* primary keys of events and gift accounts, never reused
    None         \* an absent row or field

ASSUME NoneAssumption == None \notin Weddings \cup Slugs \cup RowIds

VARIABLES
    slugOf,      \* weddings.slug
    guestOf,     \* guests.wedding_id by invite code
    rows,        \* every event and gift account that was ever added
    removed,     \* those that are deleted again
    pc,          \* the statement each slot runs next
    page,        \* what each slot has put together
    disturbed    \* history: requests whose wedding or guest was written to

vars == <<slugOf, guestOf, rows, removed, pc, page, disturbed>>

Row == [wedding : Weddings, kind : {"event", "gift"}]

Page == [code    : Codes \cup {None},      \* None on the wedding page
         wedding : Weddings,               \* by id
         slug    : Slugs \cup {None},
         events  : SUBSET RowIds,
         gifts   : SUBSET RowIds]

\* An absent row is no row.
ASSUME RecordAssumption == None \notin Row /\ None \notin Page

\* Types, and the unique index on weddings.slug.
TypeOK ==
    /\ slugOf \in [Weddings -> Slugs]
    /\ \A v, w \in Weddings : slugOf[v] = slugOf[w] => v = w
    /\ guestOf \in [Codes -> Weddings \cup {None}]
    /\ rows \in [RowIds -> Row \cup {None}]
    /\ removed \subseteq {i \in RowIds : rows[i] # None}
    /\ pc \in [Slots -> {"idle", "wedding", "events", "gifts", "reply"}]
    /\ page \in [Slots -> Page \cup {None}]
    /\ \A s \in Slots : page[s] # None /\ pc[s] # "wedding" => page[s].slug # None
    /\ disturbed \subseteq Slots

Init ==
    /\ slugOf \in {f \in [Weddings -> Slugs] : \A v, w \in Weddings : f[v] = f[w] => v = w}
    /\ guestOf \in [Codes -> Weddings \cup {None}]
    /\ rows = [i \in RowIds |-> None]
    /\ removed = {}
    /\ pc = [s \in Slots |-> "idle"]
    /\ page = [s \in Slots |-> None]
    /\ disturbed = {}

\* ListByWedding of the events or of the gift accounts.
Listed(w, kind) ==
    {i \in RowIds \ removed : rows[i] # None /\ rows[i].wedding = w /\ rows[i].kind = kind}

Showing(w) == {s \in Slots : page[s] # None /\ page[s].wedding = w}

-----------------------------------------------------------------------------
(* What admins do meanwhile.                                               *)

\* Mutant: nothing refuses a slug that is held.
Rename_Unchecked(w, slug) ==
    /\ slugOf' = [slugOf EXCEPT ![w] = slug]
    /\ disturbed' = disturbed \cup Showing(w)
    /\ UNCHANGED <<guestOf, rows, removed, pc, page>>

Rename(w, slug) ==
    /\ \A v \in Weddings : slugOf[v] # slug
    /\ slugOf' = [slugOf EXCEPT ![w] = slug]
    /\ disturbed' = disturbed \cup Showing(w)
    /\ UNCHANGED <<guestOf, rows, removed, pc, page>>

AddRow(w, kind) ==
    /\ \E i \in RowIds : /\ rows[i] = None
                         /\ rows' = [rows EXCEPT ![i] = [wedding |-> w, kind |-> kind]]
    /\ disturbed' = disturbed \cup Showing(w)
    /\ UNCHANGED <<slugOf, guestOf, removed, pc, page>>

RemoveRow(i) ==
    /\ rows[i] # None /\ i \notin removed
    /\ removed' = removed \cup {i}
    /\ disturbed' = disturbed \cup Showing(rows[i].wedding)
    /\ UNCHANGED <<slugOf, guestOf, rows, pc, page>>

RemoveGuest(c) ==
    /\ guestOf[c] # None
    /\ guestOf' = [guestOf EXCEPT ![c] = None]
    /\ disturbed' = disturbed \cup {s \in Slots : page[s] # None /\ page[s].code = c}
    /\ UNCHANGED <<slugOf, rows, removed, pc, page>>

\* A create draws a code nobody holds, which may be one of a removed guest.
AddGuest(c, w) ==
    /\ guestOf[c] = None
    /\ guestOf' = [guestOf EXCEPT ![c] = w]
    /\ disturbed' = disturbed \cup {s \in Slots : page[s] # None /\ page[s].code = c}
    /\ UNCHANGED <<slugOf, rows, removed, pc, page>>

Write ==
    \/ \E w \in Weddings : \/ \E s \in Slugs : Rename(w, s)
                           \/ \E k \in {"event", "gift"} : AddRow(w, k)
                           \/ \E c \in Codes : AddGuest(c, w)
    \/ \E i \in RowIds : RemoveRow(i)
    \/ \E c \in Codes : RemoveGuest(c)

-----------------------------------------------------------------------------
(* The requests.                                                           *)

Goto(s, step) == pc' = [pc EXCEPT ![s] = step]

Reads == UNCHANGED <<slugOf, guestOf, rows, removed, disturbed>>

\* GET /invitations/{code}: GetByInviteCode.
BeginInvitation(s) ==
    /\ pc[s] = "idle"
    /\ \E c \in Codes :
         /\ guestOf[c] # None
         /\ page' = [page EXCEPT ![s] = [code |-> c, wedding |-> guestOf[c],
                                         slug |-> None, events |-> {}, gifts |-> {}]]
    /\ Goto(s, "wedding")
    /\ Reads

\* Weddings.ByID with the id from the guest.  The cascading foreign key keeps
\* the wedding of a guest in place, so that it is always found.
LoadWedding(s) ==
    /\ pc[s] = "wedding"
    /\ page' = [page EXCEPT ![s].slug = slugOf[page[s].wedding]]
    /\ Goto(s, "events")
    /\ Reads

\* GET /w/{slug}/wedding: BySlug.
BeginWeddingPage(s) ==
    /\ pc[s] = "idle"
    /\ \E w \in Weddings :
         page' = [page EXCEPT ![s] = [code |-> None, wedding |-> w, slug |-> slugOf[w],
                                      events |-> {}, gifts |-> {}]]
    /\ Goto(s, "events")
    /\ Reads

\* Mutant: the schedule is looked up by the slug that was just loaded.
LoadEvents_BySlug(s) ==
    /\ pc[s] = "events"
    /\ page' = [page EXCEPT ![s].events =
                  UNION {Listed(w, "event") : w \in {v \in Weddings : slugOf[v] = page[s].slug}}]
    /\ Goto(s, IF page[s].code = None THEN "reply" ELSE "gifts")
    /\ Reads

\* Events.ListByWedding with the id of the wedding.
LoadEvents(s) ==
    /\ pc[s] = "events"
    /\ page' = [page EXCEPT ![s].events = Listed(page[s].wedding, "event")]
    /\ Goto(s, IF page[s].code = None THEN "reply" ELSE "gifts")
    /\ Reads

\* Mutant: the gift accounts come from a cache that deletes do not reach.
LoadGifts_Cached(s) ==
    /\ pc[s] = "gifts"
    /\ page' = [page EXCEPT ![s].gifts =
         {i \in RowIds : rows[i] # None /\ rows[i].wedding = page[s].wedding
                                        /\ rows[i].kind = "gift"}]
    /\ Goto(s, "reply")
    /\ Reads

\* Gifts.ListByWedding
LoadGifts(s) ==
    /\ pc[s] = "gifts"
    /\ page' = [page EXCEPT ![s].gifts = Listed(page[s].wedding, "gift")]
    /\ Goto(s, "reply")
    /\ Reads

Finish(s) ==
    /\ Goto(s, "idle")
    /\ page' = [page EXCEPT ![s] = None]
    /\ disturbed' = disturbed \ {s}
    /\ UNCHANGED <<slugOf, guestOf, rows, removed>>

Reply(s) == pc[s] = "reply" /\ Finish(s)

\* A statement fails or the 5 s timeout hits: no part of the page is sent.
Fail(s) == pc[s] \notin {"idle", "reply"} /\ Finish(s)

Step(s) == LoadWedding(s) \/ LoadEvents(s) \/ LoadGifts(s) \/ Reply(s)

Next == Write \/ \E s \in Slots : BeginInvitation(s) \/ BeginWeddingPage(s) \/ Step(s) \/ Fail(s)

Spec == Init /\ [][Next]_vars

-----------------------------------------------------------------------------
(* Properties.                                                             *)

\* However weddings trade slugs while a page is put together, it shows the
\* schedule and the gift accounts of one wedding only, the guest's own.
OneWeddingPerPage ==
    \A s \in Slots :
      page[s] # None =>
        \A i \in page[s].events \cup page[s].gifts : rows[i].wedding = page[s].wedding

\* A page nobody's write overlaps is exact: what it replies with is what the
\* tables hold at that instant, and its guest is still on the list.
UndisturbedPageIsExact ==
    \A s \in Slots :
      pc[s] = "reply" /\ s \notin disturbed =>
        /\ page[s].slug = slugOf[page[s].wedding]
        /\ page[s].events = Listed(page[s].wedding, "event")
        /\ page[s].code # None =>
             /\ guestOf[page[s].code] = page[s].wedding
             /\ page[s].gifts = Listed(page[s].wedding, "gift")
=============================================================================
