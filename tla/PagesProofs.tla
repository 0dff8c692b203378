---------------------------- MODULE PagesProofs ----------------------------
(***************************************************************************)
(* Theorems about Pages, for any number of concurrent page requests, any   *)
(* weddings, slugs, invite codes and rows.                                 *)
(***************************************************************************)
EXTENDS Pages, TLAPS

\* What a slot has put together fits the statement it runs next.
SlotsInv ==
    \A s \in Slots :
      /\ pc[s] = "idle" <=> page[s] = None
      /\ pc[s] = "gifts" => page[s].code # None

\* The rows on a page were added to its wedding, and a row keeps its wedding.
RowsInv ==
    \A s \in Slots :
      page[s] # None =>
        \A i \in page[s].events \cup page[s].gifts :
          rows[i] # None /\ rows[i].wedding = page[s].wedding

\* What a request has read so far is still so.
Exact(s) ==
    LET w == page[s].wedding IN
      /\ pc[s] # "wedding" => page[s].slug = slugOf[w]
      /\ pc[s] \in {"gifts", "reply"} => page[s].events = Listed(w, "event")
      /\ page[s].code # None =>
           /\ guestOf[page[s].code] = w
           /\ pc[s] = "reply" => page[s].gifts = Listed(w, "gift")

ExactInv == \A s \in Slots : page[s] # None /\ s \notin disturbed => Exact(s)

\* The inductive invariant.
Inv == TypeOK /\ SlotsInv /\ RowsInv /\ ExactInv

Steps == {"idle", "wedding", "events", "gifts", "reply"}

LEMMA NoneFacts ==
    None \notin Weddings \cup Slugs \cup RowIds /\ None \notin Row /\ None \notin Page
BY NoneAssumption, RecordAssumption

-----------------------------------------------------------------------------
LEMMA InitInv == Init => Inv
BY DEF Init, Inv, TypeOK, SlotsInv, RowsInv, ExactInv, Row

(* The writes of admins.                                                   *)

\* A write leaves every request alone, and those it does not disturb exact.
LEMMA WriteInv ==
    ASSUME Inv, TypeOK', UNCHANGED <<pc, page>>, disturbed \subseteq disturbed',
           \A i \in RowIds : rows[i] # None => rows'[i] = rows[i],
           ASSUME NEW s \in Slots, page[s] # None, s \notin disturbed', Exact(s)
           PROVE  Exact(s)'
    PROVE  Inv'
<1>1. SlotsInv'
  BY DEF Inv, SlotsInv
<1>2. RowsInv'
  <2> SUFFICES ASSUME NEW s \in Slots, page[s] # None,
                      NEW i \in page[s].events \cup page[s].gifts
               PROVE  rows'[i] # None /\ rows'[i].wedding = page[s].wedding
    BY DEF RowsInv
  <2>1. i \in RowIds
    BY DEF Inv, TypeOK, Page
  <2> QED BY <2>1 DEF Inv, RowsInv
<1>3. ExactInv'
  BY DEF Inv, ExactInv
<1> QED BY <1>1, <1>2, <1>3 DEF Inv

\* The wedding of a page that is not being shown is another one.
LEMMA NotShown ==
    ASSUME TypeOK, NEW s \in Slots, page[s] # None, NEW w, s \notin Showing(w)
    PROVE  page[s].wedding \in Weddings \ {w}
BY DEF TypeOK, Page, Showing

LEMMA RenameInv ==
    ASSUME Inv, NEW w \in Weddings, NEW slug \in Slugs, Rename(w, slug) PROVE Inv'
<1>1. TypeOK'
  BY DEF Rename, Inv, TypeOK, Showing
<1>2. ASSUME NEW s \in Slots, page[s] # None, s \notin disturbed', Exact(s) PROVE Exact(s)'
  <2>1. page[s].wedding \in Weddings \ {w}
    BY <1>2, NotShown DEF Rename, Inv
  <2> QED BY <1>2, <2>1 DEF Rename, Exact, Listed, Inv, TypeOK
<1> QED BY <1>1, <1>2, WriteInv DEF Rename

LEMMA AddRowInv ==
    ASSUME Inv, NEW w \in Weddings, NEW kind \in {"event", "gift"}, AddRow(w, kind) PROVE Inv'
<1>1. PICK i \in RowIds : /\ rows[i] = None
                          /\ rows' = [rows EXCEPT ![i] = [wedding |-> w, kind |-> kind]]
  BY DEF AddRow
<1>2. [wedding |-> w, kind |-> kind] \in Row
  BY DEF Row
<1>3. TypeOK'
  BY <1>1, <1>2, NoneFacts DEF AddRow, Inv, TypeOK, Showing
<1>4. \A v \in Weddings \ {w}, k \in {"event", "gift"} : Listed(v, k)' = Listed(v, k)
  BY <1>1 DEF AddRow, Listed, Inv, TypeOK
<1>5. ASSUME NEW s \in Slots, page[s] # None, s \notin disturbed', Exact(s) PROVE Exact(s)'
  <2>1. page[s].wedding \in Weddings \ {w}
    BY <1>5, NotShown DEF AddRow, Inv
  <2> QED BY <1>4, <1>5, <2>1 DEF AddRow, Exact
<1>6. \A j \in RowIds : rows[j] # None => rows'[j] = rows[j]
  BY <1>1 DEF Inv, TypeOK
<1> QED BY <1>3, <1>5, <1>6, WriteInv DEF AddRow

LEMMA RemoveRowInv ==
    ASSUME Inv, NEW i \in RowIds, RemoveRow(i) PROVE Inv'
<1>1. TypeOK'
  BY DEF RemoveRow, Inv, TypeOK, Showing
<1>2. \A v \in Weddings \ {rows[i].wedding}, k \in {"event", "gift"} :
        Listed(v, k)' = Listed(v, k)
  BY DEF RemoveRow, Listed
<1>3. ASSUME NEW s \in Slots, page[s] # None, s \notin disturbed', Exact(s) PROVE Exact(s)'
  <2>1. page[s].wedding \in Weddings \ {rows[i].wedding}
    BY <1>3, NotShown DEF RemoveRow, Inv
  <2> QED BY <1>2, <1>3, <2>1 DEF RemoveRow, Exact
<1> QED BY <1>1, <1>3, WriteInv DEF RemoveRow

\* A guest is removed, or a code is given to a new one.
LEMMA GuestInv ==
    ASSUME Inv, NEW c \in Codes,
           RemoveGuest(c) \/ \E w \in Weddings : AddGuest(c, w)
    PROVE  Inv'
<1>1. TypeOK'
  BY DEF RemoveGuest, AddGuest, Inv, TypeOK
<1>2. ASSUME NEW s \in Slots, page[s] # None, s \notin disturbed', Exact(s) PROVE Exact(s)'
  <2>1. page[s].code # c /\ page[s].code \in Codes \cup {None}
    BY <1>2 DEF RemoveGuest, AddGuest, Inv, TypeOK, Page
  <2> QED BY <1>2, <2>1 DEF RemoveGuest, AddGuest, Exact, Listed, Inv, TypeOK
<1> QED BY <1>1, <1>2, WriteInv DEF RemoveGuest, AddGuest

-----------------------------------------------------------------------------
(* The requests.                                                           *)

\* A request begins or runs a statement, and the others are left alone.
LEMMA SlotInv ==
    ASSUME Inv, NEW s \in Slots, NEW p \in Page, NEW step \in Steps \ {"idle"},
           page' = [page EXCEPT ![s] = p], Goto(s, step), Reads,
           step # "wedding" => p.slug # None,
           step = "gifts" => p.code # None,
           \A i \in p.events \cup p.gifts : rows[i] # None /\ rows[i].wedding = p.wedding,
           s \notin disturbed => Exact(s)'
    PROVE  Inv'
<1>1. TypeOK'
  BY DEF Inv, TypeOK, Goto, Reads, Steps
<1>2. SlotsInv'
  BY NoneFacts DEF Inv, TypeOK, SlotsInv, Goto, Steps
<1>3. RowsInv'
  BY DEF Inv, TypeOK, RowsInv, Reads
<1>4. ExactInv'
  <2> SUFFICES ASSUME NEW r \in Slots, page'[r] # None, r \notin disturbed PROVE Exact(r)'
    BY DEF ExactInv, Reads
  <2>1. CASE r = s
    BY <2>1
  <2>2. CASE r # s
    BY <2>2 DEF Inv, TypeOK, ExactInv, Exact, Listed, Goto, Reads
  <2> QED BY <2>1, <2>2
<1> QED BY <1>1, <1>2, <1>3, <1>4 DEF Inv

LEMMA BeginInvitationInv == ASSUME Inv, NEW s \in Slots, BeginInvitation(s) PROVE Inv'
<1>1. PICK c \in Codes :
        /\ guestOf[c] # None
        /\ page' = [page EXCEPT ![s] = [code |-> c, wedding |-> guestOf[c],
                                        slug |-> None, events |-> {}, gifts |-> {}]]
  BY DEF BeginInvitation
<1> DEFINE p == [code |-> c, wedding |-> guestOf[c], slug |-> None, events |-> {}, gifts |-> {}]
<1>2. p \in Page
  BY <1>1 DEF Inv, TypeOK, Page
<1>3. Exact(s)'
  BY <1>1 DEF BeginInvitation, Exact, Goto, Reads, Inv, TypeOK
<1> QED BY <1>1, <1>2, <1>3, SlotInv DEF BeginInvitation, Steps

LEMMA BeginWeddingPageInv == ASSUME Inv, NEW s \in Slots, BeginWeddingPage(s) PROVE Inv'
<1>1. PICK w \in Weddings :
        page' = [page EXCEPT ![s] = [code |-> None, wedding |-> w, slug |-> slugOf[w],
                                     events |-> {}, gifts |-> {}]]
  BY DEF BeginWeddingPage
<1> DEFINE p == [code |-> None, wedding |-> w, slug |-> slugOf[w], events |-> {}, gifts |-> {}]
<1>2. p \in Page /\ p.slug # None
  BY NoneFacts DEF Inv, TypeOK, Page
<1>3. Exact(s)'
  BY <1>1 DEF BeginWeddingPage, Exact, Goto, Reads, Inv, TypeOK
<1> QED BY <1>1, <1>2, <1>3, SlotInv DEF BeginWeddingPage, Steps

\* What a page is while a statement is run for it.
LEMMA PageFacts ==
    ASSUME Inv, NEW s \in Slots, pc[s] # "idle"
    PROVE  page[s] \in Page /\ page[s].wedding \in Weddings
BY DEF Inv, TypeOK, SlotsInv, Page

LEMMA LoadWeddingInv == ASSUME Inv, NEW s \in Slots, LoadWedding(s) PROVE Inv'
<1> DEFINE p == [page[s] EXCEPT !.slug = slugOf[page[s].wedding]]
<1>1. pc[s] = "wedding" /\ page[s] \in Page /\ page[s].wedding \in Weddings /\ page[s] # None
  BY PageFacts DEF LoadWedding, Inv, SlotsInv
<1>2. slugOf[page[s].wedding] \in Slugs
  BY <1>1 DEF Inv, TypeOK
<1>3. p \in Page /\ p.slug # None /\ page' = [page EXCEPT ![s] = p]
  BY <1>1, <1>2, NoneFacts DEF LoadWedding, Page
<1>4. \A i \in p.events \cup p.gifts : rows[i] # None /\ rows[i].wedding = p.wedding
  BY <1>1 DEF Inv, RowsInv, Page
<1>5. s \notin disturbed => Exact(s)'
  BY <1>1, <1>3 DEF LoadWedding, Inv, TypeOK, ExactInv, Exact, Goto, Reads, Page
<1> QED BY <1>3, <1>4, <1>5, SlotInv DEF LoadWedding, Steps

LEMMA LoadEventsInv == ASSUME Inv, NEW s \in Slots, LoadEvents(s) PROVE Inv'
<1> DEFINE p == [page[s] EXCEPT !.events = Listed(page[s].wedding, "event")]
<1>1. pc[s] = "events" /\ page[s] \in Page /\ page[s].wedding \in Weddings /\ page[s] # None
  BY PageFacts DEF LoadEvents, Inv, SlotsInv
<1>2. /\ p \in Page /\ p.slug # None
      /\ p.code = page[s].code
      /\ page' = [page EXCEPT ![s] = p]
  BY <1>1 DEF LoadEvents, Page, Listed, Inv, TypeOK
<1>3. \A i \in p.events \cup p.gifts : rows[i] # None /\ rows[i].wedding = p.wedding
  BY <1>1 DEF Inv, RowsInv, Page, Listed
<1>4. s \notin disturbed => Exact(s)'
  BY <1>1, <1>2 DEF LoadEvents, Inv, TypeOK, ExactInv, Exact, Goto, Reads, Page, Listed
<1> QED BY <1>2, <1>3, <1>4, SlotInv DEF LoadEvents, Steps

LEMMA LoadGiftsInv == ASSUME Inv, NEW s \in Slots, LoadGifts(s) PROVE Inv'
<1> DEFINE p == [page[s] EXCEPT !.gifts = Listed(page[s].wedding, "gift")]
<1>1. pc[s] = "gifts" /\ page[s] \in Page /\ page[s].wedding \in Weddings /\ page[s] # None
  BY PageFacts DEF LoadGifts, Inv, SlotsInv
<1>2. p \in Page /\ p.slug # None /\ page' = [page EXCEPT ![s] = p]
  BY <1>1 DEF LoadGifts, Page, Listed, Inv, TypeOK
<1>3. \A i \in p.events \cup p.gifts : rows[i] # None /\ rows[i].wedding = p.wedding
  BY <1>1 DEF Inv, RowsInv, Page, Listed
<1>4. s \notin disturbed => Exact(s)'
  BY <1>1, <1>2 DEF LoadGifts, Inv, TypeOK, ExactInv, Exact, Goto, Reads, Page, Listed
<1> QED BY <1>2, <1>3, <1>4, SlotInv DEF LoadGifts, Steps

\* A request ends, with or without a reply.
LEMMA FinishInv == ASSUME Inv, NEW s \in Slots, Finish(s) PROVE Inv'
<1>1. TypeOK'
  BY NoneFacts DEF Finish, Goto, Inv, TypeOK
<1>2. SlotsInv' /\ RowsInv'
  BY DEF Finish, Goto, Inv, TypeOK, SlotsInv, RowsInv
<1>3. ExactInv'
  BY DEF Finish, Goto, Inv, TypeOK, ExactInv, Exact, Listed
<1> QED BY <1>1, <1>2, <1>3 DEF Inv

-----------------------------------------------------------------------------
(* The theorems.                                                           *)

LEMMA NextInv == Inv /\ [Next]_vars => Inv'
<1> SUFFICES ASSUME Inv, [Next]_vars PROVE Inv'
  OBVIOUS
<1>1. CASE Write
  BY <1>1, RenameInv, AddRowInv, RemoveRowInv, GuestInv DEF Write
<1>2. ASSUME NEW s \in Slots,
             BeginInvitation(s) \/ BeginWeddingPage(s) \/ Step(s) \/ Fail(s)
      PROVE  Inv'
  BY <1>2, BeginInvitationInv, BeginWeddingPageInv, LoadWeddingInv, LoadEventsInv,
     LoadGiftsInv, FinishInv DEF Step, Reply, Fail
<1>3. CASE UNCHANGED vars
  BY <1>3 DEF vars, Inv, TypeOK, SlotsInv, RowsInv, ExactInv, Exact, Listed
<1> QED BY <1>1, <1>2, <1>3 DEF Next

\* The inductive invariant holds in every reachable state.
THEOREM Inductive == Spec => []Inv
<1> QED BY InitInv, NextInv, PTL DEF Spec

\* Types, and slugs that are unique (0001_init.sql), with writes at any time.
THEOREM Typed == Spec => []TypeOK
<1>1. Inv => TypeOK
  BY DEF Inv
<1> QED BY <1>1, Inductive, PTL

\* A page shows rows of one wedding (usecase/invitation.go, handlers/wedding.go).
THEOREM PagesShowOneWedding == Spec => []OneWeddingPerPage
<1>1. Inv => OneWeddingPerPage
  BY DEF Inv, RowsInv, OneWeddingPerPage
<1> QED BY <1>1, Inductive, PTL

\* A page no write overlaps is what the tables hold when it is sent.
THEOREM UndisturbedPagesAreExact == Spec => []UndisturbedPageIsExact
<1>1. Inv => UndisturbedPageIsExact
  BY DEF Inv, SlotsInv, ExactInv, Exact, UndisturbedPageIsExact
<1> QED BY <1>1, Inductive, PTL
=============================================================================
